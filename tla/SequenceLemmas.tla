---------------------------- MODULE SequenceLemmas ----------------------------
(***************************************************************************)
(* Facts about numbers and sequences that the proofs about several         *)
(* components need.                                                        *)
(***************************************************************************)
EXTENDS Integers, SequencesExt, SequenceTheorems, WellFoundedInduction, TLAPS

(* Every nonempty set of natural numbers has a least element: what stands   *)
(* in for induction in the proofs that need it.                             *)
LEMMA LeastNatural ==
  ASSUME NEW S, S \subseteq Nat, S # {}
  PROVE  \E m \in S : \A k \in S : m <= k
<1> DEFINE R == OpToRel(<, Nat)
<1>1. IsWellFoundedOn(R, Nat)
  BY NatLessThanWellFounded
<1>2. \A j, k \in Nat : j < k => <<j, k>> \in R
  BY DEF OpToRel
<1> HIDE DEF R
<1>3. PICK m \in S : \A k \in S : <<k, m>> \notin R
  BY <1>1, WFMin
<1>4. \A k \in S : ~(k < m)
  BY <1>2, <1>3, Zenon
<1>5. \A k \in S : k \in Nat /\ m \in Nat
  OBVIOUS
<1> QED
  BY <1>4, <1>5

(* Min is the least element of a set of natural numbers.                    *)
LEMMA MinIsLeast ==
  ASSUME NEW S, S \subseteq Nat, S # {}
  PROVE  Min(S) \in S /\ \A k \in S : Min(S) <= k
<1>1. PICK m \in S : \A k \in S : m <= k
  BY LeastNatural
<1> QED
  BY <1>1, Zenon DEF Min

(* An element that is not above any other is the minimum.                   *)
LEMMA MinIs ==
  ASSUME NEW S, S \subseteq Nat, NEW m \in S, \A k \in S : m <= k
  PROVE  Min(S) = m
<1>1. Min(S) \in S /\ \A k \in S : Min(S) <= k
  BY MinIsLeast
<1> DEFINE n == Min(S)
<1>2. n \in Nat /\ m \in Nat /\ n <= m /\ m <= n
  BY <1>1
<1> HIDE DEF n
<1>3. n = m
  BY <1>2
<1> QED
  BY <1>3 DEF n

(* A bounded set of natural numbers has a greatest element, which Max gives.*)
LEMMA MaxIsGreatest ==
  ASSUME NEW n \in Nat, NEW S, S \subseteq 0 .. n, S # {}
  PROVE  Max(S) \in S /\ \A k \in S : k <= Max(S)
<1> DEFINE T == {n - k : k \in S}
<1>1. T \subseteq Nat /\ T # {}
  <2>1. \A k \in S : n - k \in Nat
    OBVIOUS
  <2> QED
    BY <2>1
<1>2. PICK m \in T : \A k \in T : m <= k
  <2> HIDE DEF T
  <2> QED
    BY <1>1, LeastNatural
<1>3. PICK k \in S : m = n - k
  OBVIOUS
<1>4. \A j \in S : n - k <= n - j
  BY <1>2, <1>3
<1>5. \A j \in S : k >= j
  BY <1>4
<1> QED
  BY <1>5 DEF Max

(* What is left of a sequence without its element i.                        *)
LEMMA RemoveAtProperties ==
  ASSUME NEW S, NEW s \in Seq(S), NEW i \in 1 .. Len(s)
  PROVE  /\ RemoveAt(s, i) \in Seq(S)
         /\ Len(RemoveAt(s, i)) = Len(s) - 1
         /\ \A j \in 1 .. Len(s) - 1 :
              RemoveAt(s, i)[j] = IF j < i THEN s[j] ELSE s[j + 1]
<1> DEFINE a == SubSeq(s, 1, i - 1)
           b == SubSeq(s, i + 1, Len(s))
<1>1. a \in Seq(S) /\ Len(a) = i - 1 /\ \A j \in 1 .. i - 1 : a[j] = s[j]
  BY SubSeqProperties, LenProperties, ElementOfSeq
<1>2. b \in Seq(S) /\ Len(b) = Len(s) - i /\ \A j \in 1 .. Len(s) - i : b[j] = s[i + j]
  BY SubSeqProperties, LenProperties, ElementOfSeq
<1>3. RemoveAt(s, i) = a \o b
  BY DEF RemoveAt
<1> HIDE DEF a, b
<1>4. Len(s) \in Nat
  BY LenProperties
<1>5. /\ a \o b \in Seq(S) /\ Len(a \o b) = Len(s) - 1
      /\ \A j \in 1 .. Len(s) - 1 :
           (a \o b)[j] = IF j <= i - 1 THEN a[j] ELSE b[j - (i - 1)]
  <2>1. /\ a \o b \in Seq(S) /\ Len(a \o b) = Len(a) + Len(b)
        /\ \A j \in 1 .. Len(a) + Len(b) :
             (a \o b)[j] = IF j <= Len(a) THEN a[j] ELSE b[j - Len(a)]
    BY <1>1, <1>2, ConcatProperties
  <2>2. Len(a) = i - 1 /\ Len(a) + Len(b) = Len(s) - 1
    BY <1>1, <1>2, <1>4
  <2> QED
    BY <2>1, <2>2
<1>6. ASSUME NEW j \in 1 .. Len(s) - 1
      PROVE  (a \o b)[j] = IF j < i THEN s[j] ELSE s[j + 1]
  <2>1. CASE j < i
    BY <1>1, <1>4, <1>5, <2>1
  <2>2. CASE ~(j < i)
    <3>1. j - (i - 1) \in 1 .. Len(s) - i /\ i + (j - (i - 1)) = j + 1
      BY <1>4, <2>2
    <3>2. b[j - (i - 1)] = s[j + 1]
      BY <1>2, <3>1
    <3> QED
      BY <1>4, <1>5, <2>2, <3>2
  <2> QED
    BY <2>1, <2>2
<1> QED
  BY <1>3, <1>5, <1>6

-----------------------------------------------------------------------------
(* Whatever is begun with base and goes on with F, element after element of *)
(* 1 .. n, exists, in the form in which a fold is defined: over the sets of *)
(* the elements that are left.                                              *)
LEMMA FoldExists ==
  ASSUME NEW n \in Nat, NEW V, NEW base \in V, NEW F \in [V \X (1 .. n) -> V]
  PROVE  \E h \in [SUBSET (1 .. n) -> V] :
           \A s \in SUBSET (1 .. n) :
             /\ h[s] = IF s = {} THEN base ELSE F[<<h[s \ {Max(s)}], Max(s)>>]
             /\ s # {} => Max(s) \in 1 .. n
<1> DEFINE Run(k, h) ==
             h \in [SUBSET (1 .. k) -> V] /\ \A s \in SUBSET (1 .. k) :
               h[s] = IF s = {} THEN base ELSE F[<<h[s \ {Max(s)}], Max(s)>>]
           S == {k \in 0 .. n : ~\E h : Run(k, h)}
<1>1. \E h : Run(0, h)
  <2> DEFINE g == [s \in SUBSET (1 .. 0) |-> base]
  <2>1. \A s \in SUBSET (1 .. 0) : s = {}
    OBVIOUS
  <2>2. Run(0, g)
    BY <2>1
  <2> QED
    BY <2>2
<1>2. ASSUME NEW k \in Nat, k < n, \E h : Run(k, h)
      PROVE  \E h : Run(k + 1, h)
  <2>1. PICK h : Run(k, h)
    BY <1>2
  <2> DEFINE g == [s \in SUBSET (1 .. k + 1) |->
                     IF k + 1 \in s THEN F[<<h[s \ {k + 1}], k + 1>>] ELSE h[s]]
  <2>2. ASSUME NEW s \in SUBSET (1 .. k + 1)
        PROVE  /\ k + 1 \in s => s \ {k + 1} \in SUBSET (1 .. k)
               /\ k + 1 \notin s => s \in SUBSET (1 .. k)
    OBVIOUS
  <2>3. ASSUME NEW s \in SUBSET (1 .. k + 1), k + 1 \in s
        PROVE  Max(s) = k + 1
    <3>1. Max(s) \in s /\ \A j \in s : j <= Max(s)
      <4>1. s \subseteq 0 .. k + 1 /\ s # {} /\ k + 1 \in Nat
        BY <2>3
      <4> QED
        BY <4>1, MaxIsGreatest
    <3> DEFINE m == Max(s)
    <3>2. m \in s /\ \A j \in s : j <= m
      BY <3>1
    <3> HIDE DEF m
    <3>3. m = k + 1
      BY <3>2, <2>3
    <3> QED
      BY <3>3 DEF m
  <2>4. ASSUME NEW s \in SUBSET (1 .. k), s # {}
        PROVE  Max(s) \in s /\ s \ {Max(s)} \in SUBSET (1 .. k) /\ k + 1 \notin s \ {Max(s)}
    <3>1. Max(s) \in s
      <4>1. s \subseteq 0 .. k
        OBVIOUS
      <4> QED
        BY <4>1, <2>4, MaxIsGreatest
    <3> DEFINE m == Max(s)
    <3>2. m \in s
      BY <3>1
    <3> HIDE DEF m
    <3>3. m \in s /\ s \ {m} \in SUBSET (1 .. k) /\ k + 1 \notin s \ {m}
      BY <3>2
    <3> QED
      BY <3>3 DEF m
  <2>5. g \in [SUBSET (1 .. k + 1) -> V]
    <3> SUFFICES ASSUME NEW s \in SUBSET (1 .. k + 1)
                 PROVE  (IF k + 1 \in s THEN F[<<h[s \ {k + 1}], k + 1>>] ELSE h[s]) \in V
      OBVIOUS
    <3>1. CASE k + 1 \in s
      <4>1. h[s \ {k + 1}] \in V
        BY <2>1, <2>2, <3>1
      <4>2. k + 1 \in 1 .. n
        BY <1>2
      <4> QED
        BY <3>1, <4>1, <4>2
    <3>2. CASE k + 1 \notin s
      BY <2>1, <2>2, <3>2
    <3> QED
      BY <3>1, <3>2
  <2>6. ASSUME NEW s \in SUBSET (1 .. k + 1)
        PROVE  g[s] = IF s = {} THEN base ELSE F[<<g[s \ {Max(s)}], Max(s)>>]
    <3>1. CASE k + 1 \in s
      <4>1. s \ {k + 1} \in SUBSET (1 .. k) /\ s \ {k + 1} \in SUBSET (1 .. k + 1)
        BY <2>2, <3>1
      <4>2. g[s \ {k + 1}] = h[s \ {k + 1}]
        BY <4>1
      <4>3. g[s] = F[<<h[s \ {k + 1}], k + 1>>]
        BY <3>1
      <4> HIDE DEF g
      <4> QED
        BY <3>1, <4>2, <4>3, <2>3
    <3>2. CASE k + 1 \notin s
      <4>1. s \in SUBSET (1 .. k) /\ g[s] = h[s]
        BY <2>2, <3>2
      <4>2. s # {} => g[s \ {Max(s)}] = h[s \ {Max(s)}]
        BY <4>1, <2>4
      <4> HIDE DEF g
      <4> QED
        BY <2>1, <4>1, <4>2
    <3> QED
      BY <3>1, <3>2
  <2>7. Run(k + 1, g)
    <3> HIDE DEF g
    <3> QED
      BY <2>5, <2>6
  <2> QED
    BY <2>7
<1> HIDE DEF Run
<1>3. S = {}
  <2> SUFFICES ASSUME S # {} PROVE FALSE
    OBVIOUS
  <2>1. PICK k \in S : \A j \in S : k <= j
    <3>1. S \subseteq Nat
      OBVIOUS
    <3> HIDE DEF S
    <3> QED
      BY <3>1, LeastNatural
  <2>2. k # 0
    BY <1>1
  <2>3. k - 1 \in Nat /\ k - 1 < n /\ k - 1 \in 0 .. n /\ k - 1 \notin S
    BY <2>1, <2>2
  <2>4. \E h : Run(k - 1, h)
    BY <2>3
  <2>5. \E h : Run((k - 1) + 1, h)
    BY <1>2, <2>3, <2>4
  <2>6. (k - 1) + 1 = k
    OBVIOUS
  <2> QED
    BY <2>5, <2>6
<1>4. PICK h : Run(n, h)
  BY <1>3
<1>5. ASSUME NEW s \in SUBSET (1 .. n), s # {}
      PROVE  Max(s) \in 1 .. n
  <2>1. s \subseteq 0 .. n
    OBVIOUS
  <2>2. Max(s) \in s
    BY <2>1, <1>5, MaxIsGreatest
  <2> QED
    BY <2>2, Zenon
<1> QED
  BY <1>4, <1>5 DEF Run

(* Induction up to n, with the numbers it is shown for as a set.            *)
LEMMA UpTo ==
  ASSUME NEW n \in Nat, NEW W, 0 \in W,
         \A k \in 1 .. n : k - 1 \in W => k \in W
  PROVE  0 .. n \subseteq W
<1> DEFINE S == {k \in 0 .. n : k \notin W}
<1> SUFFICES ASSUME S # {} PROVE FALSE
  OBVIOUS
<1>1. PICK k \in S : \A j \in S : k <= j
  <2>1. S \subseteq Nat
    OBVIOUS
  <2> HIDE DEF S
  <2> QED
    BY <2>1, LeastNatural
<1>2. k # 0 /\ k \in 1 .. n /\ k - 1 \in 0 .. n
  OBVIOUS
<1>3. k - 1 \in W
  BY <1>1, <1>2
<1> QED
  BY <1>2, <1>3

(* The set of all k elements has k as its greatest.                         *)
LEMMA FirstK ==
  ASSUME NEW k \in Nat, k # 0
  PROVE  /\ Max(1 .. k) = k /\ (1 .. k) \ {k} = 1 .. k - 1 /\ 1 .. k # {}
         /\ 1 .. 0 = {}
<1>1. 1 .. k \subseteq 0 .. k /\ k \in 1 .. k
  OBVIOUS
<1>2. Max(1 .. k) \in 1 .. k /\ \A j \in 1 .. k : j <= Max(1 .. k)
  BY <1>1, MaxIsGreatest
<1> QED
  BY <1>1, <1>2

(* A walk that goes on to a place of less rank until it stops: what it      *)
(* finds is a function of where it begins.                                  *)
IsWalk(n, D, V, rank, stop, value, next) ==
  /\ n \in Nat /\ rank \in [D -> 0 .. n] /\ stop \in SUBSET D
  /\ value \in [stop -> V] /\ next \in [D \ stop -> D]
  /\ \A d \in D \ stop : rank[next[d]] < rank[d]

Walks(h, D, stop, value, next) ==
  \A d \in D : h[d] = IF d \in stop THEN value[d] ELSE h[next[d]]

LEMMA WalkExists ==
  ASSUME NEW n, NEW D, NEW V, NEW rank, NEW stop, NEW value, NEW next,
         IsWalk(n, D, V, rank, stop, value, next)
  PROVE  \E h \in [D -> V] : Walks(h, D, stop, value, next)
<1> USE DEF IsWalk, Walks
<1> DEFINE Near(k) == {d \in D : rank[d] < k}
           Run(k, h) ==
             h \in [Near(k) -> V] /\ \A d \in Near(k) :
               h[d] = IF d \in stop THEN value[d] ELSE h[next[d]]
           W == {k \in 0 .. n + 1 : \E h : Run(k, h)}
<1>1. 0 \in W
  <2>1. Near(0) = {}
    OBVIOUS
  <2> DEFINE g == [d \in Near(0) |-> value[d]]
  <2>2. g \in [Near(0) -> V] /\ \A d \in Near(0) : FALSE
    BY <2>1
  <2> HIDE DEF g, Near
  <2>3. Run(0, g)
    BY <2>2
  <2> QED
    BY <2>3
<1>2. ASSUME NEW k \in 1 .. n + 1, k - 1 \in W
      PROVE  k \in W
  <2>1. PICK h : Run(k - 1, h)
    BY <1>2
  <2> DEFINE g == [d \in Near(k) |-> IF d \in stop THEN value[d] ELSE h[next[d]]]
  <2>2. ASSUME NEW d \in Near(k), d \notin stop
        PROVE  next[d] \in Near(k - 1) /\ next[d] \in Near(k)
    <3>1. d \in D /\ next[d] \in D /\ rank[next[d]] < rank[d] /\ rank[d] < k
      BY <2>2
    <3>2. rank[d] \in Nat /\ rank[next[d]] \in Nat
      BY <3>1
    <3> QED
      BY <3>1, <3>2
  <2>3. g \in [Near(k) -> V]
    BY <2>1, <2>2
  <2>4. \A d \in Near(k - 1) : d \in Near(k) /\ g[d] = h[d]
    BY <2>1
  <2>5. ASSUME NEW d \in Near(k)
        PROVE  g[d] = IF d \in stop THEN value[d] ELSE g[next[d]]
    BY <2>2, <2>4
  <2> HIDE DEF g, Near
  <2>6. Run(k, g)
    BY <2>3, <2>5
  <2> QED
    BY <2>6
<1>3. 0 .. n + 1 \subseteq W
  <2> HIDE DEF W
  <2>1. n + 1 \in Nat
    OBVIOUS
  <2> QED
    BY <1>1, <1>2, <2>1, UpTo
<1>4. PICK h : Run(n + 1, h)
  <2>1. n + 1 \in 0 .. n + 1
    OBVIOUS
  <2>2. n + 1 \in W
    BY <1>3, <2>1, Zenon
  <2> HIDE DEF Run
  <2> QED
    BY <2>2
<1>5. Near(n + 1) = D
  OBVIOUS
<1> QED
  BY <1>4, <1>5
=============================================================================
