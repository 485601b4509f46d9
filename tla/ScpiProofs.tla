----------------------------- MODULE ScpiProofs -----------------------------
(***************************************************************************)
(* What holds of Scpi for any clients, lines of commands and parameters,   *)
(* checked by TLAPS.                                                       *)
(***************************************************************************)
EXTENDS Scpi, SequenceTheorems, FiniteSetTheorems, WellFoundedInduction, TLAPS

-----------------------------------------------------------------------------
(* Numbers *)

\* A set of natural numbers has a least one.
LEMMA LeastNumber ==
  ASSUME NEW T \in SUBSET Nat, T # {}
  PROVE  \E x \in T : \A y \in T : x <= y
<1> DEFINE R == OpToRel(<, Nat)
<1>1. IsWellFoundedOn(R, Nat)
  BY NatLessThanWellFounded
<1>2. PICK x \in T : \A y \in T : <<y, x>> \notin R
  <2> HIDE DEF R
  <2> QED
    BY <1>1, WFMin, Zenon
<1>3. \A y \in T : x <= y
  <2> SUFFICES ASSUME NEW y \in T, ~(x <= y)
               PROVE  FALSE
    OBVIOUS
  <2>1. y < x /\ y \in Nat /\ x \in Nat
    OBVIOUS
  <2>2. <<y, x>> \in R
    BY <2>1 DEF OpToRel
  <2> QED
    BY <2>2, <1>2
<1> QED
  BY <1>3

\* What holds at 0, and at a number when it holds at the one before, holds up to n.
LEMMA UpTo ==
  ASSUME NEW n \in Nat, NEW S, 0 \in S, \A i \in 1..n : i - 1 \in S => i \in S
  PROVE  0..n \subseteq S
<1> DEFINE T == {i \in 0..n : i \notin S}
<1> SUFFICES ASSUME T # {}
             PROVE  FALSE
  OBVIOUS
<1>1. T \in SUBSET Nat
  OBVIOUS
<1>2. PICK x \in T : \A y \in T : x <= y
  <2> HIDE DEF T
  <2> QED
    BY <1>1, LeastNumber
<1>3. x \in 1..n /\ x - 1 \in 0..n /\ ~(x <= x - 1)
  BY <1>2
<1> QED
  BY <1>2, <1>3

\* The greatest of some numbers up to n
LEMMA Greatest ==
  ASSUME NEW n \in Nat, NEW T \in SUBSET (1..n), T # {}
  PROVE  /\ Max(T) \in T
         /\ \A x \in T : x <= Max(T)
<1> DEFINE U == {y \in Nat : \A x \in T : x <= y}
<1>1. U \in SUBSET Nat /\ n \in U
  OBVIOUS
<1>2. PICK y \in U : \A z \in U : y <= z
  <2> HIDE DEF U
  <2> QED
    BY <1>1, LeastNumber
<1>3. y \in T
  <2> SUFFICES ASSUME y \notin T
               PROVE  FALSE
    OBVIOUS
  <2>1. PICK x \in T : TRUE
    OBVIOUS
  <2>2. \A z \in T : z <= y - 1 /\ z \in Nat
    BY <1>2
  <2>3. y - 1 \in U
    BY <2>1, <2>2, <1>2
  <2> QED
    BY <2>3, <1>2
<1>4. \E z \in T : \A x \in T : z >= x
  BY <1>2, <1>3
<1>5. Max(T) \in T /\ \A x \in T : Max(T) >= x
  BY <1>4 DEF Max
<1> QED
  BY <1>5

-----------------------------------------------------------------------------
(* FoldLeft: the values it has for the parts of a sequence of length n, each a set of places *)

\* What holds of no places, and of some when it holds of them without the last, holds of all.
LEMMA PlaceByPlace ==
  ASSUME NEW n \in Nat, NEW S, {} \in S,
         \A T \in SUBSET (1..n) : T # {} /\ T \ {Max(T)} \in S => T \in S
  PROVE  SUBSET (1..n) \subseteq S
<1> DEFINE R == {k \in 0..n : SUBSET (1..k) \subseteq S}
<1>1. 0 \in R
  <2>1. \A T \in SUBSET (1..0) : T = {}
    OBVIOUS
  <2>2. SUBSET (1..0) \subseteq S
    BY <2>1, Zenon
  <2>3. 0 \in 0..n
    OBVIOUS
  <2> QED
    BY <2>2, <2>3, Zenon
<1>2. ASSUME NEW k \in 1..n, k - 1 \in R
      PROVE  k \in R
  <2> SUFFICES ASSUME NEW T \in SUBSET (1..k)
               PROVE  T \in S
    OBVIOUS
  <2>1. SUBSET (1..(k - 1)) \subseteq S
    BY <1>2
  <2>2. CASE T = {}
    BY <2>2
  <2>3. CASE T # {}
    <3>1. T \in SUBSET (1..n)
      OBVIOUS
    <3>2. Max(T) \in T /\ \A x \in T : x <= Max(T)
      BY <2>3, <3>1, Greatest
    <3>3. \A x \in T \ {Max(T)} : x \in 1..(k - 1)
      <4> SUFFICES ASSUME NEW x \in T, x # Max(T)
                   PROVE  x \in 1..(k - 1)
        OBVIOUS
      <4>1. x \in 1..k /\ Max(T) \in 1..k /\ x <= Max(T)
        BY <3>2
      <4> HIDE DEF R
      <4> QED
        BY <4>1
    <3>4. T \ {Max(T)} \in S
      BY <2>1, <3>3
    <3> QED
      BY <2>3, <3>1, <3>4
  <2> QED
    BY <2>2, <2>3
<1>3. 0..n \subseteq R
  <2> HIDE DEF R
  <2> QED
    BY <1>1, <1>2, UpTo
<1> QED
  BY <1>3

\* The values of a fold whose steps are those of a function exist.
Folding(iter, n, w, g) ==
  \A T \in SUBSET (1..n) :
    iter[T] = IF T = {} THEN w ELSE g[<<iter[T \ {Max(T)}], Max(T)>>]

FoldingPossible(n, W, w, g) == \E iter \in [SUBSET (1..n) -> W] : Folding(iter, n, w, g)

LEMMA FoldingExists ==
  ASSUME NEW n \in Nat, NEW W, NEW w \in W, NEW g \in [W \X (1..n) -> W]
  PROVE  FoldingPossible(n, W, w, g)
<1> DEFINE S == {k \in 0..n : FoldingPossible(k, W, w, g)}
<1>1. 0 \in S
  <2> DEFINE iter == [T \in SUBSET (1..0) |-> w]
  <2>1. \A T \in SUBSET (1..0) : T = {}
    OBVIOUS
  <2>2. iter \in [SUBSET (1..0) -> W] /\ Folding(iter, 0, w, g)
    BY <2>1 DEF Folding
  <2> HIDE DEF iter
  <2>3. FoldingPossible(0, W, w, g) /\ 0 \in 0..n
    BY <2>2 DEF FoldingPossible
  <2> QED
    BY <2>3
<1>2. ASSUME NEW k \in 1..n, k - 1 \in S
      PROVE  k \in S
  <2>1. PICK old \in [SUBSET (1..(k - 1)) -> W] : Folding(old, k - 1, w, g)
    BY <1>2 DEF FoldingPossible
  <2> DEFINE iter == [T \in SUBSET (1..k) |-> IF k \in T THEN g[<<old[T \ {k}], k>>] ELSE old[T]]
  <2>2. \A T \in SUBSET (1..k) : T \ {k} \in SUBSET (1..(k - 1))
    <3> SUFFICES ASSUME NEW T \in SUBSET (1..k), NEW x \in T, x # k
                 PROVE  x \in 1..(k - 1)
      BY Zenon
    <3>1. x \in 1..k
      OBVIOUS
    <3> HIDE DEF S
    <3> QED
      BY <3>1
  <2>3. \A T \in SUBSET (1..k) : k \notin T => T \ {k} = T
    OBVIOUS
  <2>4. k \in 1..k /\ k \in 1..n
    OBVIOUS
  <2>5. iter \in [SUBSET (1..k) -> W]
    <3> SUFFICES ASSUME NEW T \in SUBSET (1..k)
                 PROVE  (IF k \in T THEN g[<<old[T \ {k}], k>>] ELSE old[T]) \in W
      BY Zenon
    <3>1. old[T \ {k}] \in W
      BY <2>2
    <3>2. <<old[T \ {k}], k>> \in W \X (1..n)
      BY <2>4, <3>1
    <3>3. g[<<old[T \ {k}], k>>] \in W
      BY <3>2
    <3> HIDE DEF S
    <3> QED
      BY <2>3, <3>1, <3>3
  <2>6. ASSUME NEW T \in SUBSET (1..k)
        PROVE  iter[T] = IF T = {} THEN w ELSE g[<<iter[T \ {Max(T)}], Max(T)>>]
    <3>0. \A U \in SUBSET (1..k) : k \notin U => U \in SUBSET (1..(k - 1)) /\ iter[U] = old[U]
      BY <2>2, <2>3
    <3>1. CASE k \in T
      <4>1. T # {} /\ T \in SUBSET (1..n) /\ \A x \in T : x <= k
        BY <3>1
      <4>2. Max(T) \in T /\ \A x \in T : x <= Max(T)
        BY <4>1, Greatest
      <4>3. Max(T) = k
        <5> HIDE DEF S, iter
        <5>1. Max(T) \in 1..k /\ k \in 1..n
          BY <4>2
        <5>2. k <= Max(T) /\ Max(T) <= k
          BY <3>1, <4>1, <4>2
        <5> QED
          BY <5>1, <5>2
      <4>4. iter[T \ {k}] = old[T \ {k}]
        <5>1. T \ {k} \in SUBSET (1..k) /\ k \notin T \ {k}
          OBVIOUS
        <5> QED
          BY <3>0, <5>1, Zenon
      <4>5. iter[T] = g[<<old[T \ {k}], k>>]
        BY <3>1
      <4> HIDE DEF iter
      <4> QED
        BY <4>1, <4>3, <4>4, <4>5
    <3>2. CASE k \notin T
      <4>1. T \in SUBSET (1..(k - 1)) /\ iter[T] = old[T]
        BY <3>0, <3>2
      <4>2. old[T] = IF T = {} THEN w ELSE g[<<old[T \ {Max(T)}], Max(T)>>]
        BY <2>1, <4>1 DEF Folding
      <4>3. iter[T \ {Max(T)}] = old[T \ {Max(T)}]
        <5>1. T \ {Max(T)} \in SUBSET (1..k) /\ k \notin T \ {Max(T)}
          BY <3>2
        <5> QED
          BY <3>0, <5>1, Zenon
      <4> HIDE DEF iter
      <4> QED
        BY <4>1, <4>2, <4>3
    <3> QED
      BY <3>1, <3>2
  <2> HIDE DEF iter
  <2>7. Folding(iter, k, w, g)
    BY <2>6 DEF Folding
  <2> QED
    BY <2>5, <2>7 DEF FoldingPossible
<1>3. 0..n \subseteq S
  <2> HIDE DEF S
  <2> QED
    BY <1>1, <1>2, UpTo
<1> QED
  BY <1>3

-----------------------------------------------------------------------------
(* Sequences *)

LEMMA SequenceOf ==
  ASSUME NEW E, NEW n \in Nat, NEW f \in [1..n -> E]
  PROVE  f \in Seq(E) /\ Len(f) = n /\ DOMAIN f = 1..n
<1>1. f \in Seq(E)
  BY SeqDef
<1>2. DOMAIN f = 1..n /\ Len(f) \in Nat /\ DOMAIN f = 1..Len(f)
  BY <1>1, LenProperties
<1>3. Len(f) = n
  <2>1. Len(f) <= n
    <3>1. CASE Len(f) = 0
      BY <3>1
    <3>2. CASE Len(f) # 0
      <4>1. Len(f) \in 1..n
        BY <1>2, <3>2
      <4> QED
        BY <4>1
    <3> QED
      BY <3>1, <3>2
  <2>2. n <= Len(f)
    <3>1. CASE n = 0
      BY <1>2, <3>1
    <3>2. CASE n # 0
      <4>1. n \in 1..Len(f)
        BY <1>2, <3>2
      <4> QED
        BY <4>1
    <3> QED
      BY <3>1, <3>2
  <2> QED
    BY <1>2, <2>1, <2>2
<1> QED
  BY <1>1, <1>2, <1>3

LEMMA Appended ==
  ASSUME NEW E, NEW s \in Seq(E), NEW x \in E
  PROVE  /\ Append(s, x) \in Seq(E)
         /\ Len(Append(s, x)) = Len(s) + 1 /\ DOMAIN Append(s, x) = 1..(Len(s) + 1)
         /\ \A i \in 1..Len(s) : Append(s, x)[i] = s[i]
         /\ Append(s, x)[Len(s) + 1] = x
         /\ ToSet(Append(s, x)) = ToSet(s) \cup {x}
<1> DEFINE v == Append(s, x)
<1>1. /\ v \in Seq(E) /\ Len(v) = Len(s) + 1 /\ v[Len(s) + 1] = x
      /\ \A i \in 1..Len(s) : v[i] = s[i]
  BY AppendProperties
<1> HIDE DEF v
<1>2. Len(s) \in Nat /\ DOMAIN s = 1..Len(s) /\ DOMAIN v = 1..(Len(s) + 1)
  BY <1>1, LenProperties
<1>3. ToSet(v) \subseteq ToSet(s) \cup {x}
  <2> SUFFICES ASSUME NEW i \in 1..(Len(s) + 1)
               PROVE  v[i] \in ToSet(s) \cup {x}
    BY <1>2 DEF ToSet
  <2>1. i = Len(s) + 1 \/ i \in 1..Len(s)
    BY <1>2
  <2> QED
    BY <1>1, <1>2, <2>1 DEF ToSet
<1>4. ToSet(s) \subseteq ToSet(v)
  <2>1. \A i \in 1..Len(s) : i \in 1..(Len(s) + 1)
    BY <1>2
  <2> QED
    BY <1>1, <1>2, <2>1 DEF ToSet
<1>5. x \in ToSet(v)
  <2>1. Len(s) + 1 \in DOMAIN v
    BY <1>2
  <2> QED
    BY <1>1, <2>1 DEF ToSet
<1> QED
  BY <1>1, <1>2, <1>3, <1>4, <1>5 DEF v

LEMMA Prepended ==
  ASSUME NEW E, NEW s \in Seq(E), NEW x \in E
  PROVE  /\ <<x>> \o s \in Seq(E)
         /\ Len(<<x>> \o s) = Len(s) + 1 /\ DOMAIN (<<x>> \o s) = 1..(Len(s) + 1)
         /\ \A i \in 2..(Len(s) + 1) : (<<x>> \o s)[i] = s[i - 1]
         /\ (<<x>> \o s)[1] = x
         /\ ToSet(<<x>> \o s) = ToSet(s) \cup {x}
<1> DEFINE v == <<x>> \o s
<1>1. <<x>> \in Seq(E) /\ Len(<<x>>) = 1 /\ <<x>>[1] = x
  OBVIOUS
<1>2. Len(s) \in Nat /\ DOMAIN s = 1..Len(s)
  BY LenProperties
<1>3. /\ v \in Seq(E) /\ Len(v) = Len(s) + 1
      /\ \A i \in 1..(Len(s) + 1) : v[i] = IF i <= 1 THEN <<x>>[i] ELSE s[i - 1]
  <2> DEFINE one == <<x>>
  <2>1. one \in Seq(E) /\ Len(one) = 1
    BY <1>1
  <2> HIDE DEF one
  <2>2. /\ one \o s \in Seq(E) /\ Len(one \o s) = Len(one) + Len(s)
        /\ \A i \in 1..(Len(one) + Len(s)) :
             (one \o s)[i] = IF i <= Len(one) THEN one[i] ELSE s[i - Len(one)]
    BY <2>1, ConcatProperties
  <2>3. /\ one \o s \in Seq(E) /\ Len(one \o s) = Len(s) + 1
        /\ \A i \in 1..(Len(s) + 1) : (one \o s)[i] = IF i <= 1 THEN one[i] ELSE s[i - 1]
    BY <1>2, <2>1, <2>2
  <2> QED
    BY <2>3 DEF one
<1> HIDE DEF v
<1>4. DOMAIN v = 1..(Len(s) + 1)
  BY <1>3, LenProperties
<1>5. v[1] = x /\ \A i \in 2..(Len(s) + 1) : v[i] = s[i - 1]
  BY <1>1, <1>2, <1>3
<1>6. ToSet(v) \subseteq ToSet(s) \cup {x}
  <2> SUFFICES ASSUME NEW i \in 1..(Len(s) + 1)
               PROVE  v[i] \in ToSet(s) \cup {x}
    BY <1>4 DEF ToSet
  <2>1. i = 1 \/ (i \in 2..(Len(s) + 1) /\ i - 1 \in 1..Len(s))
    BY <1>2
  <2> QED
    BY <1>2, <1>5, <2>1 DEF ToSet
<1>7. ToSet(s) \subseteq ToSet(v)
  <2> SUFFICES ASSUME NEW i \in 1..Len(s)
               PROVE  s[i] \in ToSet(v)
    BY <1>2 DEF ToSet
  <2>1. i + 1 \in 2..(Len(s) + 1) /\ i + 1 \in 1..(Len(s) + 1) /\ (i + 1) - 1 = i
    BY <1>2
  <2>2. v[i + 1] = s[i]
    BY <1>5, <2>1
  <2> QED
    BY <1>4, <2>1, <2>2 DEF ToSet
<1>8. x \in ToSet(v)
  <2>1. 1 \in DOMAIN v
    BY <1>2, <1>4
  <2> QED
    BY <1>5, <2>1 DEF ToSet
<1> QED
  BY <1>3, <1>4, <1>5, <1>6, <1>7, <1>8 DEF v

LEMMA HeadAndTail ==
  ASSUME NEW E, NEW s \in Seq(E), s # <<>>
  PROVE  /\ Head(s) \in E /\ Head(s) = s[1] /\ Tail(s) \in Seq(E)
         /\ Len(s) \in Nat \ {0} /\ Len(Tail(s)) = Len(s) - 1 /\ DOMAIN Tail(s) = 1..(Len(s) - 1)
         /\ \A i \in 1..(Len(s) - 1) : Tail(s)[i] = s[i + 1]
         /\ ToSet(s) = ToSet(Tail(s)) \cup {Head(s)}
<1> DEFINE t == Tail(s)
<1>1. /\ Head(s) \in E /\ t \in Seq(E) /\ Len(t) = Len(s) - 1
      /\ \A i \in 1..Len(t) : t[i] = s[i + 1]
  BY HeadTailProperties
<1>2. Len(s) \in Nat \ {0} /\ DOMAIN s = 1..Len(s)
  BY EmptySeq, LenProperties
<1>3. Head(s) = s[1]
  OBVIOUS
<1> HIDE DEF t
<1>4. DOMAIN t = 1..(Len(s) - 1)
  BY <1>1, LenProperties
<1>5. ToSet(s) \subseteq ToSet(t) \cup {Head(s)}
  <2> SUFFICES ASSUME NEW i \in 1..Len(s)
               PROVE  s[i] \in ToSet(t) \cup {Head(s)}
    BY <1>2 DEF ToSet
  <2>1. CASE i = 1
    BY <1>3, <2>1
  <2>2. CASE i # 1
    <3>1. i - 1 \in 1..(Len(s) - 1) /\ (i - 1) + 1 = i
      BY <1>2, <2>2
    <3>2. t[i - 1] = s[i]
      BY <1>1, <3>1
    <3> QED
      BY <1>4, <3>1, <3>2 DEF ToSet
  <2> QED
    BY <2>1, <2>2
<1>6. ToSet(t) \subseteq ToSet(s)
  <2> SUFFICES ASSUME NEW i \in 1..(Len(s) - 1)
               PROVE  t[i] \in ToSet(s)
    BY <1>4 DEF ToSet
  <2>1. i + 1 \in 1..Len(s)
    BY <1>2
  <2> QED
    BY <1>1, <1>2, <2>1 DEF ToSet
<1>7. Head(s) \in ToSet(s)
  <2>1. 1 \in DOMAIN s
    BY <1>2
  <2> QED
    BY <1>3, <2>1 DEF ToSet
<1> QED
  BY <1>1, <1>2, <1>3, <1>4, <1>5, <1>6, <1>7 DEF t

LEMMA Removed ==
  ASSUME NEW E, NEW s \in Seq(E), NEW i \in DOMAIN s
  PROVE  /\ RemoveAt(s, i) \in Seq(E)
         /\ Len(RemoveAt(s, i)) = Len(s) - 1 /\ DOMAIN RemoveAt(s, i) = 1..(Len(s) - 1)
         /\ \A j \in 1..(Len(s) - 1) : RemoveAt(s, i)[j] = IF j < i THEN s[j] ELSE s[j + 1]
         /\ ToSet(RemoveAt(s, i)) = {s[j] : j \in DOMAIN s \ {i}}
<1> DEFINE a == SubSeq(s, 1, i - 1)
           b == SubSeq(s, i + 1, Len(s))
           v == RemoveAt(s, i)
<1>1. Len(s) \in Nat /\ DOMAIN s = 1..Len(s) /\ i \in 1..Len(s)
  BY LenProperties
<1>2. a \in Seq(E) /\ Len(a) = i - 1 /\ \A j \in 1..(i - 1) : a[j] = s[j]
  <2>1. 1 \in Int /\ i - 1 \in Int /\ \A j \in 1..(i - 1) : s[j] \in E
    BY <1>1, ElementOfSeq
  <2>2. /\ a \in Seq(E) /\ Len(a) = (IF 1 <= i - 1 THEN (i - 1) - 1 + 1 ELSE 0)
        /\ \A j \in 1..((i - 1) - 1 + 1) : a[j] = s[1 + j - 1]
    BY <2>1, SubSeqProperties
  <2> HIDE DEF a
  <2> QED
    BY <1>1, <2>2
<1>3. b \in Seq(E) /\ Len(b) = Len(s) - i /\ \A j \in 1..(Len(s) - i) : b[j] = s[i + j]
  <2>1. i + 1 \in Int /\ Len(s) \in Int /\ \A j \in (i + 1)..Len(s) : s[j] \in E
    BY <1>1, ElementOfSeq
  <2>2. /\ b \in Seq(E) /\ Len(b) = (IF i + 1 <= Len(s) THEN Len(s) - (i + 1) + 1 ELSE 0)
        /\ \A j \in 1..(Len(s) - (i + 1) + 1) : b[j] = s[(i + 1) + j - 1]
    BY <2>1, SubSeqProperties
  <2> HIDE DEF b
  <2>3. Len(b) = Len(s) - i /\ Len(s) - (i + 1) + 1 = Len(s) - i
    BY <1>1, <2>2
  <2>4. \A j \in 1..(Len(s) - i) : (i + 1) + j - 1 = i + j
    BY <1>1
  <2> QED
    BY <2>2, <2>3, <2>4
<1>4. v = a \o b
  BY DEF RemoveAt
<1> HIDE DEF a, b, v
<1>5. /\ v \in Seq(E) /\ Len(v) = Len(s) - 1
      /\ \A j \in 1..(Len(s) - 1) : v[j] = IF j < i THEN s[j] ELSE s[j + 1]
  <2>1. /\ v \in Seq(E) /\ Len(v) = Len(a) + Len(b)
        /\ \A j \in 1..(Len(a) + Len(b)) : v[j] = IF j <= Len(a) THEN a[j] ELSE b[j - Len(a)]
    BY <1>2, <1>3, <1>4, ConcatProperties
  <2>2. Len(a) + Len(b) = Len(s) - 1
    BY <1>1, <1>2, <1>3
  <2>3. ASSUME NEW j \in 1..(Len(s) - 1)
        PROVE  v[j] = IF j < i THEN s[j] ELSE s[j + 1]
    <3>1. v[j] = IF j <= i - 1 THEN a[j] ELSE b[j - (i - 1)]
      BY <1>2, <2>1, <2>2
    <3>2. CASE j < i
      <4>1. j \in 1..(i - 1) /\ j <= i - 1
        BY <1>1, <3>2
      <4> QED
        BY <1>2, <3>1, <3>2, <4>1
    <3>3. CASE ~(j < i)
      <4>1. j - (i - 1) \in 1..(Len(s) - i) /\ ~(j <= i - 1) /\ i + (j - (i - 1)) = j + 1
        BY <1>1, <3>3
      <4> QED
        BY <1>3, <3>1, <3>3, <4>1
    <3> QED
      BY <3>2, <3>3
  <2> QED
    BY <2>1, <2>2, <2>3
<1>6. DOMAIN v = 1..(Len(s) - 1)
  BY <1>5, LenProperties
<1>7. ToSet(v) \subseteq {s[j] : j \in DOMAIN s \ {i}}
  <2> SUFFICES ASSUME NEW j \in 1..(Len(s) - 1)
               PROVE  \E k \in DOMAIN s \ {i} : v[j] = s[k]
    BY <1>6 DEF ToSet
  <2>1. CASE j < i
    BY <1>1, <1>5, <2>1
  <2>2. CASE ~(j < i)
    <3>1. j + 1 \in DOMAIN s \ {i} /\ v[j] = s[j + 1]
      BY <1>1, <1>5, <2>2
    <3> QED
      BY <3>1
  <2> QED
    BY <2>1, <2>2
<1>8. {s[j] : j \in DOMAIN s \ {i}} \subseteq ToSet(v)
  <2> SUFFICES ASSUME NEW j \in DOMAIN s \ {i}
               PROVE  \E k \in DOMAIN v : v[k] = s[j]
    BY DEF ToSet
  <2>1. CASE j < i
    BY <1>1, <1>5, <1>6, <2>1
  <2>2. CASE ~(j < i)
    <3>1. j - 1 \in DOMAIN v /\ ~(j - 1 < i) /\ (j - 1) + 1 = j
      BY <1>1, <1>6, <2>2
    <3>2. v[j - 1] = s[j]
      BY <1>5, <1>6, <3>1
    <3> QED
      BY <3>1, <3>2
  <2> QED
    BY <2>1, <2>2
<1> QED
  BY <1>5, <1>6, <1>7, <1>8 DEF v

\* v is what is left of s at the places T when only what is in S is kept.
IsOnly(v, s, S, T) ==
  \E f \in [1..Len(v) -> T] :
    /\ \A i, j \in 1..Len(v) : i < j => f[i] < f[j]
    /\ \A i \in 1..Len(v) : v[i] = s[f[i]] /\ v[i] \in S
    /\ \A k \in T : s[k] \in S => \E i \in 1..Len(v) : f[i] = k

LEMMA OneMore ==
  ASSUME NEW E, NEW s \in Seq(E), NEW S, NEW T \in SUBSET (1..Len(s)), T # {},
         NEW v \in Seq(E), IsOnly(v, s, S, T \ {Max(T)})
  PROVE  LET x == s[Max(T)] IN
         /\ x \in S => Append(v, x) \in Seq(E) /\ IsOnly(Append(v, x), s, S, T)
         /\ x \notin S => IsOnly(v, s, S, T)
<1> DEFINE m == Max(T)
           n == Len(v)
<1>1. Len(s) \in Nat /\ n \in Nat /\ m \in T /\ (\A k \in T : k <= m) /\ m \in 1..Len(s)
  BY Greatest, LenProperties
<1> HIDE DEF m
<1>2. PICK f \in [1..n -> T \ {m}] :
        /\ \A i, j \in 1..n : i < j => f[i] < f[j]
        /\ \A i \in 1..n : v[i] = s[f[i]] /\ v[i] \in S
        /\ \A k \in T \ {m} : s[k] \in S => \E i \in 1..n : f[i] = k
  BY DEF IsOnly, m
<1>3. ASSUME s[m] \notin S
      PROVE  IsOnly(v, s, S, T)
  <2>1. f \in [1..n -> T]
    BY <1>2
  <2>2. \A k \in T : s[k] \in S => k \in T \ {m}
    BY <1>3
  <2>3. \A k \in T : s[k] \in S => \E i \in 1..n : f[i] = k
    BY <1>2, <2>2
  <2> QED
    BY <1>2, <2>1, <2>3, Zenon DEF IsOnly
<1>4. ASSUME s[m] \in S
      PROVE  Append(v, s[m]) \in Seq(E) /\ IsOnly(Append(v, s[m]), s, S, T)
  <2> DEFINE u == Append(v, s[m])
             h == [i \in 1..(n + 1) |-> IF i = n + 1 THEN m ELSE f[i]]
  <2>1. s[m] \in E
    BY <1>1, ElementOfSeq
  <2>2. u \in Seq(E) /\ Len(u) = n + 1 /\ (\A i \in 1..n : u[i] = v[i]) /\ u[n + 1] = s[m]
    BY <2>1, AppendProperties
  <2> HIDE DEF u
  <2>3. \A i \in 1..(n + 1) : i # n + 1 => i \in 1..n
    BY <1>1
  <2>4. h \in [1..(n + 1) -> T]
    BY <1>1, <1>2, <2>3
  <2>5. h[n + 1] = m /\ \A i \in 1..n : h[i] = f[i]
    BY <1>1
  <2> HIDE DEF h
  <2>6. ASSUME NEW i \in 1..(n + 1), NEW j \in 1..(n + 1), i < j
        PROVE  h[i] < h[j]
    <3>1. i \in 1..n
      BY <1>1, <2>6
    <3>2. CASE j = n + 1
      <4>1. f[i] \in T \ {m}
        BY <1>2, <3>1
      <4>2. f[i] \in 1..Len(s) /\ f[i] <= m /\ f[i] # m
        BY <1>1, <4>1
      <4> QED
        BY <1>1, <2>5, <3>1, <3>2, <4>2
    <3>3. CASE j # n + 1
      BY <1>2, <2>3, <2>5, <2>6, <3>1, <3>3
    <3> QED
      BY <3>2, <3>3
  <2>7. \A i \in 1..(n + 1) : u[i] = s[h[i]] /\ u[i] \in S
    BY <1>2, <1>4, <2>2, <2>3, <2>5
  <2>8. \A k \in T : s[k] \in S => \E i \in 1..(n + 1) : h[i] = k
    <3>1. n + 1 \in 1..(n + 1) /\ \A i \in 1..n : i \in 1..(n + 1)
      BY <1>1
    <3> QED
      BY <1>2, <2>5, <3>1
  <2>9. IsOnly(u, s, S, T)
    <3>1. n + 1 = Len(u)
      BY <2>2
    <3>2. h \in [1..Len(u) -> T]
      BY <2>4, <3>1, Zenon
    <3>3. \A i, j \in 1..Len(u) : i < j => h[i] < h[j]
      BY <2>6, <3>1, Zenon
    <3>4. \A i \in 1..Len(u) : u[i] = s[h[i]] /\ u[i] \in S
      BY <2>7, <3>1, Zenon
    <3>5. \A k \in T : s[k] \in S => \E i \in 1..Len(u) : h[i] = k
      BY <2>8, <3>1, Zenon
    <3> QED
      BY <3>2, <3>3, <3>4, <3>5, Zenon DEF IsOnly
  <2> QED
    BY <2>2, <2>9 DEF u
<1> QED
  BY <1>3, <1>4 DEF m

LEMMA OnlyKeeps ==
  ASSUME NEW E, NEW s \in Seq(E), NEW S
  PROVE  Only(s, S) \in Seq(E) /\ IsOnly(Only(s, S), s, S, 1..Len(s))
<1> DEFINE n == Len(s)
           op(v, x) == IF x \in S THEN Append(v, x) ELSE v
           g == [x \in Seq(E) \X (1..n) |-> op(x[1], s[x[2]])]
           body(iter) == [T \in SUBSET (1..n) |->
                           IF T = {} THEN <<>> ELSE op(iter[T \ {Max(T)}], s[Max(T)])]
           ch == CHOOSE iter : iter = body(iter)
<1>1. n \in Nat /\ DOMAIN s = 1..n /\ \A i \in 1..n : s[i] \in E
  BY LenProperties, ElementOfSeq
<1>2. g \in [Seq(E) \X (1..n) -> Seq(E)]
  <2> SUFFICES ASSUME NEW v \in Seq(E), NEW i \in 1..n
               PROVE  op(v, s[i]) \in Seq(E)
    BY Zenon
  <2> QED
    BY <1>1, AppendProperties
<1>3. <<>> \in Seq(E)
  BY EmptySeq
<1>4. PICK it \in [SUBSET (1..n) -> Seq(E)] : Folding(it, n, <<>>, g)
  <2> HIDE DEF g, n
  <2> QED
    BY <1>1, <1>2, <1>3, FoldingExists DEF FoldingPossible
<1>5. it = body(it)
  <2> SUFFICES ASSUME NEW T \in SUBSET (1..n)
               PROVE  it[T] = body(it)[T]
    BY Zenon
  <2>1. CASE T = {}
    BY <1>4, <2>1 DEF Folding
  <2>2. CASE T # {}
    <3>1. Max(T) \in 1..n /\ T \ {Max(T)} \in SUBSET (1..n)
      BY <1>1, <2>2, Greatest
    <3>2. <<it[T \ {Max(T)}], Max(T)>> \in Seq(E) \X (1..n)
      BY <3>1
    <3>3. it[T] = g[<<it[T \ {Max(T)}], Max(T)>>]
      BY <1>4, <2>2 DEF Folding
    <3> QED
      BY <2>2, <3>2, <3>3
  <2> QED
    BY <2>1, <2>2
<1>6. ch = body(ch)
  <2> HIDE DEF body
  <2> QED
    BY <1>5, Zenon
<1>7. Only(s, S) = ch[1..n]
  BY <1>1, Zenon DEF Only, FoldLeft, MapThenFoldSet
<1> HIDE DEF ch
<1> DEFINE Places == {T \in SUBSET (1..n) : ch[T] \in Seq(E) /\ IsOnly(ch[T], s, S, T)}
<1>8. {} \in Places
  <2>1. {} \in SUBSET (1..n) /\ ch[{}] = <<>>
    BY <1>6
  <2>2. IsOnly(<<>>, s, S, {})
    <3>1. 1..Len(<<>>) = {}
      BY EmptySeq
    <3>2. [i \in {} |-> i] \in [1..Len(<<>>) -> {}]
      BY <3>1
    <3> QED
      BY <3>1, <3>2 DEF IsOnly
  <2> QED
    BY <1>3, <2>1, <2>2
<1>9. ASSUME NEW T \in SUBSET (1..n), T # {}, T \ {Max(T)} \in Places
      PROVE  T \in Places
  <2>1. ch[T] = op(ch[T \ {Max(T)}], s[Max(T)])
    BY <1>6, <1>9
  <2>2. ch[T \ {Max(T)}] \in Seq(E) /\ IsOnly(ch[T \ {Max(T)}], s, S, T \ {Max(T)})
    BY <1>9
  <2> HIDE DEF Places
  <2> DEFINE v == ch[T \ {Max(T)}]
             x == s[Max(T)]
  <2>3. /\ x \in S => Append(v, x) \in Seq(E) /\ IsOnly(Append(v, x), s, S, T)
        /\ x \notin S => IsOnly(v, s, S, T)
    BY <1>9, <2>2, OneMore
  <2>4. v \in Seq(E) /\ ch[T] = op(v, x)
    BY <2>1, <2>2
  <2> HIDE DEF v, x
  <2>5. ch[T] \in Seq(E) /\ IsOnly(ch[T], s, S, T)
    BY <2>3, <2>4
  <2> QED
    BY <2>5 DEF Places
<1>10. SUBSET (1..n) \subseteq Places
  <2> HIDE DEF Places, n
  <2> QED
    BY <1>1, <1>8, <1>9, PlaceByPlace
<1>11. 1..n \in SUBSET (1..n)
  OBVIOUS
<1> QED
  BY <1>7, <1>10, <1>11

\* Only what is in S is left, nothing of that is lost, and what came first comes first.
LEMMA OnlyElements ==
  ASSUME NEW E, NEW s \in Seq(E), NEW S
  PROVE  /\ Only(s, S) \in Seq(E)
         /\ ToSet(Only(s, S)) = ToSet(s) \cap S
<1> DEFINE v == Only(s, S)
<1>1. v \in Seq(E) /\ IsOnly(v, s, S, 1..Len(s))
  BY OnlyKeeps
<1> HIDE DEF v
<1>2. DOMAIN v = 1..Len(v) /\ DOMAIN s = 1..Len(s)
  BY <1>1, LenProperties
<1>3. PICK f \in [1..Len(v) -> 1..Len(s)] :
        /\ \A i \in 1..Len(v) : v[i] = s[f[i]] /\ v[i] \in S
        /\ \A k \in 1..Len(s) : s[k] \in S => \E i \in 1..Len(v) : f[i] = k
  BY <1>1 DEF IsOnly
<1>4. ToSet(v) \subseteq ToSet(s) \cap S
  BY <1>2, <1>3 DEF ToSet
<1>5. ASSUME NEW x \in ToSet(s), x \in S
      PROVE  x \in ToSet(v)
  <2>1. PICK k \in 1..Len(s) : s[k] = x
    BY <1>2 DEF ToSet
  <2>2. PICK i \in 1..Len(v) : f[i] = k
    BY <1>3, <1>5, <2>1
  <2> QED
    BY <1>2, <1>3, <2>1, <2>2 DEF ToSet
<1> QED
  BY <1>1, <1>4, <1>5 DEF v

-----------------------------------------------------------------------------
(* FoldLeft by its steps *)

\* result is what the steps of g, n of them, make of w.
Folds(result, n, W, w, g) ==
  \E iter \in [SUBSET (1..n) -> W] : Folding(iter, n, w, g) /\ result = iter[1..n]

\* When the k-th step leads from V[k - 1] to V[k], all of them lead to V[n].
LEMMA FoldReaches ==
  ASSUME NEW n \in Nat, NEW W, NEW w \in W, NEW g \in [W \X (1..n) -> W],
         NEW result, Folds(result, n, W, w, g),
         NEW V \in [0..n -> SUBSET W], w \in V[0],
         \A k \in 1..n : \A v \in V[k - 1] : g[<<v, k>>] \in V[k]
  PROVE  result \in V[n]
<1>1. PICK iter \in [SUBSET (1..n) -> W] : Folding(iter, n, w, g) /\ result = iter[1..n]
  BY DEF Folds
<1> DEFINE S == {k \in 0..n : iter[1..k] \in V[k]}
<1>2. 0 \in S
  <2>1. 1..0 = {}
    OBVIOUS
  <2>2. {} \in SUBSET (1..n) /\ 0 \in 0..n
    OBVIOUS
  <2>3. iter[{}] = w
    BY <1>1, <2>2, Zenon DEF Folding
  <2> QED
    BY <2>1, <2>2, <2>3
<1>3. ASSUME NEW k \in 1..n, k - 1 \in S
      PROVE  k \in S
  <2>1. 1..k \in SUBSET (1..n) /\ k \in 1..k /\ 1..k # {} /\ k \in 0..n
    <3> HIDE DEF S
    <3>1. k \in 1..k /\ k \in 0..n
      OBVIOUS
    <3>2. \A x \in 1..k : x \in 1..n
      OBVIOUS
    <3> QED
      BY <3>1, <3>2
  <2>2. Max(1..k) = k
    <3>1. Max(1..k) \in 1..k /\ \A x \in 1..k : x <= Max(1..k)
      BY <2>1, Greatest
    <3> HIDE DEF S
    <3>2. k <= Max(1..k) /\ Max(1..k) <= k
      BY <2>1, <3>1
    <3> QED
      BY <3>1, <3>2
  <2>3. (1..k) \ {k} = 1..(k - 1)
    <3> HIDE DEF S
    <3> QED
      OBVIOUS
  <2>4. iter[1..k] = g[<<iter[(1..k) \ {Max(1..k)}], Max(1..k)>>]
    BY <1>1, <2>1, Zenon DEF Folding
  <2>5. iter[1..k] = g[<<iter[1..(k - 1)], k>>]
    BY <2>2, <2>3, <2>4
  <2>6. iter[1..(k - 1)] \in V[k - 1]
    BY <1>3
  <2>7. iter[1..k] \in V[k]
    BY <2>5, <2>6
  <2> QED
    BY <2>1, <2>7
<1>4. 0..n \subseteq S
  <2> HIDE DEF S
  <2> QED
    BY <1>2, <1>3, UpTo
<1> QED
  BY <1>1, <1>4

\* What the steps keep is so in the end.
LEMMA FoldStays ==
  ASSUME NEW n \in Nat, NEW W, NEW w, NEW g, NEW result, Folds(result, n, W, w, g)
  PROVE  result \in W
<1>1. PICK iter \in [SUBSET (1..n) -> W] : result = iter[1..n]
  BY DEF Folds
<1> QED
  BY <1>1

\* onSingleScpiQueryDone ends the tasks that are complete.
allFinished(w, c, s) ==
  FoldLeft(LAMBDA v, t : handleCmdFinish(v, c, t.id, contents(t)), w, s)
LEMMA FinishFold ==
  ASSUME NEW E, NEW s \in Seq(E), NEW c, NEW W, NEW w \in W,
         \A v \in W : \A x \in ToSet(s) : handleCmdFinish(v, c, x.id, contents(x)) \in W
  PROVE  \E g \in [W \X (1..Len(s)) -> W] :
           /\ \A v \in W : \A k \in 1..Len(s) : g[<<v, k>>] = handleCmdFinish(v, c, s[k].id, contents(s[k]))
           /\ Folds(allFinished(w, c, s), Len(s), W, w, g)
<1> DEFINE n == Len(s)
           op(v, x) == handleCmdFinish(v, c, x.id, contents(x))
           g == [x \in W \X (1..n) |-> op(x[1], s[x[2]])]
           body(iter) == [T \in SUBSET (1..n) |->
                           IF T = {} THEN w ELSE op(iter[T \ {Max(T)}], s[Max(T)])]
           ch == CHOOSE iter : iter = body(iter)
<1>1. n \in Nat /\ DOMAIN s = 1..n /\ \A i \in 1..n : s[i] \in ToSet(s)
  BY LenProperties DEF ToSet
<1>2. allFinished(w, c, s) = ch[1..n]
  BY <1>1, Zenon DEF allFinished, FoldLeft, MapThenFoldSet
<1>3. \A v \in W : \A i \in 1..n : op(v, s[i]) \in W
  BY <1>1
<1> HIDE DEF op
<1>4. g \in [W \X (1..n) -> W] /\ \A v \in W : \A i \in 1..n : g[<<v, i>>] = op(v, s[i])
  BY <1>3
<1> HIDE DEF g, n
<1>5. PICK it \in [SUBSET (1..n) -> W] : Folding(it, n, w, g)
  BY <1>1, <1>4, FoldingExists DEF FoldingPossible
<1>6. it = body(it)
  <2> SUFFICES ASSUME NEW T \in SUBSET (1..n)
               PROVE  it[T] = body(it)[T]
    BY Zenon
  <2>1. CASE T = {}
    BY <1>5, <2>1 DEF Folding
  <2>2. CASE T # {}
    <3>1. Max(T) \in 1..n /\ T \ {Max(T)} \in SUBSET (1..n)
      BY <1>1, <2>2, Greatest
    <3>2. it[T] = g[<<it[T \ {Max(T)}], Max(T)>>]
      BY <1>5, <2>2 DEF Folding
    <3> QED
      BY <1>4, <2>2, <3>1, <3>2
  <2> QED
    BY <2>1, <2>2
<1>7. ch = body(ch)
  <2> HIDE DEF body
  <2> QED
    BY <1>6, Zenon
<1> HIDE DEF ch
<1> DEFINE Places == {T \in SUBSET (1..n) : ch[T] = it[T]}
<1>8. {} \in Places
  BY <1>6, <1>7
<1>9. ASSUME NEW T \in SUBSET (1..n), T # {}, T \ {Max(T)} \in Places
      PROVE  T \in Places
  <2>1. ch[T] = op(ch[T \ {Max(T)}], s[Max(T)])
    BY <1>7, <1>9
  <2>2. it[T] = op(it[T \ {Max(T)}], s[Max(T)])
    BY <1>6, <1>9
  <2> QED
    BY <1>9, <2>1, <2>2
<1>10. SUBSET (1..n) \subseteq Places
  <2> HIDE DEF Places
  <2> QED
    BY <1>1, <1>8, <1>9, PlaceByPlace
<1>11. ch[1..n] = it[1..n]
  BY <1>10
<1>12. Folds(ch[1..n], n, W, w, g)
  BY <1>5, <1>11 DEF Folds
<1>13. Folds(allFinished(w, c, s), n, W, w, g)
  BY <1>2, <1>12
<1> QED
  BY <1>4, <1>13 DEF n, op

\* A measuring query starts the machines of its components.
allStarted(w, c, s, model) ==
  FoldLeft(LAMBDA v, comp : startSequence(v, c, comp, model), w, s)
LEMMA StartFold ==
  ASSUME NEW E, NEW s \in Seq(E), NEW c, NEW model, NEW W, NEW w \in W,
         \A v \in W : \A x \in ToSet(s) : startSequence(v, c, x, model) \in W
  PROVE  \E g \in [W \X (1..Len(s)) -> W] :
           /\ \A v \in W : \A k \in 1..Len(s) : g[<<v, k>>] = startSequence(v, c, s[k], model)
           /\ Folds(allStarted(w, c, s, model), Len(s), W, w, g)
<1> DEFINE n == Len(s)
           op(v, x) == startSequence(v, c, x, model)
           g == [x \in W \X (1..n) |-> op(x[1], s[x[2]])]
           body(iter) == [T \in SUBSET (1..n) |->
                           IF T = {} THEN w ELSE op(iter[T \ {Max(T)}], s[Max(T)])]
           ch == CHOOSE iter : iter = body(iter)
<1>1. n \in Nat /\ DOMAIN s = 1..n /\ \A i \in 1..n : s[i] \in ToSet(s)
  BY LenProperties DEF ToSet
<1>2. allStarted(w, c, s, model) = ch[1..n]
  BY <1>1, Zenon DEF allStarted, FoldLeft, MapThenFoldSet
<1>3. \A v \in W : \A i \in 1..n : op(v, s[i]) \in W
  BY <1>1
<1> HIDE DEF op
<1>4. g \in [W \X (1..n) -> W] /\ \A v \in W : \A i \in 1..n : g[<<v, i>>] = op(v, s[i])
  BY <1>3
<1> HIDE DEF g, n
<1>5. PICK it \in [SUBSET (1..n) -> W] : Folding(it, n, w, g)
  BY <1>1, <1>4, FoldingExists DEF FoldingPossible
<1>6. it = body(it)
  <2> SUFFICES ASSUME NEW T \in SUBSET (1..n)
               PROVE  it[T] = body(it)[T]
    BY Zenon
  <2>1. CASE T = {}
    BY <1>5, <2>1 DEF Folding
  <2>2. CASE T # {}
    <3>1. Max(T) \in 1..n /\ T \ {Max(T)} \in SUBSET (1..n)
      BY <1>1, <2>2, Greatest
    <3>2. it[T] = g[<<it[T \ {Max(T)}], Max(T)>>]
      BY <1>5, <2>2 DEF Folding
    <3> QED
      BY <1>4, <2>2, <3>1, <3>2
  <2> QED
    BY <2>1, <2>2
<1>7. ch = body(ch)
  <2> HIDE DEF body
  <2> QED
    BY <1>6, Zenon
<1> HIDE DEF ch
<1> DEFINE Places == {T \in SUBSET (1..n) : ch[T] = it[T]}
<1>8. {} \in Places
  BY <1>6, <1>7
<1>9. ASSUME NEW T \in SUBSET (1..n), T # {}, T \ {Max(T)} \in Places
      PROVE  T \in Places
  <2>1. ch[T] = op(ch[T \ {Max(T)}], s[Max(T)])
    BY <1>7, <1>9
  <2>2. it[T] = op(it[T \ {Max(T)}], s[Max(T)])
    BY <1>6, <1>9
  <2> QED
    BY <1>9, <2>1, <2>2
<1>10. SUBSET (1..n) \subseteq Places
  <2> HIDE DEF Places
  <2> QED
    BY <1>1, <1>8, <1>9, PlaceByPlace
<1>11. ch[1..n] = it[1..n]
  BY <1>10
<1>12. Folds(ch[1..n], n, W, w, g)
  BY <1>5, <1>11 DEF Folds
<1>13. Folds(allStarted(w, c, s, model), n, W, w, g)
  BY <1>2, <1>12
<1> QED
  BY <1>4, <1>13 DEF n, op

\* A value is received by the machines that wait for it.
allDone(w, c, s, comp) ==
  FoldLeft(LAMBDA v, machine : onSingleScpiQueryDone(v, c, comp, machine[2]), w, s)
LEMMA DoneFold ==
  ASSUME NEW E, NEW s \in Seq(E), NEW c, NEW comp, NEW W, NEW w \in W,
         \A v \in W : \A x \in ToSet(s) : onSingleScpiQueryDone(v, c, comp, x[2]) \in W
  PROVE  \E g \in [W \X (1..Len(s)) -> W] :
           /\ \A v \in W : \A k \in 1..Len(s) : g[<<v, k>>] = onSingleScpiQueryDone(v, c, comp, s[k][2])
           /\ Folds(allDone(w, c, s, comp), Len(s), W, w, g)
<1> DEFINE n == Len(s)
           op(v, x) == onSingleScpiQueryDone(v, c, comp, x[2])
           g == [x \in W \X (1..n) |-> op(x[1], s[x[2]])]
           body(iter) == [T \in SUBSET (1..n) |->
                           IF T = {} THEN w ELSE op(iter[T \ {Max(T)}], s[Max(T)])]
           ch == CHOOSE iter : iter = body(iter)
<1>1. n \in Nat /\ DOMAIN s = 1..n /\ \A i \in 1..n : s[i] \in ToSet(s)
  BY LenProperties DEF ToSet
<1>2. allDone(w, c, s, comp) = ch[1..n]
  BY <1>1, Zenon DEF allDone, FoldLeft, MapThenFoldSet
<1>3. \A v \in W : \A i \in 1..n : op(v, s[i]) \in W
  BY <1>1
<1> HIDE DEF op
<1>4. g \in [W \X (1..n) -> W] /\ \A v \in W : \A i \in 1..n : g[<<v, i>>] = op(v, s[i])
  BY <1>3
<1> HIDE DEF g, n
<1>5. PICK it \in [SUBSET (1..n) -> W] : Folding(it, n, w, g)
  BY <1>1, <1>4, FoldingExists DEF FoldingPossible
<1>6. it = body(it)
  <2> SUFFICES ASSUME NEW T \in SUBSET (1..n)
               PROVE  it[T] = body(it)[T]
    BY Zenon
  <2>1. CASE T = {}
    BY <1>5, <2>1 DEF Folding
  <2>2. CASE T # {}
    <3>1. Max(T) \in 1..n /\ T \ {Max(T)} \in SUBSET (1..n)
      BY <1>1, <2>2, Greatest
    <3>2. it[T] = g[<<it[T \ {Max(T)}], Max(T)>>]
      BY <1>5, <2>2 DEF Folding
    <3> QED
      BY <1>4, <2>2, <3>1, <3>2
  <2> QED
    BY <2>1, <2>2
<1>7. ch = body(ch)
  <2> HIDE DEF body
  <2> QED
    BY <1>6, Zenon
<1> HIDE DEF ch
<1> DEFINE Places == {T \in SUBSET (1..n) : ch[T] = it[T]}
<1>8. {} \in Places
  BY <1>6, <1>7
<1>9. ASSUME NEW T \in SUBSET (1..n), T # {}, T \ {Max(T)} \in Places
      PROVE  T \in Places
  <2>1. ch[T] = op(ch[T \ {Max(T)}], s[Max(T)])
    BY <1>7, <1>9
  <2>2. it[T] = op(it[T \ {Max(T)}], s[Max(T)])
    BY <1>6, <1>9
  <2> QED
    BY <1>9, <2>1, <2>2
<1>10. SUBSET (1..n) \subseteq Places
  <2> HIDE DEF Places
  <2> QED
    BY <1>1, <1>8, <1>9, PlaceByPlace
<1>11. ch[1..n] = it[1..n]
  BY <1>10
<1>12. Folds(ch[1..n], n, W, w, g)
  BY <1>5, <1>11 DEF Folds
<1>13. Folds(allDone(w, c, s, comp), n, W, w, g)
  BY <1>2, <1>12
<1> QED
  BY <1>4, <1>13 DEF n, op

\* What is left of a line is executed ...
allExecuted(w, c, s) ==
  FoldLeft(LAMBDA v, cmd : executeCmd(v, c, cmd), w, s)
LEMMA CommandFold ==
  ASSUME NEW E, NEW s \in Seq(E), NEW c, NEW W, NEW w \in W,
         \A v \in W : \A x \in ToSet(s) : executeCmd(v, c, x) \in W
  PROVE  \E g \in [W \X (1..Len(s)) -> W] :
           /\ \A v \in W : \A k \in 1..Len(s) : g[<<v, k>>] = executeCmd(v, c, s[k])
           /\ Folds(allExecuted(w, c, s), Len(s), W, w, g)
<1> DEFINE n == Len(s)
           op(v, x) == executeCmd(v, c, x)
           g == [x \in W \X (1..n) |-> op(x[1], s[x[2]])]
           body(iter) == [T \in SUBSET (1..n) |->
                           IF T = {} THEN w ELSE op(iter[T \ {Max(T)}], s[Max(T)])]
           ch == CHOOSE iter : iter = body(iter)
<1>1. n \in Nat /\ DOMAIN s = 1..n /\ \A i \in 1..n : s[i] \in ToSet(s)
  BY LenProperties DEF ToSet
<1>2. allExecuted(w, c, s) = ch[1..n]
  BY <1>1, Zenon DEF allExecuted, FoldLeft, MapThenFoldSet
<1>3. \A v \in W : \A i \in 1..n : op(v, s[i]) \in W
  BY <1>1
<1> HIDE DEF op
<1>4. g \in [W \X (1..n) -> W] /\ \A v \in W : \A i \in 1..n : g[<<v, i>>] = op(v, s[i])
  BY <1>3
<1> HIDE DEF g, n
<1>5. PICK it \in [SUBSET (1..n) -> W] : Folding(it, n, w, g)
  BY <1>1, <1>4, FoldingExists DEF FoldingPossible
<1>6. it = body(it)
  <2> SUFFICES ASSUME NEW T \in SUBSET (1..n)
               PROVE  it[T] = body(it)[T]
    BY Zenon
  <2>1. CASE T = {}
    BY <1>5, <2>1 DEF Folding
  <2>2. CASE T # {}
    <3>1. Max(T) \in 1..n /\ T \ {Max(T)} \in SUBSET (1..n)
      BY <1>1, <2>2, Greatest
    <3>2. it[T] = g[<<it[T \ {Max(T)}], Max(T)>>]
      BY <1>5, <2>2 DEF Folding
    <3> QED
      BY <1>4, <2>2, <3>1, <3>2
  <2> QED
    BY <2>1, <2>2
<1>7. ch = body(ch)
  <2> HIDE DEF body
  <2> QED
    BY <1>6, Zenon
<1> HIDE DEF ch
<1> DEFINE Places == {T \in SUBSET (1..n) : ch[T] = it[T]}
<1>8. {} \in Places
  BY <1>6, <1>7
<1>9. ASSUME NEW T \in SUBSET (1..n), T # {}, T \ {Max(T)} \in Places
      PROVE  T \in Places
  <2>1. ch[T] = op(ch[T \ {Max(T)}], s[Max(T)])
    BY <1>7, <1>9
  <2>2. it[T] = op(it[T \ {Max(T)}], s[Max(T)])
    BY <1>6, <1>9
  <2> QED
    BY <1>9, <2>1, <2>2
<1>10. SUBSET (1..n) \subseteq Places
  <2> HIDE DEF Places
  <2> QED
    BY <1>1, <1>8, <1>9, PlaceByPlace
<1>11. ch[1..n] = it[1..n]
  BY <1>10
<1>12. Folds(ch[1..n], n, W, w, g)
  BY <1>5, <1>11 DEF Folds
<1>13. Folds(allExecuted(w, c, s), n, W, w, g)
  BY <1>2, <1>12
<1> QED
  BY <1>4, <1>13 DEF n, op

\* ... or kept from the first command on that leaves something pending.
allExecutedNext(w, c, s) ==
  FoldLeft(LAMBDA v, cmd : executeNext(v, c, cmd), w, s)
LEMMA NextFold ==
  ASSUME NEW E, NEW s \in Seq(E), NEW c, NEW W, NEW w \in W,
         \A v \in W : \A x \in ToSet(s) : executeNext(v, c, x) \in W
  PROVE  \E g \in [W \X (1..Len(s)) -> W] :
           /\ \A v \in W : \A k \in 1..Len(s) : g[<<v, k>>] = executeNext(v, c, s[k])
           /\ Folds(allExecutedNext(w, c, s), Len(s), W, w, g)
<1> DEFINE n == Len(s)
           op(v, x) == executeNext(v, c, x)
           g == [x \in W \X (1..n) |-> op(x[1], s[x[2]])]
           body(iter) == [T \in SUBSET (1..n) |->
                           IF T = {} THEN w ELSE op(iter[T \ {Max(T)}], s[Max(T)])]
           ch == CHOOSE iter : iter = body(iter)
<1>1. n \in Nat /\ DOMAIN s = 1..n /\ \A i \in 1..n : s[i] \in ToSet(s)
  BY LenProperties DEF ToSet
<1>2. allExecutedNext(w, c, s) = ch[1..n]
  BY <1>1, Zenon DEF allExecutedNext, FoldLeft, MapThenFoldSet
<1>3. \A v \in W : \A i \in 1..n : op(v, s[i]) \in W
  BY <1>1
<1> HIDE DEF op
<1>4. g \in [W \X (1..n) -> W] /\ \A v \in W : \A i \in 1..n : g[<<v, i>>] = op(v, s[i])
  BY <1>3
<1> HIDE DEF g, n
<1>5. PICK it \in [SUBSET (1..n) -> W] : Folding(it, n, w, g)
  BY <1>1, <1>4, FoldingExists DEF FoldingPossible
<1>6. it = body(it)
  <2> SUFFICES ASSUME NEW T \in SUBSET (1..n)
               PROVE  it[T] = body(it)[T]
    BY Zenon
  <2>1. CASE T = {}
    BY <1>5, <2>1 DEF Folding
  <2>2. CASE T # {}
    <3>1. Max(T) \in 1..n /\ T \ {Max(T)} \in SUBSET (1..n)
      BY <1>1, <2>2, Greatest
    <3>2. it[T] = g[<<it[T \ {Max(T)}], Max(T)>>]
      BY <1>5, <2>2 DEF Folding
    <3> QED
      BY <1>4, <2>2, <3>1, <3>2
  <2> QED
    BY <2>1, <2>2
<1>7. ch = body(ch)
  <2> HIDE DEF body
  <2> QED
    BY <1>6, Zenon
<1> HIDE DEF ch
<1> DEFINE Places == {T \in SUBSET (1..n) : ch[T] = it[T]}
<1>8. {} \in Places
  BY <1>6, <1>7
<1>9. ASSUME NEW T \in SUBSET (1..n), T # {}, T \ {Max(T)} \in Places
      PROVE  T \in Places
  <2>1. ch[T] = op(ch[T \ {Max(T)}], s[Max(T)])
    BY <1>7, <1>9
  <2>2. it[T] = op(it[T \ {Max(T)}], s[Max(T)])
    BY <1>6, <1>9
  <2> QED
    BY <1>9, <2>1, <2>2
<1>10. SUBSET (1..n) \subseteq Places
  <2> HIDE DEF Places
  <2> QED
    BY <1>1, <1>8, <1>9, PlaceByPlace
<1>11. ch[1..n] = it[1..n]
  BY <1>10
<1>12. Folds(ch[1..n], n, W, w, g)
  BY <1>5, <1>11 DEF Folds
<1>13. Folds(allExecutedNext(w, c, s), n, W, w, g)
  BY <1>2, <1>12
<1> QED
  BY <1>4, <1>13 DEF n, op

\* A value goes to all clients.
allReceived(w, s, comp) ==
  FoldLeft(LAMBDA v, c : receiveMeasureValue(v, c, comp), w, s)
LEMMA ValueFold ==
  ASSUME NEW E, NEW s \in Seq(E), NEW comp, NEW W, NEW w \in W,
         \A v \in W : \A x \in ToSet(s) : receiveMeasureValue(v, x, comp) \in W
  PROVE  \E g \in [W \X (1..Len(s)) -> W] :
           /\ \A v \in W : \A k \in 1..Len(s) : g[<<v, k>>] = receiveMeasureValue(v, s[k], comp)
           /\ Folds(allReceived(w, s, comp), Len(s), W, w, g)
<1> DEFINE n == Len(s)
           op(v, x) == receiveMeasureValue(v, x, comp)
           g == [x \in W \X (1..n) |-> op(x[1], s[x[2]])]
           body(iter) == [T \in SUBSET (1..n) |->
                           IF T = {} THEN w ELSE op(iter[T \ {Max(T)}], s[Max(T)])]
           ch == CHOOSE iter : iter = body(iter)
<1>1. n \in Nat /\ DOMAIN s = 1..n /\ \A i \in 1..n : s[i] \in ToSet(s)
  BY LenProperties DEF ToSet
<1>2. allReceived(w, s, comp) = ch[1..n]
  BY <1>1, Zenon DEF allReceived, FoldLeft, MapThenFoldSet
<1>3. \A v \in W : \A i \in 1..n : op(v, s[i]) \in W
  BY <1>1
<1> HIDE DEF op
<1>4. g \in [W \X (1..n) -> W] /\ \A v \in W : \A i \in 1..n : g[<<v, i>>] = op(v, s[i])
  BY <1>3
<1> HIDE DEF g, n
<1>5. PICK it \in [SUBSET (1..n) -> W] : Folding(it, n, w, g)
  BY <1>1, <1>4, FoldingExists DEF FoldingPossible
<1>6. it = body(it)
  <2> SUFFICES ASSUME NEW T \in SUBSET (1..n)
               PROVE  it[T] = body(it)[T]
    BY Zenon
  <2>1. CASE T = {}
    BY <1>5, <2>1 DEF Folding
  <2>2. CASE T # {}
    <3>1. Max(T) \in 1..n /\ T \ {Max(T)} \in SUBSET (1..n)
      BY <1>1, <2>2, Greatest
    <3>2. it[T] = g[<<it[T \ {Max(T)}], Max(T)>>]
      BY <1>5, <2>2 DEF Folding
    <3> QED
      BY <1>4, <2>2, <3>1, <3>2
  <2> QED
    BY <2>1, <2>2
<1>7. ch = body(ch)
  <2> HIDE DEF body
  <2> QED
    BY <1>6, Zenon
<1> HIDE DEF ch
<1> DEFINE Places == {T \in SUBSET (1..n) : ch[T] = it[T]}
<1>8. {} \in Places
  BY <1>6, <1>7
<1>9. ASSUME NEW T \in SUBSET (1..n), T # {}, T \ {Max(T)} \in Places
      PROVE  T \in Places
  <2>1. ch[T] = op(ch[T \ {Max(T)}], s[Max(T)])
    BY <1>7, <1>9
  <2>2. it[T] = op(it[T \ {Max(T)}], s[Max(T)])
    BY <1>6, <1>9
  <2> QED
    BY <1>9, <2>1, <2>2
<1>10. SUBSET (1..n) \subseteq Places
  <2> HIDE DEF Places
  <2> QED
    BY <1>1, <1>8, <1>9, PlaceByPlace
<1>11. ch[1..n] = it[1..n]
  BY <1>10
<1>12. Folds(ch[1..n], n, W, w, g)
  BY <1>5, <1>11 DEF Folds
<1>13. Folds(allReceived(w, s, comp), n, W, w, g)
  BY <1>2, <1>12
<1> QED
  BY <1>4, <1>13 DEF n, op

-----------------------------------------------------------------------------
(* The status of a client *)

\* What StatusByteTellsAll says of one
TellsAll(st) ==
  /\ "error" \in st.stb <=> st.errors > 0
  /\ st.esr /\ st.ese => "esb" \in st.stb
  /\ (st.stb \cap st.sre) \ {"rqs"} # {} => "rqs" \in st.stb

HonestStatus == {st \in Status : TellsAll(st)}

\* What SetSTB does
ByteSet(st, new, stb) ==
  /\ new \in Status
  /\ new.system = st.system
  /\ new.sre = st.sre /\ new.esr = st.esr /\ new.ese = st.ese /\ new.errors = st.errors
  /\ \A bit \in StatusByteBit \ {"rqs"} : bit \in new.stb <=> bit \in stb
  /\ (new.stb \cap new.sre) \ {"rqs"} # {} => "rqs" \in new.stb

LEMMA SetByte ==
  ASSUME NEW st \in Status, NEW stb \in SUBSET StatusByteBit
  PROVE  ByteSet(st, SetSTB(st, stb), stb)
<1> DEFINE b == IF (stb \cap st.sre) \ {"rqs"} # {} THEN stb \cup {"rqs"} ELSE stb
           new == [st EXCEPT !.stb = b]
<1>1. b \in SUBSET StatusByteBit
  BY DEF StatusByteBit
<1>2. \A bit \in StatusByteBit \ {"rqs"} : bit \in b <=> bit \in stb
  OBVIOUS
<1>3. (b \cap st.sre) \ {"rqs"} # {} => "rqs" \in b
  OBVIOUS
<1> HIDE DEF b
<1>4. /\ new \in Status
      /\ new.stb = b /\ new.system = st.system
      /\ new.sre = st.sre /\ new.esr = st.esr /\ new.ese = st.ese /\ new.errors = st.errors
  BY <1>1 DEF Status
<1> HIDE DEF new
<1>5. SetSTB(st, stb) = new
  BY Zenon DEF SetSTB, new, b
<1> QED
  BY <1>2, <1>3, <1>4, <1>5 DEF ByteSet

LEMMA ChangedStatus ==
  ASSUME NEW st \in Status
  PROVE  /\ \A x \in BOOLEAN :
              LET new == [st EXCEPT !.esr = x]
              IN  /\ new \in Status /\ new.stb = st.stb /\ new.system = st.system
                  /\ new.sre = st.sre /\ new.esr = x /\ new.ese = st.ese /\ new.errors = st.errors
         /\ \A x \in BOOLEAN :
              LET new == [st EXCEPT !.ese = x]
              IN  /\ new \in Status /\ new.stb = st.stb /\ new.system = st.system
                  /\ new.sre = st.sre /\ new.esr = st.esr /\ new.ese = x /\ new.errors = st.errors
         /\ \A x \in SUBSET StatusByteBit :
              LET new == [st EXCEPT !.sre = x]
              IN  /\ new \in Status /\ new.stb = st.stb /\ new.system = st.system
                  /\ new.sre = x /\ new.esr = st.esr /\ new.ese = st.ese /\ new.errors = st.errors
         /\ \A x \in 0..ErrorQueueLength :
              LET new == [st EXCEPT !.errors = x]
              IN  /\ new \in Status /\ new.stb = st.stb /\ new.system = st.system
                  /\ new.sre = st.sre /\ new.esr = st.esr /\ new.ese = st.ese /\ new.errors = x
         /\ \A x \in [System -> Register] :
              LET new == [st EXCEPT !.system = x]
              IN  /\ new \in Status /\ new.stb = st.stb /\ new.system = x
                  /\ new.sre = st.sre /\ new.esr = st.esr /\ new.ese = st.ese /\ new.errors = st.errors
BY DEF Status

LEMMA StandardEvents ==
  ASSUME NEW st \in HonestStatus
  PROVE  /\ \A esr \in BOOLEAN : SetESR(st, esr) \in HonestStatus
         /\ \A ese \in BOOLEAN : SetESE(st, ese) \in HonestStatus
         /\ \A sre \in SUBSET StatusByteBit : SetSRE(st, sre) \in HonestStatus
         /\ operationComplete(st) \in HonestStatus
<1>0. st \in Status /\ TellsAll(st)
  BY DEF HonestStatus
<1>1. ASSUME NEW x \in Status, NEW esr \in BOOLEAN,
             "error" \in x.stb <=> x.errors > 0,
             (x.stb \cap x.sre) \ {"rqs"} # {} => "rqs" \in x.stb
      PROVE  SetESR(x, esr) \in HonestStatus
  <2> DEFINE new == [x EXCEPT !.esr = esr]
  <2>1. /\ new \in Status /\ new.stb = x.stb /\ new.sre = x.sre
        /\ new.esr = esr /\ new.ese = x.ese /\ new.errors = x.errors
    BY ChangedStatus
  <2>2. SetESR(x, esr) = IF esr /\ new.ese THEN SetSTB(new, new.stb \cup {"esb"}) ELSE new
    BY DEF SetESR
  <2> HIDE DEF new
  <2>3. CASE esr /\ new.ese
    <3>1. new.stb \cup {"esb"} \in SUBSET StatusByteBit
      BY <2>1 DEF Status, StatusByteBit
    <3>2. ByteSet(new, SetSTB(new, new.stb \cup {"esb"}), new.stb \cup {"esb"})
      BY <2>1, <3>1, SetByte
    <3> QED
      BY <1>1, <2>1, <2>2, <2>3, <3>2 DEF ByteSet, HonestStatus, TellsAll, StatusByteBit
  <2>4. CASE ~(esr /\ new.ese)
    BY <1>1, <2>1, <2>2, <2>4 DEF HonestStatus, TellsAll
  <2> QED
    BY <2>3, <2>4
<1>2. ASSUME NEW esr \in BOOLEAN
      PROVE  SetESR(st, esr) \in HonestStatus
  BY <1>0, <1>1 DEF TellsAll
<1>3. ASSUME NEW ese \in BOOLEAN
      PROVE  SetESE(st, ese) \in HonestStatus
  <2> DEFINE new == [st EXCEPT !.ese = ese]
  <2>1. /\ new \in Status /\ new.stb = st.stb /\ new.sre = st.sre
        /\ new.esr = st.esr /\ new.ese = ese /\ new.errors = st.errors
    BY <1>0, ChangedStatus
  <2>2. SetESE(st, ese) = SetESR(new, st.esr)
    BY DEF SetESE
  <2> HIDE DEF new
  <2>3. st.esr \in BOOLEAN
    BY <1>0 DEF Status
  <2> QED
    BY <1>0, <1>1, <2>1, <2>2, <2>3 DEF TellsAll
<1>4. ASSUME NEW sre \in SUBSET StatusByteBit
      PROVE  SetSRE(st, sre) \in HonestStatus
  <2> DEFINE new == [st EXCEPT !.sre = sre]
  <2>1. /\ new \in Status /\ new.stb = st.stb /\ new.sre = sre
        /\ new.esr = st.esr /\ new.ese = st.ese /\ new.errors = st.errors
    BY <1>0, ChangedStatus
  <2>2. SetSRE(st, sre) = SetSTB(new, st.stb)
    BY DEF SetSRE
  <2> HIDE DEF new
  <2>3. st.stb \in SUBSET StatusByteBit
    BY <1>0 DEF Status
  <2>4. ByteSet(new, SetSTB(new, st.stb), st.stb)
    BY <2>1, <2>3, SetByte
  <2> QED
    BY <1>0, <2>1, <2>2, <2>4 DEF ByteSet, HonestStatus, TellsAll, StatusByteBit
<1> QED
  BY <1>2, <1>3, <1>4 DEF operationComplete

LEMMA ErrorQueue ==
  ASSUME NEW st \in HonestStatus
  PROVE  /\ addEventError(st) \in HonestStatus
         /\ popScpiError(st) \in HonestStatus
         /\ popAllErrors(st) \in HonestStatus
<1>0. st \in Status /\ TellsAll(st) /\ st.errors \in 0..ErrorQueueLength /\ ErrorQueueLength \in Nat \ {0}
  BY StatusAssumption DEF HonestStatus, Status
<1>1. st.stb \in SUBSET StatusByteBit
  BY <1>0 DEF Status
<1>2. addEventError(st) \in HonestStatus
  <2> DEFINE b == st.stb \cup {"error"}
             byte == SetSTB(st, b)
             n == IF byte.errors = ErrorQueueLength THEN byte.errors ELSE byte.errors + 1
             new == [byte EXCEPT !.errors = n]
  <2>1. addEventError(st) = new
    BY DEF addEventError
  <2>2. b \in SUBSET StatusByteBit
    BY <1>1 DEF StatusByteBit
  <2>3. ByteSet(st, byte, b) /\ "error" \in b /\ ("esb" \in st.stb => "esb" \in b)
    <3>1. ByteSet(st, byte, b)
      <4> HIDE DEF b
      <4> QED
        BY <1>0, <2>2, SetByte
    <3> QED
      BY <3>1
  <2> HIDE DEF b, byte
  <2>4. byte \in Status /\ byte.errors = st.errors
    BY <2>3 DEF ByteSet
  <2>5. n \in 0..ErrorQueueLength /\ n > 0
    BY <1>0, <2>4
  <2> HIDE DEF n
  <2>6. /\ new \in Status /\ new.stb = byte.stb /\ new.sre = byte.sre
        /\ new.esr = byte.esr /\ new.ese = byte.ese /\ new.errors = n
    BY <2>4, <2>5, ChangedStatus
  <2> HIDE DEF new
  <2> QED
    BY <1>0, <2>1, <2>3, <2>5, <2>6 DEF ByteSet, HonestStatus, TellsAll, StatusByteBit
<1>3. ASSUME st.errors # 0
      PROVE  SetSTB([st EXCEPT !.errors = 0], st.stb \ {"error"}) \in HonestStatus
  <2> DEFINE b == st.stb \ {"error"}
             new == [st EXCEPT !.errors = 0]
  <2>1. /\ new \in Status /\ new.stb = st.stb /\ new.sre = st.sre
        /\ new.esr = st.esr /\ new.ese = st.ese /\ new.errors = 0
    <3>1. 0 \in 0..ErrorQueueLength
      BY <1>0
    <3> QED
      BY <1>0, <3>1, ChangedStatus
  <2>2. b \in SUBSET StatusByteBit /\ "error" \notin b /\ ("esb" \in st.stb => "esb" \in b)
    BY <1>1
  <2> HIDE DEF b, new
  <2>3. ByteSet(new, SetSTB(new, b), b)
    BY <2>1, <2>2, SetByte
  <2>4. SetSTB(new, b) \in HonestStatus
    BY <1>0, <2>1, <2>2, <2>3 DEF ByteSet, HonestStatus, TellsAll, StatusByteBit
  <2> QED
    BY <2>4 DEF b, new
<1>4. popAllErrors(st) \in HonestStatus
  BY <1>3 DEF popAllErrors
<1>5. popScpiError(st) \in HonestStatus
  <2>1. CASE st.errors = 1
    BY <1>3, <2>1 DEF popScpiError
  <2>2. CASE st.errors # 1
    <3> DEFINE n == IF st.errors = 0 THEN 0 ELSE st.errors - 1
               new == [st EXCEPT !.errors = n]
    <3>1. popScpiError(st) = new
      BY <2>2 DEF popScpiError
    <3>2. n \in 0..ErrorQueueLength /\ (n > 0 <=> st.errors > 0)
      BY <1>0, <2>2
    <3> HIDE DEF n
    <3>3. /\ new \in Status /\ new.stb = st.stb /\ new.sre = st.sre
          /\ new.esr = st.esr /\ new.ese = st.ese /\ new.errors = n
      BY <1>0, <3>2, ChangedStatus
    <3> HIDE DEF new
    <3> QED
      BY <1>0, <3>1, <3>2, <3>3 DEF HonestStatus, TellsAll
  <2> QED
    BY <2>1, <2>2
<1> QED
  BY <1>2, <1>4, <1>5

\* What a change of the conditions leaves alone
Requests(st) == (st.stb \cap st.sre) \ {"rqs"} # {} => "rqs" \in st.stb
OnlySummaries(st, new) ==
  /\ new \in Status
  /\ new.sre = st.sre /\ new.esr = st.esr /\ new.ese = st.ese /\ new.errors = st.errors
  /\ \A bit \in {"error", "esb"} : bit \in new.stb <=> bit \in st.stb
  /\ Requests(st) => Requests(new)

LEMMA Entered ==
  ASSUME NEW st \in Status, NEW s \in System, NEW cond \in SUBSET RegisterBits
  PROVE  /\ entered(st, s, cond) \in Status
         /\ entered(st, s, cond).stb = st.stb
         /\ OnlySummaries(st, entered(st, s, cond))
<1> DEFINE reg == st.system[s]
           new == [reg EXCEPT !.cond = cond, !.event = newEvent(reg, cond)]
           system == [st.system EXCEPT ![s] = new]
           changed == [st EXCEPT !.system = system]
<1>1. reg \in Register /\ st.system \in [System -> Register]
  BY DEF Status
<1>2. newEvent(reg, cond) \in SUBSET RegisterBits
  BY <1>1 DEF newEvent, Register
<1>3. new \in Register
  <2> HIDE DEF reg
  <2> QED
    BY <1>1, <1>2 DEF Register
<1>4. system \in [System -> Register]
  <2> HIDE DEF new
  <2> QED
    BY <1>1, <1>3
<1>5. entered(st, s, cond) = changed
  BY DEF entered, Status
<1> HIDE DEF system
<1>6. /\ changed \in Status /\ changed.stb = st.stb
      /\ changed.sre = st.sre /\ changed.esr = st.esr /\ changed.ese = st.ese
      /\ changed.errors = st.errors
  BY <1>4, ChangedStatus
<1> HIDE DEF changed
<1> QED
  BY <1>5, <1>6 DEF OnlySummaries, Requests

LEMMA ByteCondition ==
  ASSUME NEW st \in Status, NEW s \in {"ques", "oper"}, NEW cond \in SUBSET RegisterBits
  PROVE  OnlySummaries(st, setByteCondition(st, s, cond))
<1> DEFINE e == entered(st, s, cond)
           b == e.stb \cup {s}
<1>1. e \in Status /\ e.stb = st.stb /\ OnlySummaries(st, e)
  BY Entered DEF System
<1>2. setByteCondition(st, s, cond) = IF fires(st.system[s], cond) THEN SetSTB(e, b) ELSE e
  BY DEF setByteCondition
<1>3. b \in SUBSET StatusByteBit
  <2> HIDE DEF e
  <2> QED
    BY <1>1 DEF Status, StatusByteBit
<1> HIDE DEF e
<1>4. ByteSet(e, SetSTB(e, b), b)
  <2> HIDE DEF b
  <2> QED
    BY <1>1, <1>3, SetByte
<1>5. OnlySummaries(st, SetSTB(e, b))
  BY <1>1, <1>4 DEF ByteSet, OnlySummaries, Requests, StatusByteBit
<1> QED
  BY <1>1, <1>2, <1>5

LEMMA Condition ==
  ASSUME NEW st \in Status, NEW s \in System, NEW cond \in SUBSET RegisterBits
  PROVE  OnlySummaries(st, setCondition(st, s, cond))
<1>1. CASE s = "operMeas"
  <2> DEFINE reg == st.system.operMeas
             oper == st.system.oper.cond
             e == entered(st, "operMeas", cond)
             up == IF cond \ reg.cond # {} THEN oper \cup {"meas"} ELSE oper \ {"meas"}
             new == setByteCondition(e, "oper", up)
  <2>1. setCondition(st, s, cond) = IF ~fires(reg, cond) THEN e ELSE new
    BY <1>1 DEF setCondition, setMeasCondition
  <2>2. e \in Status /\ OnlySummaries(st, e)
    BY Entered DEF System
  <2>3. oper \in SUBSET RegisterBits
    BY DEF Status, System, Register
  <2>4. up \in SUBSET RegisterBits
    BY <2>3 DEF RegisterBits
  <2> HIDE DEF e, up
  <2>5. OnlySummaries(e, new)
    BY <2>2, <2>4, ByteCondition
  <2> HIDE DEF new
  <2>6. OnlySummaries(st, new)
    BY <2>2, <2>5 DEF OnlySummaries
  <2> QED
    BY <2>1, <2>2, <2>6
<1>2. CASE s # "operMeas"
  BY <1>2, ByteCondition DEF setCondition, System
<1> QED
  BY <1>1, <1>2

LEMMA Signals ==
  ASSUME NEW st \in HonestStatus, NEW s \in System, NEW bit \in Bits, NEW on \in BOOLEAN
  PROVE  SetConditionBit(st, s, bit, on) \in HonestStatus
<1> DEFINE old == st.system[s].cond
           cond == IF on THEN old \cup {bit} ELSE old \ {bit}
<1>1. st \in Status /\ TellsAll(st)
  BY DEF HonestStatus
<1>2. old \in SUBSET RegisterBits
  BY <1>1 DEF Status, Register
<1>3. cond \in SUBSET RegisterBits
  BY <1>2 DEF RegisterBits
<1>4. SetConditionBit(st, s, bit, on) = setCondition(st, s, cond)
  BY DEF SetConditionBit
<1> HIDE DEF cond
<1>5. OnlySummaries(st, setCondition(st, s, cond))
  BY <1>1, <1>3, Condition
<1> QED
  BY <1>1, <1>4, <1>5 DEF OnlySummaries, HonestStatus, TellsAll, Requests

LEMMA Cleared ==
  ASSUME NEW st \in HonestStatus
  PROVE  ClearStatus(st) \in HonestStatus
<1> DEFINE off == SetESR(st, FALSE)
           cleared == SetSTB(off, {})
           q == setByteCondition(cleared, "ques", {})
           o == setByteCondition(q, "oper", {})
           m == setMeasCondition(o, {})
           new == [m EXCEPT !.errors = 0]
<1>1. ClearStatus(st) = new
  BY DEF ClearStatus
<1>2. off \in Status /\ off.esr = FALSE
  <2> DEFINE quiet == [st EXCEPT !.esr = FALSE]
  <2>1. st \in Status
    BY DEF HonestStatus
  <2>2. off = quiet
    BY DEF SetESR
  <2>3. quiet \in Status /\ quiet.esr = FALSE
    BY <2>1, ChangedStatus
  <2> HIDE DEF quiet
  <2> QED
    BY <2>2, <2>3
<1> HIDE DEF off
<1>3. {} \in SUBSET StatusByteBit /\ {} \in SUBSET RegisterBits
  OBVIOUS
<1>4. ByteSet(off, cleared, {})
  BY <1>2, <1>3, SetByte
<1>5. /\ cleared \in Status /\ cleared.esr = FALSE /\ "error" \notin cleared.stb
      /\ "esb" \notin cleared.stb /\ Requests(cleared)
  BY <1>2, <1>4 DEF ByteSet, Requests, StatusByteBit
<1> HIDE DEF cleared
<1>6. OnlySummaries(cleared, q)
  BY <1>3, <1>5, ByteCondition
<1> HIDE DEF q
<1>7. OnlySummaries(q, o)
  BY <1>3, <1>6, ByteCondition DEF OnlySummaries
<1> HIDE DEF o
<1>8. OnlySummaries(o, m)
  <2>1. o \in Status /\ "operMeas" \in System
    BY <1>7 DEF OnlySummaries, System
  <2>2. OnlySummaries(o, setCondition(o, "operMeas", {}))
    BY <1>3, <2>1, Condition
  <2> QED
    BY <2>2 DEF setCondition
<1> HIDE DEF m
<1>9. /\ m \in Status /\ m.esr = FALSE /\ "error" \notin m.stb
      /\ Requests(m)
  BY <1>5, <1>6, <1>7, <1>8 DEF OnlySummaries
<1>10. 0 \in 0..ErrorQueueLength
  BY StatusAssumption
<1>11. /\ new \in Status /\ new.stb = m.stb /\ new.sre = m.sre
       /\ new.esr = m.esr /\ new.ese = m.ese /\ new.errors = 0
  BY <1>9, <1>10, ChangedStatus
<1> HIDE DEF new
<1> QED
  BY <1>1, <1>9, <1>11 DEF HonestStatus, TellsAll, Requests

LEMMA WrittenRegister ==
  ASSUME NEW st \in HonestStatus, NEW s \in System, NEW field \in {"ptr", "ntr", "enable"},
         NEW value \in SUBSET RegisterBits
  PROVE  writeRegister(st, s, field, value) \in HonestStatus
<1> DEFINE reg == st.system[s]
           new == [reg EXCEPT ![field] = value]
           system == [st.system EXCEPT ![s] = new]
           changed == [st EXCEPT !.system = system]
<1>0. st \in Status /\ TellsAll(st)
  BY DEF HonestStatus
<1>1. reg \in Register /\ st.system \in [System -> Register]
  BY <1>0 DEF Status
<1>2. new \in Register
  <2> HIDE DEF reg
  <2>1. CASE field = "ptr"
    BY <1>1, <2>1 DEF Register
  <2>2. CASE field = "ntr"
    BY <1>1, <2>2 DEF Register
  <2>3. CASE field = "enable"
    BY <1>1, <2>3 DEF Register
  <2> QED
    BY <2>1, <2>2, <2>3
<1>3. system \in [System -> Register]
  <2> HIDE DEF new
  <2> QED
    BY <1>1, <1>2
<1>4. writeRegister(st, s, field, value) = changed
  BY <1>0 DEF writeRegister, Status
<1> HIDE DEF system
<1>5. /\ changed \in Status /\ changed.stb = st.stb
      /\ changed.sre = st.sre /\ changed.esr = st.esr /\ changed.ese = st.ese
      /\ changed.errors = st.errors
  BY <1>0, <1>3, ChangedStatus
<1> HIDE DEF changed
<1> QED
  BY <1>0, <1>4, <1>5 DEF HonestStatus, TellsAll

LEMMA FreshStatus == freshStatus \in HonestStatus
<1>1. 0 \in 0..ErrorQueueLength
  BY StatusAssumption
<1>2. freshStatus \in Status
  BY <1>1 DEF freshStatus, Status, noBits, Register, System
<1> QED
  BY <1>2 DEF HonestStatus, TellsAll, freshStatus

-----------------------------------------------------------------------------
(* The world of the module *)

Good == {w \in World : \A c \in Client : TellsAll(w.client[c].status)}

\* An id that has been given, or that of a command
Given(w, id) == id \in 0..Len(w.query)

\* v is w except for the parts in F.
AllBut(w, v, F) ==
  /\ "connected" \in F \/ v.connected = w.connected
  /\ "client" \in F \/ v.client = w.client
  /\ "store" \in F \/ v.store = w.store
  /\ "rpcs" \in F \/ v.rpcs = w.rpcs
  /\ "posted" \in F \/ v.posted = w.posted
  /\ "query" \in F \/ v.query = w.query
  /\ "delayed" \in F \/ v.delayed = w.delayed
  /\ "met" \in F \/ v.met = w.met

LEMMA GoodParts ==
  ASSUME NEW w \in Good
  PROVE  /\ w \in World
         /\ w.connected \in SUBSET Client
         /\ w.client \in [Client -> ClientState]
         /\ w.store \in Seq(Transaction)
         /\ w.rpcs \in Seq(Transaction)
         /\ w.posted \in Seq(Event)
         /\ w.query \in Seq([client : Client, fate : Fate])
         /\ w.delayed \in SUBSET Nat /\ w.delayed \subseteq DOMAIN w.query
         /\ w.met \in SUBSET Circumstance
         /\ Len(w.query) \in Nat /\ DOMAIN w.query = 1..Len(w.query)
         /\ \A x \in ToSet(w.store) \cup ToSet(w.rpcs) : Given(w, x.id)
         /\ \A c \in Client :
              /\ w.client[c] \in ClientState
              /\ w.client[c].status \in HonestStatus
              /\ \A t \in ToSet(w.client[c].executing) : Given(w, t.id)
<1>1. w \in World /\ \A c \in Client : TellsAll(w.client[c].status)
  BY DEF Good
<1>2. w \in [connected : SUBSET Client, client : [Client -> ClientState],
          store : Seq(Transaction), rpcs : Seq(Transaction), posted : Seq(Event),
          query : Seq([client : Client, fate : Fate]), delayed : SUBSET Nat,
          met : SUBSET Circumstance]
  BY <1>1 DEF World
<1>3. /\ w.delayed \subseteq DOMAIN w.query
      /\ \A x \in ToSet(w.store) \cup ToSet(w.rpcs)
               \cup UNION {ToSet(w.client[c].executing) : c \in Client} :
          x.id \in 0..Len(w.query)
  BY <1>1, Zenon DEF World
<1>4. /\ w.connected \in SUBSET Client
      /\ w.client \in [Client -> ClientState]
      /\ w.store \in Seq(Transaction)
      /\ w.rpcs \in Seq(Transaction)
      /\ w.posted \in Seq(Event)
      /\ w.query \in Seq([client : Client, fate : Fate])
      /\ w.delayed \in SUBSET Nat
      /\ w.met \in SUBSET Circumstance
  BY <1>2
<1>5. Len(w.query) \in Nat /\ DOMAIN w.query = 1..Len(w.query)
  BY <1>4, LenProperties
<1>6. \A x \in ToSet(w.store) \cup ToSet(w.rpcs) : Given(w, x.id)
  BY <1>3, Zenon DEF Given
<1>7. \A c \in Client :
        /\ w.client[c] \in ClientState
        /\ \A t \in ToSet(w.client[c].executing) : Given(w, t.id)
  BY <1>3, <1>4, Zenon DEF Given
<1>8. \A c \in Client : w.client[c].status \in HonestStatus
  BY <1>1, <1>7 DEF ClientState, HonestStatus
<1> QED
  BY <1>1, <1>3, <1>4, <1>5, <1>6, <1>7, <1>8

\* A world by its parts
Parts ==
  [connected : SUBSET Client, client : [Client -> ClientState],
   store : Seq(Transaction), rpcs : Seq(Transaction), posted : Seq(Event),
   query : Seq([client : Client, fate : Fate]), delayed : SUBSET Nat, met : SUBSET Circumstance]

LEMMA MakeGood ==
  ASSUME NEW w,
         w \in Parts,
         w.delayed \subseteq DOMAIN w.query,
         \A x \in ToSet(w.store) \cup ToSet(w.rpcs) : Given(w, x.id),
         \A c \in Client : /\ w.client[c].status \in HonestStatus
                           /\ \A t \in ToSet(w.client[c].executing) : Given(w, t.id)
  PROVE  w \in Good
<1>1. \A x \in UNION {ToSet(w.client[c].executing) : c \in Client} : x.id \in 0..Len(w.query)
  BY DEF Given
<1>2. w \in World
  BY <1>1, Zenon DEF World, Parts, Given
<1>3. \A c \in Client : TellsAll(w.client[c].status)
  BY DEF HonestStatus
<1> QED
  BY <1>2, <1>3 DEF Good

\* One part replaced
LEMMA Put ==
  ASSUME NEW w \in Good
  PROVE  /\ \A x \in Seq(Transaction) :
              (\A y \in ToSet(x) : Given(w, y.id)) =>
              LET v == [w EXCEPT !.store = x]
              IN  v \in Good /\ AllBut(w, v, {"store"}) /\ v.store = x
         /\ \A x \in Seq(Transaction) :
              (\A y \in ToSet(x) : Given(w, y.id)) =>
              LET v == [w EXCEPT !.rpcs = x]
              IN  v \in Good /\ AllBut(w, v, {"rpcs"}) /\ v.rpcs = x
         /\ \A x \in Seq(Event) :
              LET v == [w EXCEPT !.posted = x]
              IN  v \in Good /\ AllBut(w, v, {"posted"}) /\ v.posted = x
         /\ \A x \in SUBSET (DOMAIN w.query) :
              LET v == [w EXCEPT !.delayed = x]
              IN  v \in Good /\ AllBut(w, v, {"delayed"}) /\ v.delayed = x
         /\ \A x \in SUBSET Circumstance :
              LET v == [w EXCEPT !.met = x]
              IN  v \in Good /\ AllBut(w, v, {"met"}) /\ v.met = x
         /\ \A x \in Seq([client : Client, fate : Fate]) :
              Len(x) >= Len(w.query) =>
              LET v == [w EXCEPT !.query = x]
              IN  v \in Good /\ AllBut(w, v, {"query"}) /\ v.query = x
         /\ \A x \in [Client -> ClientState] :
              (\A c \in Client : /\ x[c].status \in HonestStatus
                                 /\ \A t \in ToSet(x[c].executing) : Given(w, t.id)) =>
              LET v == [w EXCEPT !.client = x]
              IN  v \in Good /\ AllBut(w, v, {"client"}) /\ v.client = x
<1>1. ASSUME NEW x \in Seq(Transaction), \A y \in ToSet(x) : Given(w, y.id)
      PROVE  LET v == [w EXCEPT !.store = x]
             IN  v \in Good /\ AllBut(w, v, {"store"}) /\ v.store = x
  <2> DEFINE v == [w EXCEPT !.store = x]
  <2>1. v \in Parts /\ AllBut(w, v, {"store"}) /\ v.store = x
    BY <1>1 DEF Good, World, Parts, AllBut
  <2> HIDE DEF v
  <2>2. v \in Good
    BY <1>1, <2>1, GoodParts, MakeGood DEF AllBut, Given
  <2> QED
    BY <2>1, <2>2 DEF v
<1>2. ASSUME NEW x \in Seq(Transaction), \A y \in ToSet(x) : Given(w, y.id)
      PROVE  LET v == [w EXCEPT !.rpcs = x]
             IN  v \in Good /\ AllBut(w, v, {"rpcs"}) /\ v.rpcs = x
  <2> DEFINE v == [w EXCEPT !.rpcs = x]
  <2>1. v \in Parts /\ AllBut(w, v, {"rpcs"}) /\ v.rpcs = x
    BY <1>2 DEF Good, World, Parts, AllBut
  <2> HIDE DEF v
  <2>2. v \in Good
    BY <1>2, <2>1, GoodParts, MakeGood DEF AllBut, Given
  <2> QED
    BY <2>1, <2>2 DEF v
<1>3. ASSUME NEW x \in Seq(Event)
      PROVE  LET v == [w EXCEPT !.posted = x]
             IN  v \in Good /\ AllBut(w, v, {"posted"}) /\ v.posted = x
  <2> DEFINE v == [w EXCEPT !.posted = x]
  <2>1. v \in Parts /\ AllBut(w, v, {"posted"}) /\ v.posted = x
    BY <1>3 DEF Good, World, Parts, AllBut
  <2> HIDE DEF v
  <2>2. v \in Good
    BY <1>3, <2>1, GoodParts, MakeGood DEF AllBut, Given
  <2> QED
    BY <2>1, <2>2 DEF v
<1>4. ASSUME NEW x \in SUBSET (DOMAIN w.query)
      PROVE  LET v == [w EXCEPT !.delayed = x]
             IN  v \in Good /\ AllBut(w, v, {"delayed"}) /\ v.delayed = x
  <2> DEFINE v == [w EXCEPT !.delayed = x]
  <2>1. v \in Parts /\ AllBut(w, v, {"delayed"}) /\ v.delayed = x
    <3>1. x \in SUBSET Nat
      BY <1>4, GoodParts
    <3> QED
      BY <3>1 DEF Good, World, Parts, AllBut
  <2> HIDE DEF v
  <2>2. v \in Good
    <3>1. v.delayed \subseteq DOMAIN v.query
      BY <2>1 DEF AllBut
    <3> QED
      BY <2>1, <3>1, GoodParts, MakeGood DEF AllBut, Given
  <2> QED
    BY <2>1, <2>2 DEF v
<1>5. ASSUME NEW x \in SUBSET Circumstance
      PROVE  LET v == [w EXCEPT !.met = x]
             IN  v \in Good /\ AllBut(w, v, {"met"}) /\ v.met = x
  <2> DEFINE v == [w EXCEPT !.met = x]
  <2>1. v \in Parts /\ AllBut(w, v, {"met"}) /\ v.met = x
    BY <1>5 DEF Good, World, Parts, AllBut
  <2> HIDE DEF v
  <2>2. v \in Good
    BY <1>5, <2>1, GoodParts, MakeGood DEF AllBut, Given
  <2> QED
    BY <2>1, <2>2 DEF v
<1>6. ASSUME NEW x \in Seq([client : Client, fate : Fate]), Len(x) >= Len(w.query)
      PROVE  LET v == [w EXCEPT !.query = x]
             IN  v \in Good /\ AllBut(w, v, {"query"}) /\ v.query = x
  <2> DEFINE v == [w EXCEPT !.query = x]
  <2>1. v \in Parts /\ AllBut(w, v, {"query"}) /\ v.query = x
    BY <1>6 DEF Good, World, Parts, AllBut
  <2> HIDE DEF v
  <2>2. v \in Good
    <3>1. Len(x) \in Nat /\ DOMAIN x = 1..Len(x)
      BY <1>6, LenProperties
    <3>2. \A id : Given(w, id) => Given(v, id)
      BY <1>6, <2>1, <3>1, GoodParts DEF Given
    <3>3. v.delayed \subseteq DOMAIN v.query
      BY <1>6, <2>1, <3>1, GoodParts DEF AllBut
    <3> QED
      BY <2>1, <3>2, <3>3, GoodParts, MakeGood DEF AllBut
  <2> QED
    BY <2>1, <2>2 DEF v
<1>7. ASSUME NEW x \in [Client -> ClientState],
             \A c \in Client : /\ x[c].status \in HonestStatus
                               /\ \A t \in ToSet(x[c].executing) : Given(w, t.id)
      PROVE  LET v == [w EXCEPT !.client = x]
             IN  v \in Good /\ AllBut(w, v, {"client"}) /\ v.client = x
  <2> DEFINE v == [w EXCEPT !.client = x]
  <2>1. v \in Parts /\ AllBut(w, v, {"client"}) /\ v.client = x
    BY <1>7 DEF Good, World, Parts, AllBut
  <2> HIDE DEF v
  <2>2. v \in Good
    BY <1>7, <2>1, GoodParts, MakeGood DEF AllBut, Given
  <2> QED
    BY <2>1, <2>2 DEF v
<1> QED
  BY <1>1, <1>2, <1>3, <1>4, <1>5, <1>6, <1>7

\* ... one client replaced, ...
LEMMA PutClient ==
  ASSUME NEW w \in Good, NEW c \in Client, NEW k \in ClientState,
         k.status \in HonestStatus, \A t \in ToSet(k.executing) : Given(w, t.id)
  PROVE  LET v == [w EXCEPT !.client[c] = k]
         IN  /\ v \in Good /\ AllBut(w, v, {"client"})
             /\ v.client[c] = k
             /\ \A d \in Client \ {c} : v.client[d] = w.client[d]
<1> DEFINE x == [w.client EXCEPT ![c] = k]
           v == [w EXCEPT !.client = x]
<1>1. [w EXCEPT !.client[c] = k] = v
  OBVIOUS
<1>2. x \in [Client -> ClientState] /\ x[c] = k /\ \A d \in Client \ {c} : x[d] = w.client[d]
  BY GoodParts
<1> HIDE DEF x
<1>3. \A d \in Client : x[d].status \in HonestStatus /\ \A t \in ToSet(x[d].executing) : Given(w, t.id)
  BY <1>2, GoodParts, Zenon
<1>4. v \in Good /\ AllBut(w, v, {"client"}) /\ v.client = x
  BY <1>2, <1>3, Put
<1> QED
  BY <1>1, <1>2, <1>4

\* ... or one part of a client.  v is w except for the parts in F of the client c.
ClientsBut(w, v, c, F) ==
  /\ \A d \in Client \ {c} : v.client[d] = w.client[d]
  /\ "active" \in F \/ v.client[c].active = w.client[c].active
  /\ "pending" \in F \/ v.client[c].pending = w.client[c].pending
  /\ "running" \in F \/ v.client[c].running = w.client[c].running
  /\ "executing" \in F \/ v.client[c].executing = w.client[c].executing
  /\ "sequences" \in F \/ v.client[c].sequences = w.client[c].sequences
  /\ "valued" \in F \/ v.client[c].valued = w.client[c].valued
  /\ "awaited" \in F \/ v.client[c].awaited = w.client[c].awaited
  /\ "status" \in F \/ v.client[c].status = w.client[c].status
ClientBut(w, v, c, F) == AllBut(w, v, {"client"}) /\ ClientsBut(w, v, c, F)

LEMMA PutSequences ==
  ASSUME NEW w \in Good, NEW c \in Client, NEW x \in SUBSET Component
  PROVE  LET v == [w EXCEPT !.client[c].sequences = x]
         IN  v \in Good /\ ClientBut(w, v, c, {"sequences"}) /\ v.client[c].sequences = x
<1> DEFINE old == w.client[c]
<1>0. /\ old \in ClientState /\ old.status \in HonestStatus
      /\ \A t \in ToSet(old.executing) : Given(w, t.id)
  BY GoodParts
<1> DEFINE k == [old EXCEPT !.sequences = x]
           v == [w EXCEPT !.client[c] = k]
<1>1. [w EXCEPT !.client[c].sequences = x] = v
  BY GoodParts
<1>2. /\ k \in ClientState /\ k.sequences = x
      /\ k.active = old.active /\ k.pending = old.pending /\ k.running = old.running
      /\ k.executing = old.executing /\ k.valued = old.valued /\ k.awaited = old.awaited
      /\ k.status = old.status
  BY <1>0 DEF ClientState
<1> HIDE DEF k
<1>3. k.status \in HonestStatus /\ \A t \in ToSet(k.executing) : Given(w, t.id)
  BY <1>0, <1>2
<1>4. /\ v \in Good /\ AllBut(w, v, {"client"}) /\ v.client[c] = k
      /\ \A d \in Client \ {c} : v.client[d] = w.client[d]
  BY <1>2, <1>3, PutClient
<1> HIDE DEF v
<1>5. ClientBut(w, v, c, {"sequences"})
  BY <1>2, <1>4 DEF ClientBut, ClientsBut
<1> QED
  BY <1>1, <1>2, <1>4, <1>5

LEMMA PutValued ==
  ASSUME NEW w \in Good, NEW c \in Client, NEW x \in SUBSET Component
  PROVE  LET v == [w EXCEPT !.client[c].valued = x]
         IN  v \in Good /\ ClientBut(w, v, c, {"valued"}) /\ v.client[c].valued = x
<1> DEFINE old == w.client[c]
<1>0. /\ old \in ClientState /\ old.status \in HonestStatus
      /\ \A t \in ToSet(old.executing) : Given(w, t.id)
  BY GoodParts
<1> DEFINE k == [old EXCEPT !.valued = x]
           v == [w EXCEPT !.client[c] = k]
<1>1. [w EXCEPT !.client[c].valued = x] = v
  BY GoodParts
<1>2. /\ k \in ClientState /\ k.valued = x
      /\ k.active = old.active /\ k.pending = old.pending /\ k.running = old.running
      /\ k.executing = old.executing /\ k.sequences = old.sequences /\ k.awaited = old.awaited
      /\ k.status = old.status
  BY <1>0 DEF ClientState
<1> HIDE DEF k
<1>3. k.status \in HonestStatus /\ \A t \in ToSet(k.executing) : Given(w, t.id)
  BY <1>0, <1>2
<1>4. /\ v \in Good /\ AllBut(w, v, {"client"}) /\ v.client[c] = k
      /\ \A d \in Client \ {c} : v.client[d] = w.client[d]
  BY <1>2, <1>3, PutClient
<1> HIDE DEF v
<1>5. ClientBut(w, v, c, {"valued"})
  BY <1>2, <1>4 DEF ClientBut, ClientsBut
<1> QED
  BY <1>1, <1>2, <1>4, <1>5

LEMMA PutAwaited ==
  ASSUME NEW w \in Good, NEW c \in Client, NEW x \in SUBSET Component
  PROVE  LET v == [w EXCEPT !.client[c].awaited = x]
         IN  v \in Good /\ ClientBut(w, v, c, {"awaited"}) /\ v.client[c].awaited = x
<1> DEFINE old == w.client[c]
<1>0. /\ old \in ClientState /\ old.status \in HonestStatus
      /\ \A t \in ToSet(old.executing) : Given(w, t.id)
  BY GoodParts
<1> DEFINE k == [old EXCEPT !.awaited = x]
           v == [w EXCEPT !.client[c] = k]
<1>1. [w EXCEPT !.client[c].awaited = x] = v
  BY GoodParts
<1>2. /\ k \in ClientState /\ k.awaited = x
      /\ k.active = old.active /\ k.pending = old.pending /\ k.running = old.running
      /\ k.executing = old.executing /\ k.sequences = old.sequences /\ k.valued = old.valued
      /\ k.status = old.status
  BY <1>0 DEF ClientState
<1> HIDE DEF k
<1>3. k.status \in HonestStatus /\ \A t \in ToSet(k.executing) : Given(w, t.id)
  BY <1>0, <1>2
<1>4. /\ v \in Good /\ AllBut(w, v, {"client"}) /\ v.client[c] = k
      /\ \A d \in Client \ {c} : v.client[d] = w.client[d]
  BY <1>2, <1>3, PutClient
<1> HIDE DEF v
<1>5. ClientBut(w, v, c, {"awaited"})
  BY <1>2, <1>4 DEF ClientBut, ClientsBut
<1> QED
  BY <1>1, <1>2, <1>4, <1>5

LEMMA PutPart ==
  ASSUME NEW w \in Good, NEW c \in Client
  PROVE  /\ \A x \in Seq(Command) :
              LET v == [w EXCEPT !.client[c].active = x]
              IN  v \in Good /\ ClientBut(w, v, c, {"active"}) /\ v.client[c].active = x
         /\ \A x \in SUBSET Name :
              LET v == [w EXCEPT !.client[c].pending = x]
              IN  v \in Good /\ ClientBut(w, v, c, {"pending"}) /\ v.client[c].pending = x
         /\ \A x \in Seq(Component \X MeasureModel) :
              LET v == [w EXCEPT !.client[c].running = x]
              IN  v \in Good /\ ClientBut(w, v, c, {"running"}) /\ v.client[c].running = x
         /\ \A x \in Seq(Task) :
              (\A t \in ToSet(x) : Given(w, t.id)) =>
              LET v == [w EXCEPT !.client[c].executing = x]
              IN  v \in Good /\ ClientBut(w, v, c, {"executing"}) /\ v.client[c].executing = x
         /\ \A x \in SUBSET Component :
              LET v == [w EXCEPT !.client[c].awaited = x]
              IN  v \in Good /\ ClientBut(w, v, c, {"awaited"}) /\ v.client[c].awaited = x
         /\ \A x \in HonestStatus :
              LET v == [w EXCEPT !.client[c].status = x]
              IN  v \in Good /\ ClientBut(w, v, c, {"status"}) /\ v.client[c].status = x
<1> DEFINE old == w.client[c]
<1>0. /\ old \in ClientState /\ old.status \in HonestStatus
      /\ \A t \in ToSet(old.executing) : Given(w, t.id)
  BY GoodParts
<1>1. ASSUME NEW x \in Seq(Command)
      PROVE  LET v == [w EXCEPT !.client[c].active = x]
             IN  v \in Good /\ ClientBut(w, v, c, {"active"}) /\ v.client[c].active = x
  <2> DEFINE k == [old EXCEPT !.active = x]
             v == [w EXCEPT !.client[c] = k]
  <2>1. [w EXCEPT !.client[c].active = x] = v
    BY GoodParts
  <2>2. /\ k \in ClientState /\ k.active = x
        /\ k.pending = old.pending /\ k.running = old.running /\ k.executing = old.executing
        /\ k.sequences = old.sequences /\ k.valued = old.valued /\ k.awaited = old.awaited
        /\ k.status = old.status
    BY <1>0 DEF ClientState
  <2> HIDE DEF k
  <2>3. k.status \in HonestStatus /\ \A t \in ToSet(k.executing) : Given(w, t.id)
    BY <1>0, <1>1, <2>2
  <2>4. /\ v \in Good /\ AllBut(w, v, {"client"}) /\ v.client[c] = k
        /\ \A d \in Client \ {c} : v.client[d] = w.client[d]
    BY <2>2, <2>3, PutClient
  <2> HIDE DEF v
  <2>5. ClientBut(w, v, c, {"active"})
    BY <2>2, <2>4 DEF ClientBut, ClientsBut
  <2> QED
    BY <2>1, <2>2, <2>4, <2>5
<1>2. ASSUME NEW x \in SUBSET Name
      PROVE  LET v == [w EXCEPT !.client[c].pending = x]
             IN  v \in Good /\ ClientBut(w, v, c, {"pending"}) /\ v.client[c].pending = x
  <2> DEFINE k == [old EXCEPT !.pending = x]
             v == [w EXCEPT !.client[c] = k]
  <2>1. [w EXCEPT !.client[c].pending = x] = v
    BY GoodParts
  <2>2. /\ k \in ClientState /\ k.pending = x
        /\ k.active = old.active /\ k.running = old.running /\ k.executing = old.executing
        /\ k.sequences = old.sequences /\ k.valued = old.valued /\ k.awaited = old.awaited
        /\ k.status = old.status
    BY <1>0 DEF ClientState
  <2> HIDE DEF k
  <2>3. k.status \in HonestStatus /\ \A t \in ToSet(k.executing) : Given(w, t.id)
    BY <1>0, <1>2, <2>2
  <2>4. /\ v \in Good /\ AllBut(w, v, {"client"}) /\ v.client[c] = k
        /\ \A d \in Client \ {c} : v.client[d] = w.client[d]
    BY <2>2, <2>3, PutClient
  <2> HIDE DEF v
  <2>5. ClientBut(w, v, c, {"pending"})
    BY <2>2, <2>4 DEF ClientBut, ClientsBut
  <2> QED
    BY <2>1, <2>2, <2>4, <2>5
<1>3. ASSUME NEW x \in Seq(Component \X MeasureModel)
      PROVE  LET v == [w EXCEPT !.client[c].running = x]
             IN  v \in Good /\ ClientBut(w, v, c, {"running"}) /\ v.client[c].running = x
  <2> DEFINE k == [old EXCEPT !.running = x]
             v == [w EXCEPT !.client[c] = k]
  <2>1. [w EXCEPT !.client[c].running = x] = v
    BY GoodParts
  <2>2. /\ k \in ClientState /\ k.running = x
        /\ k.active = old.active /\ k.pending = old.pending /\ k.executing = old.executing
        /\ k.sequences = old.sequences /\ k.valued = old.valued /\ k.awaited = old.awaited
        /\ k.status = old.status
    BY <1>0 DEF ClientState
  <2> HIDE DEF k
  <2>3. k.status \in HonestStatus /\ \A t \in ToSet(k.executing) : Given(w, t.id)
    BY <1>0, <1>3, <2>2
  <2>4. /\ v \in Good /\ AllBut(w, v, {"client"}) /\ v.client[c] = k
        /\ \A d \in Client \ {c} : v.client[d] = w.client[d]
    BY <2>2, <2>3, PutClient
  <2> HIDE DEF v
  <2>5. ClientBut(w, v, c, {"running"})
    BY <2>2, <2>4 DEF ClientBut, ClientsBut
  <2> QED
    BY <2>1, <2>2, <2>4, <2>5
<1>4. ASSUME NEW x \in Seq(Task), \A t \in ToSet(x) : Given(w, t.id)
      PROVE  LET v == [w EXCEPT !.client[c].executing = x]
             IN  v \in Good /\ ClientBut(w, v, c, {"executing"}) /\ v.client[c].executing = x
  <2> DEFINE k == [old EXCEPT !.executing = x]
             v == [w EXCEPT !.client[c] = k]
  <2>1. [w EXCEPT !.client[c].executing = x] = v
    BY GoodParts
  <2>2. /\ k \in ClientState /\ k.executing = x
        /\ k.active = old.active /\ k.pending = old.pending /\ k.running = old.running
        /\ k.sequences = old.sequences /\ k.valued = old.valued /\ k.awaited = old.awaited
        /\ k.status = old.status
    BY <1>0 DEF ClientState
  <2> HIDE DEF k
  <2>3. k.status \in HonestStatus /\ \A t \in ToSet(k.executing) : Given(w, t.id)
    BY <1>0, <1>4, <2>2
  <2>4. /\ v \in Good /\ AllBut(w, v, {"client"}) /\ v.client[c] = k
        /\ \A d \in Client \ {c} : v.client[d] = w.client[d]
    BY <2>2, <2>3, PutClient
  <2> HIDE DEF v
  <2>5. ClientBut(w, v, c, {"executing"})
    BY <2>2, <2>4 DEF ClientBut, ClientsBut
  <2> QED
    BY <2>1, <2>2, <2>4, <2>5
<1>5. ASSUME NEW x \in SUBSET Component
      PROVE  LET v == [w EXCEPT !.client[c].awaited = x]
             IN  v \in Good /\ ClientBut(w, v, c, {"awaited"}) /\ v.client[c].awaited = x
  BY <1>5, PutAwaited
<1>6. ASSUME NEW x \in HonestStatus
      PROVE  LET v == [w EXCEPT !.client[c].status = x]
             IN  v \in Good /\ ClientBut(w, v, c, {"status"}) /\ v.client[c].status = x
  <2> DEFINE k == [old EXCEPT !.status = x]
             v == [w EXCEPT !.client[c] = k]
  <2>1. [w EXCEPT !.client[c].status = x] = v
    BY GoodParts
  <2>2. /\ k \in ClientState /\ k.status = x
        /\ k.active = old.active /\ k.pending = old.pending /\ k.running = old.running
        /\ k.executing = old.executing
        /\ k.sequences = old.sequences /\ k.valued = old.valued /\ k.awaited = old.awaited
    BY <1>0 DEF HonestStatus, ClientState
  <2> HIDE DEF k
  <2>3. k.status \in HonestStatus /\ \A t \in ToSet(k.executing) : Given(w, t.id)
    BY <1>0, <1>6, <2>2
  <2>4. /\ v \in Good /\ AllBut(w, v, {"client"}) /\ v.client[c] = k
        /\ \A d \in Client \ {c} : v.client[d] = w.client[d]
    BY <2>2, <2>3, PutClient
  <2> HIDE DEF v
  <2>5. ClientBut(w, v, c, {"status"})
    BY <2>2, <2>4 DEF ClientBut, ClientsBut
  <2> QED
    BY <2>1, <2>2, <2>4, <2>5
<1> QED
  BY <1>1, <1>2, <1>3, <1>4, <1>5, <1>6

-----------------------------------------------------------------------------
(* What the operations on the module do *)

LEMMA Meeting ==
  ASSUME NEW w \in Good, NEW x \in Circumstance
  PROVE  /\ meet(w, x) \in Good /\ AllBut(w, meet(w, x), {"met"})
         /\ meet(w, x).met = w.met \cup {x}
         /\ \A condition :
              LET v == meetIf(w, condition, x)
              IN  /\ v \in Good /\ AllBut(w, v, {"met"}) /\ w.met \subseteq v.met
                  /\ condition => x \in v.met
                  /\ v.met \subseteq w.met \cup {x}
<1>1. w.met \cup {x} \in SUBSET Circumstance
  BY GoodParts
<1>2. meet(w, x) \in Good /\ AllBut(w, meet(w, x), {"met"}) /\ meet(w, x).met = w.met \cup {x}
  BY <1>1, Put DEF meet
<1>3. AllBut(w, w, {"met"})
  BY DEF AllBut
<1> QED
  BY <1>2, <1>3 DEF meetIf

LEMMA Posting ==
  ASSUME NEW w \in Good, NEW e \in Event
  PROVE  LET v == post(w, e)
         IN  /\ v \in Good /\ AllBut(w, v, {"posted"}) /\ v.posted = Append(w.posted, e)
<1>1. Append(w.posted, e) \in Seq(Event)
  BY GoodParts, Appended
<1> QED
  BY <1>1, Put DEF post

\* Queries keep their client; what they stand for changes to one of the fates F, or an answer
\* is dropped where that is known.
Finished(w, v, F) ==
  /\ v \in Good /\ AllBut(w, v, {"query", "delayed", "met"})
  /\ Len(v.query) = Len(w.query)
  /\ w.met \subseteq v.met
  /\ \A i \in DOMAIN w.query :
       /\ v.query[i].client = w.query[i].client
       /\ \/ v.query[i].fate \in {w.query[i].fate} \cup F
          \/ v.query[i].fate = "dropped" /\ "drop" \in v.met

\* An answer is written when all queries before it are settled, and these remain so.
InOrder(w, v) ==
  /\ Len(w.query) <= Len(v.query)
  /\ \A i \in DOMAIN w.query : v.query[i].client = w.query[i].client
  /\ settled(w) \subseteq settled(v)
  /\ \A i \in written(v) \ written(w) : \A j \in 1..(i - 1) :
       v.query[j].client = v.query[i].client => j \in settled(v)

LEMMA InOrderTransitive ==
  ASSUME NEW u \in Good, NEW v \in Good, NEW w \in Good, InOrder(u, v), InOrder(v, w)
  PROVE  InOrder(u, w)
<1>1. /\ Len(u.query) \in Nat /\ DOMAIN u.query = 1..Len(u.query)
      /\ Len(v.query) \in Nat /\ DOMAIN v.query = 1..Len(v.query)
      /\ Len(w.query) \in Nat /\ DOMAIN w.query = 1..Len(w.query)
  BY GoodParts
<1>2. \A i \in DOMAIN u.query : i \in DOMAIN v.query /\ w.query[i].client = u.query[i].client
  BY <1>1 DEF InOrder
<1>3. ASSUME NEW i \in written(w) \ written(u), NEW j \in 1..(i - 1),
             w.query[j].client = w.query[i].client
      PROVE  j \in settled(w)
  <2>1. CASE i \in written(v)
    <3>1. i \in DOMAIN v.query
      BY <2>1 DEF written, settled
    <3>2. j \in DOMAIN v.query
      BY <1>1, <3>1
    <3>3. v.query[j].client = v.query[i].client
      BY <1>3, <3>1, <3>2 DEF InOrder
    <3>4. i \in written(v) \ written(u)
      BY <1>3, <2>1
    <3>5. j \in settled(v)
      BY <1>3, <3>3, <3>4, Zenon DEF InOrder
    <3> QED
      BY <3>5 DEF InOrder
  <2>2. CASE i \notin written(v)
    BY <1>3, <2>2, Zenon DEF InOrder
  <2> QED
    BY <2>1, <2>2
<1> QED
  BY <1>1, <1>2, <1>3 DEF InOrder

\* createAccumulatedResponse writes what is due.
LEMMA Accumulated ==
  ASSUME NEW w \in Good, NEW c \in Client
  PROVE  LET v == createAccumulatedResponse(w, c)
         IN  Finished(w, v, {}) /\ InOrder(w, v)
<1> DEFINE due == {i \in heldBack(w, c) : \A j \in undecided(w, c) : i < j}
           dropped == {i \in due : /\ c \in Serial /\ w.query[i].fate # "failed"
                                   /\ \E j \in due : j < i /\ w.query[j].fate = "failed"}
           delayed == w.delayed \ due
           query == [i \in DOMAIN w.query |->
                       IF i \in dropped THEN [w.query[i] EXCEPT !.fate = "dropped"] ELSE w.query[i]]
           x == [w EXCEPT !.delayed = delayed]
           y == [x EXCEPT !.query = query]
           v == meetIf(y, dropped # {}, "drop")
<1>1. createAccumulatedResponse(w, c) = v
  BY GoodParts DEF createAccumulatedResponse
<1>2. /\ due \subseteq w.delayed /\ w.delayed \subseteq DOMAIN w.query
      /\ \A i \in due : w.query[i].client = c /\ \A j \in undecided(w, c) : i < j
      /\ \A i \in w.delayed : w.query[i].client = c /\ (\A j \in undecided(w, c) : i < j) => i \in due
      /\ dropped \subseteq due
  BY GoodParts DEF heldBack
<1> HIDE DEF due, dropped
<1>3. x \in Good /\ AllBut(w, x, {"delayed"}) /\ x.delayed = delayed
  <2>1. delayed \in SUBSET (DOMAIN w.query)
    BY <1>2
  <2> QED
    BY <2>1, Put, ZenonT(30)
<1> HIDE DEF x
<1>4. /\ query \in Seq([client : Client, fate : Fate]) /\ Len(query) = Len(w.query)
      /\ DOMAIN query = DOMAIN w.query
      /\ \A i \in DOMAIN w.query :
           /\ query[i].client = w.query[i].client
           /\ query[i].fate = IF i \in dropped THEN "dropped" ELSE w.query[i].fate
  <2> DEFINE n == Len(w.query)
  <2>1. n \in Nat /\ DOMAIN w.query = 1..n /\ \A i \in 1..n : w.query[i] \in [client : Client, fate : Fate]
    BY GoodParts, ElementOfSeq
  <2>2. query \in [1..n -> [client : Client, fate : Fate]]
    BY <2>1 DEF Fate
  <2>3. \A i \in 1..n : /\ query[i].client = w.query[i].client
                        /\ query[i].fate = IF i \in dropped THEN "dropped" ELSE w.query[i].fate
    BY <2>1
  <2> HIDE DEF query, n
  <2>4. query \in Seq([client : Client, fate : Fate]) /\ Len(query) = n /\ DOMAIN query = 1..n
    BY <2>1, <2>2, SequenceOf
  <2> QED
    BY <2>1, <2>3, <2>4 DEF n
<1> HIDE DEF query
<1>5. y \in Good /\ AllBut(x, y, {"query"}) /\ y.query = query
  <2>1. Len(query) >= Len(x.query)
    BY <1>3, <1>4, GoodParts DEF AllBut
  <2> QED
    BY <1>3, <1>4, <2>1, Put, ZenonT(30)
<1> HIDE DEF y
<1>6. /\ v \in Good /\ AllBut(y, v, {"met"}) /\ y.met \subseteq v.met
      /\ dropped # {} => "drop" \in v.met
  BY <1>5, Meeting DEF Circumstance
<1> HIDE DEF v
<1>7. /\ AllBut(w, v, {"query", "delayed", "met"}) /\ w.met \subseteq v.met
      /\ v.query = query /\ v.delayed = w.delayed \ due
  BY <1>3, <1>5, <1>6 DEF AllBut
<1>8. Finished(w, v, {})
  BY <1>4, <1>6, <1>7 DEF Finished
<1>9. settled(w) \subseteq settled(v)
  <2> SUFFICES ASSUME NEW i \in settled(w)
               PROVE  i \in settled(v)
    OBVIOUS
  <2>1. i \in DOMAIN w.query /\ w.query[i].fate # "open" /\ i \notin w.delayed
    BY DEF settled
  <2>2. v.query[i].fate # "open" /\ i \notin v.delayed /\ i \in DOMAIN v.query
    BY <1>4, <1>7, <2>1
  <2> QED
    BY <2>2 DEF settled
<1>10. ASSUME NEW i \in written(v) \ written(w), NEW j \in 1..(i - 1),
              v.query[j].client = v.query[i].client
       PROVE  j \in settled(v)
  <2>1. /\ i \in DOMAIN w.query /\ i \notin v.delayed
        /\ v.query[i].fate \in {"answered", "partly", "torn", "stale"}
    BY <1>4, <1>7 DEF written, settled
  <2>2. w.query[i].fate = v.query[i].fate
    BY <1>4, <1>7, <2>1
  <2>3. i \in due
    BY <1>7, <2>1, <2>2 DEF written, settled
  <2>4. j \in DOMAIN w.query /\ j < i /\ w.query[j].client = c
    <3>1. j \in DOMAIN w.query /\ j < i /\ i \in Nat /\ j \in Nat
      BY <2>1, GoodParts
    <3> QED
      BY <1>2, <1>4, <1>7, <1>10, <2>1, <2>3, <3>1
  <2>5. j \notin undecided(w, c) /\ \A k \in undecided(w, c) : j < k
    <3>1. \A k \in undecided(w, c) : i < k /\ k \in Nat
      BY <1>2, <2>3, GoodParts DEF undecided
    <3>2. \A k \in undecided(w, c) : j < k
      BY <3>1, <2>1, <2>4, GoodParts
    <3>3. ~(j < j)
      BY <2>4, GoodParts
    <3> QED
      BY <3>2, <3>3
  <2>6. w.query[j].fate # "open"
    BY <2>4, <2>5 DEF undecided
  <2>7. j \notin v.delayed
    BY <1>2, <1>7, <2>4, <2>5
  <2>8. v.query[j].fate # "open" /\ j \in DOMAIN v.query
    BY <1>4, <1>7, <2>4, <2>6
  <2> QED
    BY <2>7, <2>8 DEF settled
<1>11. InOrder(w, v)
  <2>1. Len(w.query) <= Len(v.query) /\ \A i \in DOMAIN w.query : v.query[i].client = w.query[i].client
    BY <1>4, <1>7, GoodParts
  <2> QED
    BY <1>9, <1>10, <2>1 DEF InOrder
<1> QED
  BY <1>1, <1>8, <1>11

\* handleCmdFinish: the query ends, and its answer is written at once or when it is due.
LEMMA Finishing ==
  ASSUME NEW w \in Good, NEW c \in Client, NEW id, NEW answer \in Fate \ {"open"}
  PROVE  LET v == handleCmdFinish(w, c, id, answer)
         IN  Finished(w, v, {answer}) /\ (sorting => InOrder(w, v))
<1>1. CASE id = 0 \/ id \notin undecided(w, c)
  <2>1. handleCmdFinish(w, c, id, answer) = w
    BY <1>1 DEF handleCmdFinish
  <2>2. AllBut(w, w, {"query", "delayed", "met"})
    BY DEF AllBut
  <2>3. Finished(w, w, {answer})
    BY <2>2 DEF Finished
  <2>4. InOrder(w, w)
    BY GoodParts DEF InOrder
  <2> QED
    BY <2>1, <2>3, <2>4
<1>2. CASE id # 0 /\ id \in undecided(w, c)
  <2> DEFINE x == [w.query[id] EXCEPT !.fate = answer]
             query == [w.query EXCEPT ![id] = x]
             taken == [w EXCEPT !.query = query]
             delayed == taken.delayed \cup {id}
             held == [taken EXCEPT !.delayed = delayed]
             v == IF sorting THEN createAccumulatedResponse(held, c) ELSE taken
  <2>1. handleCmdFinish(w, c, id, answer) = v
    BY <1>2, GoodParts DEF handleCmdFinish, undecided
  <2>2. /\ id \in DOMAIN w.query /\ w.query[id].client = c /\ w.query[id].fate = "open"
        /\ id \in 1..Len(w.query) /\ w.query[id] \in [client : Client, fate : Fate]
    <3>1. id \in 1..Len(w.query)
      BY <1>2, GoodParts DEF undecided
    <3> QED
      BY <1>2, <3>1, GoodParts, ElementOfSeq DEF undecided
  <2>3. x \in [client : Client, fate : Fate] /\ x.client = c /\ x.fate = answer
    BY <2>2
  <2> HIDE DEF x
  <2>4. /\ query \in Seq([client : Client, fate : Fate]) /\ Len(query) = Len(w.query)
        /\ \A j \in 1..Len(w.query) : query[j] = IF j = id THEN x ELSE w.query[j]
    <3>1. w.query \in Seq([client : Client, fate : Fate])
      BY GoodParts
    <3> QED
      BY <2>2, <2>3, <3>1, ExceptSeq
  <2> HIDE DEF query
  <2>5. taken \in Good /\ AllBut(w, taken, {"query"}) /\ taken.query = query
    <3>1. Len(query) >= Len(w.query)
      BY <2>4, GoodParts
    <3> QED
      BY <2>4, <3>1, Put
  <2> HIDE DEF taken
  <2>6. DOMAIN taken.query = DOMAIN w.query /\ DOMAIN w.query = 1..Len(w.query)
    BY <2>4, <2>5, GoodParts
  <2>7. held \in Good /\ AllBut(taken, held, {"delayed"}) /\ held.delayed = w.delayed \cup {id}
    <3>0. taken.delayed = w.delayed
      BY <2>5 DEF AllBut
    <3>1. delayed \in SUBSET (DOMAIN taken.query) /\ delayed = w.delayed \cup {id}
      BY <2>2, <2>6, <3>0, GoodParts
    <3> HIDE DEF delayed
    <3>2. taken \in Good /\ delayed \in SUBSET (DOMAIN taken.query)
      BY <2>5, <3>1
    <3>3. held \in Good /\ AllBut(taken, held, {"delayed"}) /\ held.delayed = delayed
      BY <3>2, Put, ZenonT(30)
    <3> QED
      BY <3>1, <3>3
  <2> HIDE DEF held
  <2>8. held.query = query /\ AllBut(w, held, {"query", "delayed"})
    BY <2>5, <2>7 DEF AllBut
  <2>9. settled(held) = settled(w) /\ written(held) \subseteq written(w)
    BY <2>2, <2>3, <2>4, <2>6, <2>7, <2>8, <2>5 DEF settled, written
  <2>10. \A j \in DOMAIN w.query : /\ query[j].client = w.query[j].client
                                   /\ query[j].fate \in {w.query[j].fate, answer}
    BY <2>2, <2>3, <2>4, <2>6
  <2>11. CASE sorting
    <3> DEFINE u == createAccumulatedResponse(held, c)
    <3>1. Finished(held, u, {}) /\ InOrder(held, u)
      BY <2>7, Accumulated
    <3> HIDE DEF u
    <3>2. Finished(w, u, {answer})
      <4>1. u \in Good /\ AllBut(w, u, {"query", "delayed", "met"}) /\ w.met \subseteq u.met
        BY <2>8, <3>1 DEF Finished, AllBut
      <4>2. Len(u.query) = Len(w.query)
        BY <2>4, <2>8, <3>1 DEF Finished
      <4>3. ASSUME NEW i \in DOMAIN w.query
            PROVE  /\ u.query[i].client = w.query[i].client
                   /\ \/ u.query[i].fate \in {w.query[i].fate} \cup {answer}
                      \/ u.query[i].fate = "dropped" /\ "drop" \in u.met
        BY <2>5, <2>6, <2>8, <2>10, <3>1 DEF Finished
      <4> QED
        BY <4>1, <4>2, <4>3 DEF Finished
    <3>3. InOrder(w, u)
      <4>1. Len(w.query) <= Len(u.query)
        BY <2>4, <2>8, <3>1 DEF InOrder
      <4>2. \A i \in DOMAIN w.query : u.query[i].client = w.query[i].client
        BY <3>2 DEF Finished
      <4>3. settled(w) \subseteq settled(u)
        BY <2>9, <3>1 DEF InOrder
      <4>4. \A i \in written(u) \ written(w) : \A j \in 1..(i - 1) :
              u.query[j].client = u.query[i].client => j \in settled(u)
        BY <2>9, <3>1 DEF InOrder
      <4> QED
        BY <4>1, <4>2, <4>3, <4>4 DEF InOrder
    <3> QED
      BY <2>1, <2>11, <3>2, <3>3 DEF u
  <2>12. CASE ~sorting
    <3>1. AllBut(w, taken, {"query", "delayed", "met"}) /\ taken.met = w.met
      BY <2>5 DEF AllBut
    <3>2. Finished(w, taken, {answer})
      BY <2>4, <2>5, <2>10, <3>1 DEF Finished
    <3> QED
      BY <2>1, <2>12, <3>2
  <2> QED
    BY <2>11, <2>12
<1> QED
  BY <1>1, <1>2

\* An error in the queue of the client, and the null answer to its query
LEMMA Failing ==
  ASSUME NEW w \in Good, NEW c \in Client, NEW id
  PROVE  \E u \in Good :
           /\ ClientBut(w, u, c, {"status"})
           /\ addEventErrorWithResponse(w, c, id) = handleCmdFinish(u, c, id, "failed")
<1> DEFINE st == addEventError(w.client[c].status)
           u == [w EXCEPT !.client[c].status = st]
<1>1. st \in HonestStatus
  BY GoodParts, ErrorQueue
<1>2. addEventErrorWithResponse(w, c, id) = handleCmdFinish(u, c, id, "failed")
  BY GoodParts DEF addEventErrorWithResponse
<1> HIDE DEF st
<1>3. u \in Good /\ ClientBut(w, u, c, {"status"})
  BY <1>1, PutPart
<1> QED
  BY <1>2, <1>3

LEMMA Commands ==
  ASSUME NEW cmd \in Command
  PROVE  /\ cmd.query \in BOOLEAN
         /\ cmd.kind = "parameter" => /\ cmd.target \in Target \ Rpc /\ cmd.value \in WrittenValue
                                      /\ NameOf[cmd.target] \in Name
                                      /\ cmd.target \notin Future => cmd.target \in Parameter
         /\ cmd.kind = "rpc" => /\ cmd.target \in Rpc /\ cmd.target \in Target
                                /\ cmd.params \in {"right", "none", "wrong"}
                                /\ NameOf[cmd.target] \in Name
         /\ cmd.kind = "measure" => cmd.node \in Node
<1>1. wellFormed(cmd) /\ Rpc \subseteq Target
  BY ScpiAssumption
<1> QED
  BY <1>1 DEF wellFormed, WrittenValue, Name, Parameter, Node

LEMMA Nodes ==
  ASSUME NEW node \in Node
  PROVE  /\ node.model \in MeasureModel
         /\ node.components \in Seq(Component) /\ IsInjective(node.components)
<1>1. PICK cmd \in Command : cmd.kind = "measure" /\ node = cmd.node
  BY DEF Node
<1>2. wellFormed(cmd)
  BY ScpiAssumption
<1> QED
  BY <1>1, <1>2 DEF wellFormed

\* A query gets the next id.
issued(w, c) == [w EXCEPT !.query = Append(@, [client |-> c, fate |-> "open"])]

LEMMA Issuing ==
  ASSUME NEW w \in Good, NEW c \in Client
  PROVE  LET v == issued(w, c)
         IN  /\ v \in Good /\ AllBut(w, v, {"query"})
             /\ Len(v.query) = Len(w.query) + 1 /\ DOMAIN v.query = 1..(Len(w.query) + 1)
             /\ \A i \in DOMAIN w.query : v.query[i] = w.query[i]
             /\ v.query[Len(w.query) + 1] = [client |-> c, fate |-> "open"]
             /\ Given(v, Len(w.query) + 1)
             /\ \A id : Given(w, id) => Given(v, id)
<1> DEFINE q == [client |-> c, fate |-> "open"]
           query == Append(w.query, q)
           v == [w EXCEPT !.query = query]
<1>1. q \in [client : Client, fate : Fate]
  BY DEF Fate
<1> HIDE DEF q
<1>2. /\ query \in Seq([client : Client, fate : Fate]) /\ Len(query) = Len(w.query) + 1
      /\ DOMAIN query = 1..(Len(w.query) + 1)
      /\ \A i \in 1..Len(w.query) : query[i] = w.query[i]
      /\ query[Len(w.query) + 1] = q
  <2>1. w.query \in Seq([client : Client, fate : Fate])
    BY GoodParts
  <2> QED
    BY <1>1, <2>1, Appended
<1> HIDE DEF query
<1>3. v \in Good /\ AllBut(w, v, {"query"}) /\ v.query = query
  <2>1. Len(query) >= Len(w.query)
    BY <1>2, GoodParts
  <2> QED
    BY <1>2, <2>1, Put
<1>4. issued(w, c) = v
  BY DEF issued, query, q
<1> HIDE DEF v
<1>5. Given(v, Len(w.query) + 1) /\ \A id : Given(w, id) => Given(v, id)
  BY <1>2, <1>3, GoodParts DEF Given
<1> QED
  BY <1>2, <1>3, <1>4, <1>5, GoodParts DEF q

\* addTransaction
LEMMA Adding ==
  ASSUME NEW w \in Good, NEW c \in Client, NEW target \in Target, NEW id, Given(w, id)
  PROVE  LET v == addTransaction(w, c, target, id)
         IN  /\ v \in Good /\ AllBut(w, v, {"store", "client", "met"})
             /\ v.store = <<[client |-> c, target |-> target, id |-> id]>> \o w.store
             /\ ClientsBut(w, v, c, {"pending"})
             /\ v.client[c].pending = w.client[c].pending \cup {NameOf[target]}
             /\ w.met \subseteq v.met
             /\ NameOf[target] \in w.client[c].pending => "repeat" \in v.met
<1> DEFINE info == [client |-> c, target |-> target, id |-> id]
           store == <<info>> \o w.store
           pending == w.client[c].pending \cup {NameOf[target]}
           x == meetIf(w, NameOf[target] \in w.client[c].pending, "repeat")
           y == [x EXCEPT !.store = store]
           v == [y EXCEPT !.client[c].pending = pending]
<1>1. /\ x \in Good /\ AllBut(w, x, {"met"}) /\ w.met \subseteq x.met
      /\ NameOf[target] \in w.client[c].pending => "repeat" \in x.met
  BY Meeting DEF Circumstance
<1>2. x.store = w.store /\ x.client = w.client
  BY <1>1 DEF AllBut
<1>3. addTransaction(w, c, target, id) = v
  <2> HIDE DEF x
  <2>1. [x EXCEPT !.store = <<info>> \o @, !.client[c].pending = @ \cup {NameOf[target]}]
          = [[x EXCEPT !.store = <<info>> \o x.store]
               EXCEPT !.client[c].pending = x.client[c].pending \cup {NameOf[target]}]
    BY <1>1 DEF Good, World
  <2>2. v = [[x EXCEPT !.store = <<info>> \o x.store]
               EXCEPT !.client[c].pending = x.client[c].pending \cup {NameOf[target]}]
    BY <1>2
  <2> QED
    BY <2>1, <2>2 DEF addTransaction, x
<1> HIDE DEF x
<1>4. info \in Transaction /\ info.id = id
  BY GoodParts DEF Transaction, Given
<1> HIDE DEF info
<1>5. store \in Seq(Transaction) /\ ToSet(store) = ToSet(w.store) \cup {info}
  BY <1>4, GoodParts, Prepended
<1> HIDE DEF store
<1>6. \A i \in ToSet(store) : Given(x, i.id)
  BY <1>1, <1>4, <1>5, GoodParts DEF Given, AllBut
<1>7. y \in Good /\ AllBut(x, y, {"store"}) /\ y.store = store
  BY <1>1, <1>5, <1>6, Put
<1> HIDE DEF y
<1>8. y.client = w.client
  BY <1>2, <1>7 DEF AllBut
<1>9. pending \in SUBSET Name
  BY GoodParts DEF ClientState, Name
<1> HIDE DEF pending
<1>10. v \in Good /\ ClientBut(y, v, c, {"pending"}) /\ v.client[c].pending = pending
  <2>1. y \in Good
    BY <1>7
  <2> QED
    BY <1>9, <2>1, PutPart, SMTT(30)
<1> HIDE DEF v
<1>11. AllBut(w, v, {"store", "client", "met"}) /\ v.store = store /\ w.met \subseteq v.met
  BY <1>1, <1>7, <1>10 DEF AllBut, ClientBut
<1>12. v.met = x.met
  BY <1>7, <1>10 DEF AllBut, ClientBut
<1>13. ClientsBut(w, v, c, {"pending"})
  BY <1>8, <1>10 DEF ClientsBut, ClientBut
<1> QED
  BY <1>1, <1>3, <1>10, <1>11, <1>12, <1>13 DEF info, store, pending

\* A parameter the module knows is sent as a transaction.
ParamOK == param \in [Parameter -> [value : ParamValue, stored : ParamValue,
                                    clients : Seq(Client \cup {Gone}), work : Seq(ParamValue)]]

LEMMA Sending ==
  ASSUME NEW w \in Good, NEW c \in Client, NEW cmd \in Command, cmd.kind = "parameter",
         cmd.target \notin Future, NEW id, Given(w, id), ParamOK
  PROVE  LET v == executeParameter(w, c, cmd, id)
         IN  /\ v \in Good /\ AllBut(w, v, {"store", "client", "posted", "met"})
             /\ v.store = <<[client |-> c, target |-> cmd.target, id |-> id]>> \o w.store
             /\ ClientsBut(w, v, c, {"pending"})
             /\ v.client[c].pending = w.client[c].pending \cup {NameOf[cmd.target]}
             /\ \E e \in Event : e.call = "transaction" /\ v.posted = Append(w.posted, e)
             /\ w.met \subseteq v.met
             /\ NameOf[cmd.target] \in w.client[c].pending => "repeat" \in v.met
<1> DEFINE x == addTransaction(w, c, cmd.target, id)
           e == [call |-> "transaction", client |-> c, target |-> cmd.target, query |-> cmd.query,
                 old |-> param[cmd.target].stored, new |-> cmd.value]
<1>1. executeParameter(w, c, cmd, id) = post(x, e)
  BY DEF executeParameter
<1>2. /\ x \in Good /\ AllBut(w, x, {"store", "client", "met"})
      /\ x.store = <<[client |-> c, target |-> cmd.target, id |-> id]>> \o w.store
      /\ ClientsBut(w, x, c, {"pending"})
      /\ x.client[c].pending = w.client[c].pending \cup {NameOf[cmd.target]}
      /\ w.met \subseteq x.met
      /\ NameOf[cmd.target] \in w.client[c].pending => "repeat" \in x.met
  BY Commands, Adding
<1> HIDE DEF x
<1>3. e \in Event /\ e.call = "transaction"
  <2>1. cmd.target \in Parameter /\ cmd.query \in BOOLEAN /\ cmd.value \in WrittenValue
    BY Commands
  <2>2. param[cmd.target].stored \in ParamValue
    BY <2>1 DEF ParamOK
  <2> QED
    BY <2>1, <2>2 DEF Event
<1> HIDE DEF e
<1>4. post(x, e) \in Good /\ AllBut(x, post(x, e), {"posted"}) /\ post(x, e).posted = Append(x.posted, e)
  <2>1. x \in Good /\ e \in Event
    BY <1>2, <1>3
  <2> QED
    BY <2>1, Posting
<1> DEFINE v == post(x, e)
<1> HIDE DEF v
<1>5. v \in Good /\ AllBut(x, v, {"posted"}) /\ v.posted = Append(x.posted, e)
  BY <1>4 DEF v
<1>6. AllBut(w, v, {"store", "client", "posted", "met"}) /\ x.posted = w.posted
  BY <1>2, <1>5 DEF AllBut
<1>7. v.store = x.store /\ v.client = x.client /\ v.met = x.met
  BY <1>5 DEF AllBut
<1>8. ClientsBut(w, v, c, {"pending"})
  BY <1>2, <1>7 DEF ClientsBut
<1>9. executeParameter(w, c, cmd, id) = v
  BY <1>1 DEF v
<1> QED
  BY <1>2, <1>3, <1>5, <1>6, <1>7, <1>8, <1>9

\* An RPC is called; with parameters it is a transaction.
LEMMA Invoking ==
  ASSUME NEW w \in Good, NEW c \in Client, NEW cmd \in Command, cmd.kind = "rpc",
         NEW id, Given(w, id)
  PROVE  LET v == executeScpiRpc(w, c, cmd, id)
             info == [client |-> c, target |-> cmd.target, id |-> id]
         IN  /\ v \in Good /\ w.met \subseteq v.met
             /\ \/ /\ AllBut(w, v, {"store", "rpcs", "client", "met"})
                   /\ v.store = <<info>> \o w.store
                   /\ v.rpcs = Append(w.rpcs, info)
                   /\ ClientsBut(w, v, c, {"pending"})
                   /\ v.client[c].pending = w.client[c].pending \cup {NameOf[cmd.target]}
                   /\ NameOf[cmd.target] \in w.client[c].pending => "repeat" \in v.met
                \/ AllBut(w, v, {"rpcs", "met"}) /\ "bare" \in v.met
                \/ AllBut(w, v, {"met"})
<1> DEFINE info == [client |-> c, target |-> cmd.target, id |-> id]
           rpcs == Append(w.rpcs, info)
           x == [w EXCEPT !.rpcs = rpcs]
           v == executeScpiRpc(w, c, cmd, id)
<1>0. cmd.target \in Target /\ cmd.params \in {"right", "none", "wrong"}
  BY Commands
<1>1. info \in Transaction /\ info.id = id
  BY <1>0, GoodParts DEF Transaction, Given
<1> HIDE DEF info
<1>2. rpcs \in Seq(Transaction) /\ ToSet(rpcs) = ToSet(w.rpcs) \cup {info}
  <2>1. w.rpcs \in Seq(Transaction)
    BY GoodParts
  <2> QED
    BY <1>1, <2>1, Appended
<1>3. /\ cmd.params = "right" => v = addTransaction(x, c, cmd.target, id)
      /\ cmd.params = "none" => v = meet(x, "bare")
      /\ cmd.params = "wrong" => v = meetIf(w, isQuery(cmd), "miscount")
  BY <1>0 DEF executeScpiRpc, info
<1> HIDE DEF v
<1> DEFINE r == rpcs
<1> HIDE DEF r
<1>4. x \in Good /\ AllBut(w, x, {"rpcs"}) /\ x.rpcs = Append(w.rpcs, info)
  <2>1. \A i \in ToSet(rpcs) : Given(w, i.id)
    BY <1>1, <1>2, GoodParts
  <2> HIDE DEF rpcs
  <2>2. x \in Good /\ AllBut(w, x, {"rpcs"}) /\ x.rpcs = rpcs
    BY <1>2, <2>1, Put
  <2> QED
    BY <2>2 DEF rpcs
<1> HIDE DEF x, rpcs
<1>5. CASE cmd.params = "right"
  <2>1. Given(x, id)
    BY <1>4 DEF Given, AllBut
  <2>2. /\ v \in Good /\ AllBut(x, v, {"store", "client", "met"})
        /\ v.store = <<[client |-> c, target |-> cmd.target, id |-> id]>> \o x.store
        /\ ClientsBut(x, v, c, {"pending"})
        /\ v.client[c].pending = x.client[c].pending \cup {NameOf[cmd.target]}
        /\ x.met \subseteq v.met
        /\ NameOf[cmd.target] \in x.client[c].pending => "repeat" \in v.met
    <3>1. x \in Good /\ v = addTransaction(x, c, cmd.target, id)
      BY <1>3, <1>4, <1>5
    <3> QED
      BY <1>0, <2>1, <3>1, Adding
  <2>3. x.store = w.store /\ x.client = w.client /\ x.met = w.met
    BY <1>4 DEF AllBut
  <2>4. AllBut(w, v, {"store", "rpcs", "client", "met"}) /\ v.rpcs = x.rpcs
    BY <1>4, <2>2 DEF AllBut
  <2>5. ClientsBut(w, v, c, {"pending"})
    BY <2>2, <2>3 DEF ClientsBut
  <2> QED
    BY <1>4, <2>2, <2>3, <2>4, <2>5 DEF v, info
<1>6. CASE cmd.params = "none"
  <2>1. v \in Good /\ AllBut(x, v, {"met"}) /\ v.met = x.met \cup {"bare"}
    BY <1>3, <1>4, <1>6, Meeting DEF Circumstance
  <2>2. AllBut(w, v, {"rpcs", "met"}) /\ w.met \subseteq v.met
    BY <1>4, <2>1 DEF AllBut
  <2> QED
    BY <2>1, <2>2 DEF v, info
<1>7. CASE cmd.params = "wrong"
  <2>1. v \in Good /\ AllBut(w, v, {"met"}) /\ w.met \subseteq v.met
    BY <1>3, <1>7, Meeting DEF Circumstance
  <2> QED
    BY <2>1 DEF v, info
<1> QED
  BY <1>0, <1>5, <1>6, <1>7

\* The start of a machine is queued, or not when it is already or the machine runs.
LEMMA Starting ==
  ASSUME NEW w \in Good, NEW c \in Client, NEW comp \in Component, NEW model \in MeasureModel
  PROVE  /\ start(c, comp, model) \in Event
         /\ startSequence(w, c, comp, model) \in {w, post(w, start(c, comp, model))}
  BY DEF start, Event, startSequence

-----------------------------------------------------------------------------
(* Measuring, for what does not depend on it *)

\* W does not care about machines and tasks of c, starts, answers to c and circumstances.
Unmeasured(W, c) ==
  \A w \in W :
    /\ \A x \in SUBSET Component : /\ [w EXCEPT !.client[c].sequences = x] \in W
                                  /\ [w EXCEPT !.client[c].valued = x] \in W
                                  /\ [w EXCEPT !.client[c].awaited = x] \in W
    /\ \A x \in Seq(Task) :
         (\A t \in ToSet(x) : Given(w, t.id)) => [w EXCEPT !.client[c].executing = x] \in W
    /\ \A x \in Seq(Component \X MeasureModel) : [w EXCEPT !.client[c].running = x] \in W
    /\ \A x \in Circumstance : meet(w, x) \in W
    /\ \A comp \in Component, model \in MeasureModel : post(w, start(c, comp, model)) \in W
    /\ \A id : \A answer \in Fate \ {"open"} : handleCmdFinish(w, c, id, answer) \in W

\* Sequences that are not there yet
LEMMA Sequences ==
  ASSUME NEW w \in Good, NEW c \in Client, NEW node \in Node
  PROVE  LET known == getComponentSequences(w, c, node)
             x == w.client[c].sequences \cup ToSet(node.components)
         IN  /\ x \in SUBSET Component /\ known = [w EXCEPT !.client[c].sequences = x]
             /\ known \in Good /\ ClientBut(w, known, c, {"sequences"})
             /\ known.client[c].sequences = x
<1> DEFINE x == w.client[c].sequences \cup ToSet(node.components)
<1>1. \A comp \in ToSet(node.components) : comp \in Component
  BY Nodes, LenProperties DEF ToSet
<1>2. x \in SUBSET Component
  BY <1>1, GoodParts DEF ClientState
<1>3. getComponentSequences(w, c, node) = [w EXCEPT !.client[c].sequences = x]
  BY DEF getComponentSequences
<1> HIDE DEF x
<1> QED
  BY <1>2, <1>3, PutSequences DEF x

LEMMA NewTask ==
  ASSUME NEW w \in Good, NEW c \in Client, NEW node \in Node, NEW id, Given(w, id)
  PROVE  newTask(w.client[c], node, id) \in Task
<1>1. \A comp \in ToSet(node.components) : comp \in Component
  BY Nodes, LenProperties DEF ToSet
<1>2. w.client[c].awaited \in SUBSET Component /\ id \in Nat /\ <<>> \in Seq(Component)
  BY GoodParts, EmptySeq DEF ClientState, Given
<1> QED
  BY <1>1, <1>2 DEF newTask, Task

LEMMA Measuring ==
  ASSUME NEW W \in SUBSET Good, NEW c \in Client, Unmeasured(W, c),
         NEW w \in W, NEW node \in Node, NEW id, Given(w, id)
  PROVE  executeMeasure(w, c, node, id) \in W
<1> DEFINE restarted == \E t \in ToSet(w.client[c].executing) :
                          /\ t.node.model = node.model
                          /\ ToSet(t.got) \cap ToSet(node.components) # {}
           overtaken == \E comp \in ToSet(node.components), i, j \in DOMAIN w.posted :
                          /\ node.model = "FETCH" /\ i < j
                          /\ w.posted[i] = start(c, comp, "FETCH")
                          /\ w.posted[j] = start(c, comp, "INIT")
           known == getComponentSequences(w, c, node)
           task == newTask(w.client[c], node, id)
           begun == IF node.model = "INIT"
                    THEN [known EXCEPT !.client[c].awaited = @ \cup ToSet(node.components)]
                    ELSE [known EXCEPT !.client[c].executing = Append(@, task)]
           met == meetIf(meetIf(begun, restarted, "overlap"), overtaken, "overtaken")
<1>1. /\ w \in Good /\ node.model \in MeasureModel /\ node.components \in Seq(Component)
      /\ \A comp \in ToSet(node.components) : comp \in Component
  BY Nodes, LenProperties DEF ToSet
<1>2. begun \in W
  <2>0. known \in W /\ known \in Good /\ Given(known, id)
    <3>1. /\ known = [w EXCEPT !.client[c].sequences = w.client[c].sequences \cup ToSet(node.components)]
          /\ w.client[c].sequences \cup ToSet(node.components) \in SUBSET Component
          /\ ClientBut(w, known, c, {"sequences"})
      BY <1>1, Sequences
    <3>2. known.query = w.query
      BY <3>1 DEF ClientBut, AllBut
    <3> HIDE DEF known
    <3>3. known \in W
      BY <3>1 DEF Unmeasured
    <3> QED
      BY <3>2, <3>3 DEF Given
  <2>3. task \in Task /\ task.id = id
    BY <1>1, NewTask DEF newTask
  <2> HIDE DEF known, task
  <2>1. CASE node.model = "INIT"
    <3>1. known.client[c].awaited \cup ToSet(node.components) \in SUBSET Component
      BY <1>1, <2>0, GoodParts DEF ClientState
    <3>2. [known EXCEPT !.client[c].awaited = known.client[c].awaited \cup ToSet(node.components)] \in W
      BY <2>0, <3>1 DEF Unmeasured
    <3>3. begun = [known EXCEPT !.client[c].awaited = known.client[c].awaited \cup ToSet(node.components)]
      BY <2>0, <2>1, GoodParts
    <3> QED
      BY <3>2, <3>3
  <2>2. CASE node.model # "INIT"
    <3> DEFINE tasks == Append(known.client[c].executing, task)
    <3>2. known.client[c].executing \in Seq(Task)
      BY <2>0, GoodParts DEF ClientState
    <3>3. tasks \in Seq(Task) /\ ToSet(tasks) = ToSet(known.client[c].executing) \cup {task}
      BY <2>3, <3>2, Appended
    <3>6. begun = [known EXCEPT !.client[c].executing = tasks]
      BY <2>0, <2>2, GoodParts
    <3> HIDE DEF tasks
    <3>4. \A t \in ToSet(tasks) : Given(known, t.id)
      BY <2>0, <2>3, <3>3, GoodParts
    <3>5. [known EXCEPT !.client[c].executing = tasks] \in W
      BY <2>0, <3>3, <3>4 DEF Unmeasured
    <3> QED
      BY <3>5, <3>6
  <2> QED
    BY <2>1, <2>2
<1>3. executeMeasure(w, c, node, id)
        = allStarted(met, c, node.components, node.model)
  BY <1>1, GoodParts, Zenon DEF executeMeasure, allStarted
<1> HIDE DEF begun, restarted, overtaken
<1>4. met \in W
  <2>1. meetIf(begun, restarted, "overlap") \in W
    BY <1>2 DEF Unmeasured, meetIf, Circumstance
  <2> QED
    BY <2>1 DEF Unmeasured, meetIf, Circumstance
<1> HIDE DEF met
<1>5. ASSUME NEW v \in W, NEW comp \in ToSet(node.components)
      PROVE  startSequence(v, c, comp, node.model) \in W
  <2>1. v \in Good /\ comp \in Component
    BY <1>1
  <2>2. startSequence(v, c, comp, node.model) \in {v, post(v, start(c, comp, node.model))}
    BY <1>1, <2>1, Starting
  <2> QED
    BY <1>1, <2>1, <2>2 DEF Unmeasured
<1>6. \E g : Folds(allStarted(met, c, node.components, node.model), Len(node.components), W, met, g)
  BY <1>1, <1>4, <1>5, StartFold
<1>7. Len(node.components) \in Nat
  BY <1>1, LenProperties
<1> QED
  BY <1>3, <1>4, <1>6, <1>7, FoldStays

\* What onSingleScpiQueryDone makes of the tasks of a client
countedTask(w, c, comp, model, t) ==
  IF ~concerns(t, comp, model) THEN t
  ELSE [t EXCEPT !.got = Append(@, comp),
                 !.blank = @ \cup ({comp} \ w.client[c].valued),
                 !.stale = @ \/ comp \in t.younger]
countedTasks(w, c, comp, model) ==
  [i \in DOMAIN w.client[c].executing |-> countedTask(w, c, comp, model, w.client[c].executing[i])]
completeTasks(w, c, comp, model) ==
  {t \in ToSet(countedTasks(w, c, comp, model)) : Len(t.got) = Len(t.node.components)}
goneOn(w, c, comp, model) ==
  [w EXCEPT !.client[c].executing =
     Only(countedTasks(w, c, comp, model),
          ToSet(countedTasks(w, c, comp, model)) \ completeTasks(w, c, comp, model))]

LEMMA Counting ==
  ASSUME NEW w \in Good, NEW c \in Client, NEW comp \in Component, NEW model
  PROVE  LET counted == countedTasks(w, c, comp, model)
             ended == Only(counted, completeTasks(w, c, comp, model))
             rest == Only(counted, ToSet(counted) \ completeTasks(w, c, comp, model))
         IN  /\ counted \in Seq(Task) /\ Len(counted) = Len(w.client[c].executing)
             /\ DOMAIN counted = DOMAIN w.client[c].executing
             /\ ended \in Seq(Task) /\ ToSet(ended) = completeTasks(w, c, comp, model)
             /\ rest \in Seq(Task)
             /\ ToSet(rest) = ToSet(counted) \ completeTasks(w, c, comp, model)
             /\ \A t \in ToSet(rest) : Given(w, t.id)
             /\ onSingleScpiQueryDone(w, c, comp, model)
                  = allFinished(goneOn(w, c, comp, model), c, ended)
<1> DEFINE tasks == w.client[c].executing
           counted == countedTasks(w, c, comp, model)
           complete == completeTasks(w, c, comp, model)
<1>1. tasks \in Seq(Task) /\ \A t \in ToSet(tasks) : Given(w, t.id)
  BY GoodParts DEF ClientState
<1>2. Len(tasks) \in Nat /\ DOMAIN tasks = 1..Len(tasks) /\ \A i \in DOMAIN tasks : tasks[i] \in Task
  BY <1>1, LenProperties, ElementOfSeq
<1>3. ASSUME NEW t \in Task
      PROVE  countedTask(w, c, comp, model, t) \in Task /\ countedTask(w, c, comp, model, t).id = t.id
  <2> DEFINE got == Append(t.got, comp)
             stale == t.stale \/ comp \in t.younger
             blank == t.blank \cup ({comp} \ w.client[c].valued)
             x == [t EXCEPT !.got = got]
             z == [x EXCEPT !.blank = blank]
             y == [z EXCEPT !.stale = stale]
  <2>1. t.got \in Seq(Component) /\ t.stale \in BOOLEAN /\ t.blank \in SUBSET Component
    BY DEF Task
  <2>2. got \in Seq(Component) /\ stale \in BOOLEAN /\ blank \in SUBSET Component
    BY <2>1, AppendProperties
  <2> HIDE DEF got, stale, blank
  <2>3. x \in Task /\ x.id = t.id
    BY <2>2 DEF Task
  <2> HIDE DEF x
  <2>6. z \in Task /\ z.id = t.id
    BY <2>2, <2>3 DEF Task
  <2> HIDE DEF z
  <2>4. y \in Task /\ y.id = t.id
    BY <2>2, <2>6 DEF Task
  <2>5. countedTask(w, c, comp, model, t) \in {t, y}
    BY DEF countedTask, x, z, got, stale, blank, Task
  <2> QED
    BY <2>4, <2>5
<1>4. counted \in [1..Len(tasks) -> Task] /\ \A i \in 1..Len(tasks) : counted[i].id = tasks[i].id
  BY <1>2, <1>3 DEF countedTasks
<1>5. counted \in Seq(Task) /\ Len(counted) = Len(tasks) /\ DOMAIN counted = DOMAIN tasks
  BY <1>2, <1>4, SequenceOf
<1>6. \A t \in ToSet(counted) : Given(w, t.id)
  BY <1>1, <1>2, <1>4, <1>5 DEF ToSet
<1>7. complete \subseteq ToSet(counted)
  BY DEF completeTasks
<1>8. onSingleScpiQueryDone(w, c, comp, model)
        = allFinished(goneOn(w, c, comp, model), c, Only(counted, complete))
  BY Zenon DEF onSingleScpiQueryDone, allFinished, goneOn, countedTasks, completeTasks, countedTask
<1> HIDE DEF counted, complete
<1>9. /\ Only(counted, complete) \in Seq(Task)
      /\ ToSet(Only(counted, complete)) = ToSet(counted) \cap complete
      /\ Only(counted, ToSet(counted) \ complete) \in Seq(Task)
      /\ ToSet(Only(counted, ToSet(counted) \ complete)) = ToSet(counted) \cap (ToSet(counted) \ complete)
  BY <1>5, OnlyElements
<1> QED
  BY <1>5, <1>6, <1>7, <1>8, <1>9 DEF counted, complete

LEMMA Contents == \A t : contents(t) \in Fate \ {"open"}
BY DEF contents, Fate

LEMMA Done ==
  ASSUME NEW W \in SUBSET Good, NEW c \in Client, Unmeasured(W, c),
         NEW w \in W, NEW comp \in Component, NEW model
  PROVE  onSingleScpiQueryDone(w, c, comp, model) \in W
<1> DEFINE counted == countedTasks(w, c, comp, model)
           ended == Only(counted, completeTasks(w, c, comp, model))
           rest == Only(counted, ToSet(counted) \ completeTasks(w, c, comp, model))
<1>1. /\ ended \in Seq(Task) /\ rest \in Seq(Task) /\ \A t \in ToSet(rest) : Given(w, t.id)
      /\ onSingleScpiQueryDone(w, c, comp, model)
           = allFinished(goneOn(w, c, comp, model), c, ended)
  BY Counting
<1>2. goneOn(w, c, comp, model) = [w EXCEPT !.client[c].executing = rest]
  BY DEF goneOn
<1> HIDE DEF ended, rest
<1>3. goneOn(w, c, comp, model) \in W
  BY <1>1, <1>2 DEF Unmeasured
<1>4. \A v \in W : \A t \in ToSet(ended) : handleCmdFinish(v, c, t.id, contents(t)) \in W
  BY Contents DEF Unmeasured
<1>5. \E g : Folds(allFinished(goneOn(w, c, comp, model), c, ended),
                   Len(ended), W, goneOn(w, c, comp, model), g)
  BY <1>1, <1>3, <1>4, FinishFold
<1>6. Len(ended) \in Nat
  BY <1>1, LenProperties
<1> QED
  BY <1>1, <1>3, <1>5, <1>6, FoldStays

LEMMA Entering ==
  ASSUME NEW W \in SUBSET Good, NEW c \in Client, Unmeasured(W, c),
         NEW w \in W, NEW comp \in Component, NEW model \in MeasureModel
  PROVE  enterInitialState(w, c, comp, model) \in W
<1> DEFINE running == Append(w.client[c].running, <<comp, model>>)
<1>1. running \in Seq(Component \X MeasureModel)
  BY GoodParts, AppendProperties DEF ClientState
<1>2. [w EXCEPT !.client[c].running = running] \in W
  BY <1>1 DEF Unmeasured
<1>3. onSingleScpiQueryDone(w, c, comp, model) \in W
  BY Done
<1> QED
  BY <1>2, <1>3 DEF enterInitialState

\* What receiveMeasureValue does first, and the machines that have waited for the value
othersThan(w, c, comp) ==
  Only(w.client[c].running, {m \in ToSet(w.client[c].running) : m[1] # comp})
suppliedTask(comp, t) == [t EXCEPT !.younger = @ \ {comp}]
suppliedTasks(w, c, comp) ==
  [i \in DOMAIN w.client[c].executing |-> suppliedTask(comp, w.client[c].executing[i])]
nowValued(w, c, comp) == w.client[c].valued \cup ({comp} \cap w.client[c].sequences)
received(w, c, comp) ==
  [[[[w EXCEPT !.client[c].awaited = w.client[c].awaited \ {comp}]
       EXCEPT !.client[c].valued = nowValued(w, c, comp)]
      EXCEPT !.client[c].running = othersThan(w, c, comp)]
     EXCEPT !.client[c].executing = suppliedTasks(w, c, comp)]
waitingFor(w, c, comp) ==
  Only(w.client[c].running,
       {m \in ToSet(w.client[c].running) : m[1] = comp /\ m[2] # "INIT"})

LEMMA ReceivingSteps ==
  ASSUME NEW w \in Good, NEW c \in Client, NEW comp
  PROVE  /\ waitingFor(w, c, comp) \in Seq(Component \X MeasureModel)
         /\ ToSet(waitingFor(w, c, comp))
              = {m \in ToSet(w.client[c].running) : m[1] = comp /\ m[2] # "INIT"}
         /\ othersThan(w, c, comp) \in Seq(Component \X MeasureModel)
         /\ ToSet(othersThan(w, c, comp)) = {m \in ToSet(w.client[c].running) : m[1] # comp}
         /\ receiveMeasureValue(w, c, comp)
              = allDone(received(w, c, comp), c, waitingFor(w, c, comp), comp)
<1> DEFINE running == w.client[c].running
           done == {m \in ToSet(running) : m[1] = comp}
           waiting == {m \in done : m[2] # "INIT"}
           waits == {m \in ToSet(running) : m[1] = comp /\ m[2] # "INIT"}
           others == {m \in ToSet(running) : m[1] # comp}
<1>1. waiting = waits /\ ToSet(running) \ done = others
  OBVIOUS
<1>2. running \in Seq(Component \X MeasureModel)
  BY GoodParts DEF ClientState
<1>3. [w EXCEPT !.client[c].awaited = @ \ {comp},
                !.client[c].valued = @ \cup ({comp} \cap w.client[c].sequences),
                !.client[c].running = Only(running, others),
                !.client[c].executing = suppliedTasks(w, c, comp)]
        = received(w, c, comp)
  BY GoodParts DEF received, othersThan, nowValued
<1>4. receiveMeasureValue(w, c, comp)
        = allDone([w EXCEPT !.client[c].awaited = @ \ {comp},
                            !.client[c].valued = @ \cup ({comp} \cap w.client[c].sequences),
                            !.client[c].running = Only(running, ToSet(running) \ done),
                            !.client[c].executing = suppliedTasks(w, c, comp)],
                  c, Only(running, waiting), comp)
  BY Zenon DEF receiveMeasureValue, allDone, suppliedTasks, suppliedTask
<1>5. receiveMeasureValue(w, c, comp)
        = allDone(received(w, c, comp), c, waitingFor(w, c, comp), comp)
  BY <1>1, <1>3, <1>4, Zenon DEF waitingFor
<1> HIDE DEF running, waits, others
<1>6. /\ Only(running, waits) \in Seq(Component \X MeasureModel)
      /\ ToSet(Only(running, waits)) = ToSet(running) \cap waits
      /\ Only(running, others) \in Seq(Component \X MeasureModel)
      /\ ToSet(Only(running, others)) = ToSet(running) \cap others
  BY <1>2, OnlyElements
<1>7. waits \subseteq ToSet(running) /\ others \subseteq ToSet(running)
  BY DEF waits, others
<1> QED
  BY <1>5, <1>6, <1>7 DEF waitingFor, othersThan, running, waits, others

LEMMA Supplied ==
  ASSUME NEW w \in Good, NEW c \in Client, NEW comp
  PROVE  LET tasks == suppliedTasks(w, c, comp)
         IN  /\ tasks \in Seq(Task) /\ \A t \in ToSet(tasks) : Given(w, t.id)
             /\ DOMAIN tasks = DOMAIN w.client[c].executing
             /\ \A i \in DOMAIN tasks :
                  LET t == w.client[c].executing[i]
                  IN  /\ t \in Task /\ tasks[i].id = t.id /\ tasks[i].node = t.node
                      /\ tasks[i].got = t.got /\ tasks[i].stale = t.stale
                      /\ tasks[i].blank = t.blank /\ tasks[i].early = t.early
                      /\ tasks[i].younger = t.younger \ {comp}
<1> DEFINE old == w.client[c].executing
           tasks == suppliedTasks(w, c, comp)
<1>1. old \in Seq(Task) /\ \A t \in ToSet(old) : Given(w, t.id)
  BY GoodParts DEF ClientState
<1>2. Len(old) \in Nat /\ DOMAIN old = 1..Len(old) /\ \A i \in DOMAIN old : old[i] \in Task
  BY <1>1, LenProperties, ElementOfSeq
<1>3. ASSUME NEW t \in Task
      PROVE  LET x == suppliedTask(comp, t)
             IN  /\ x \in Task /\ x.id = t.id /\ x.node = t.node /\ x.got = t.got
                 /\ x.stale = t.stale /\ x.younger = t.younger \ {comp}
                 /\ x.blank = t.blank /\ x.early = t.early
  BY DEF suppliedTask, Task
<1>4. tasks = [i \in 1..Len(old) |-> suppliedTask(comp, old[i])]
  BY <1>2 DEF suppliedTasks
<1>5. tasks \in [1..Len(old) -> Task]
  BY <1>2, <1>3, <1>4
<1>6. tasks \in Seq(Task) /\ DOMAIN tasks = DOMAIN old
  BY <1>2, <1>5, SequenceOf
<1>7. \A i \in DOMAIN tasks : tasks[i] = suppliedTask(comp, old[i])
  BY <1>2, <1>4, <1>6
<1> HIDE DEF tasks
<1>8. \A t \in ToSet(tasks) : Given(w, t.id)
  BY <1>1, <1>2, <1>3, <1>6, <1>7 DEF ToSet
<1> HIDE DEF old
<1>9. \A i \in DOMAIN tasks : old[i] \in Task
  BY <1>2, <1>6
<1> QED
  BY <1>3, <1>6, <1>7, <1>8, <1>9 DEF tasks, old

LEMMA Receiving ==
  ASSUME NEW W \in SUBSET Good, NEW c \in Client, Unmeasured(W, c),
         NEW w \in W, NEW comp \in Component
  PROVE  receiveMeasureValue(w, c, comp) \in W
<1> DEFINE r == othersThan(w, c, comp)
           x == [w EXCEPT !.client[c].awaited = w.client[c].awaited \ {comp}]
           waiting == waitingFor(w, c, comp)
<1>1. /\ waiting \in Seq(Component \X MeasureModel)
      /\ r \in Seq(Component \X MeasureModel)
      /\ receiveMeasureValue(w, c, comp) = allDone(received(w, c, comp), c, waiting, comp)
  <2>1. w \in Good
    OBVIOUS
  <2> QED
    BY <2>1, ReceivingSteps, Zenon
<1>2. x \in W
  <2>1. w.client[c].awaited \ {comp} \in SUBSET Component
    BY GoodParts DEF ClientState
  <2> QED
    BY <2>1 DEF Unmeasured
<1> DEFINE a == [x EXCEPT !.client[c].valued = nowValued(w, c, comp)]
           y == [a EXCEPT !.client[c].running = r]
           tasks == suppliedTasks(w, c, comp)
<1>3. received(w, c, comp) = [y EXCEPT !.client[c].executing = tasks]
  BY DEF received
<1>4. received(w, c, comp) \in W
  <2>1. tasks \in Seq(Task) /\ \A t \in ToSet(tasks) : Given(w, t.id)
    BY Supplied
  <2>2. x.query = w.query /\ y.query = x.query
    BY DEF Good, World
  <2>5. nowValued(w, c, comp) \in SUBSET Component
    BY GoodParts DEF ClientState, nowValued
  <2> HIDE DEF x, r, waiting
  <2>6. a \in W
    BY <1>2, <2>5 DEF Unmeasured
  <2> HIDE DEF a
  <2>3. y \in W
    BY <1>1, <2>6 DEF Unmeasured
  <2> HIDE DEF y, tasks
  <2>4. \A t \in ToSet(tasks) : Given(y, t.id)
    BY <2>1, <2>2 DEF Given
  <2> QED
    BY <1>3, <2>1, <2>3, <2>4 DEF Unmeasured
<1> HIDE DEF x, r, waiting
<1>5. \A v \in W : \A m \in ToSet(waiting) : onSingleScpiQueryDone(v, c, comp, m[2]) \in W
  BY Done
<1>6. \E g : Folds(allDone(received(w, c, comp), c, waiting, comp),
                   Len(waiting), W, received(w, c, comp), g)
  BY <1>1, <1>4, <1>5, DoneFold
<1>7. Len(waiting) \in Nat
  BY <1>1, LenProperties
<1> QED
  BY <1>1, <1>4, <1>6, <1>7, FoldStays

-----------------------------------------------------------------------------
(* Commands *)

\* What the commands of a client do to the module does not lead out of W.
Commanded(W, c) ==
  \A w \in W :
    /\ issued(w, c) \in W
    /\ \A st \in HonestStatus : [w EXCEPT !.client[c].status = st] \in W
    /\ \A id : \A answer \in {"answered", "failed"} : handleCmdFinish(w, c, id, answer) \in W
    /\ \A cmd \in Command : \A id : Given(w, id) =>
         /\ cmd.kind = "parameter" /\ cmd.target \notin Future => executeParameter(w, c, cmd, id) \in W
         /\ cmd.kind = "rpc" => executeScpiRpc(w, c, cmd, id) \in W
         /\ cmd.kind = "measure" => executeMeasure(w, c, cmd.node, id) \in W
    /\ [w EXCEPT !.client[c].active = <<>>] \in W
    /\ w.client[c].pending # {} => \A cmd \in Command :
         [w EXCEPT !.client[c].active = Append(w.client[c].active, cmd)] \in W

LEMMA CommandFails ==
  ASSUME NEW W \in SUBSET Good, NEW c \in Client, Commanded(W, c), NEW w \in W, NEW id
  PROVE  addEventErrorWithResponse(w, c, id) \in W
<1> DEFINE st == addEventError(w.client[c].status)
<1>1. st \in HonestStatus
  BY GoodParts, ErrorQueue
<1>2. addEventErrorWithResponse(w, c, id)
        = handleCmdFinish([w EXCEPT !.client[c].status = st], c, id, "failed")
  BY GoodParts DEF addEventErrorWithResponse
<1> HIDE DEF st
<1> QED
  BY <1>1, <1>2 DEF Commanded

LEMMA StatusCommands ==
  ASSUME NEW st \in HonestStatus, NEW cmd \in Command
  PROVE  (CASE cmd.kind = "*OPC" /\ ~cmd.query -> operationComplete(st)
            [] cmd.kind = "*CLS" -> ClearStatus(st)
            [] cmd.kind = "*SRE" /\ ~cmd.query -> SetSRE(st, cmd.value)
            [] cmd.kind = "*ESE" /\ ~cmd.query -> SetESE(st, cmd.value)
            [] cmd.kind = "register" /\ ~cmd.query -> writeRegister(st, cmd.system, cmd.field, cmd.value)
            [] cmd.kind = "error" -> popScpiError(st)
            [] cmd.kind = "allErrors" -> popAllErrors(st)
            [] OTHER -> st) \in HonestStatus
<1>1. wellFormed(cmd)
  BY ScpiAssumption
<1>2. cmd.kind = "*SRE" /\ ~cmd.query => SetSRE(st, cmd.value) \in HonestStatus
  BY <1>1, StandardEvents DEF wellFormed
<1>3. cmd.kind = "*ESE" /\ ~cmd.query => SetESE(st, cmd.value) \in HonestStatus
  BY <1>1, StandardEvents DEF wellFormed
<1>4. cmd.kind = "register" /\ ~cmd.query =>
        writeRegister(st, cmd.system, cmd.field, cmd.value) \in HonestStatus
  BY <1>1, WrittenRegister DEF wellFormed
<1>5. /\ operationComplete(st) \in HonestStatus /\ ClearStatus(st) \in HonestStatus
      /\ popScpiError(st) \in HonestStatus /\ popAllErrors(st) \in HonestStatus
  BY StandardEvents, Cleared, ErrorQueue
<1>6. CASE cmd.kind = "*OPC" /\ ~cmd.query
  BY <1>5, <1>6
<1>7. CASE cmd.kind = "*CLS"
  BY <1>5, <1>7
<1>8. CASE cmd.kind = "*SRE" /\ ~cmd.query
  BY <1>2, <1>8
<1>9. CASE cmd.kind = "*ESE" /\ ~cmd.query
  BY <1>3, <1>9
<1>10. CASE cmd.kind = "register" /\ ~cmd.query
  BY <1>4, <1>10
<1>11. CASE cmd.kind \in {"error", "allErrors"}
  BY <1>5, <1>11
<1> QED
  BY <1>6, <1>7, <1>8, <1>9, <1>10, <1>11

LEMMA Executing ==
  ASSUME NEW W \in SUBSET Good, NEW c \in Client, Commanded(W, c), ParamOK,
         NEW w \in W, NEW cmd \in Command
  PROVE  executeCmd(w, c, cmd) \in W
<1> DEFINE id == IF cmd.query THEN Len(w.query) + 1 ELSE 0
           v == IF cmd.query THEN issued(w, c) ELSE w
<1>1. v \in W /\ Given(v, id)
  <2>1. issued(w, c) \in W /\ Given(issued(w, c), Len(w.query) + 1)
    BY Issuing DEF Commanded
  <2>2. Given(w, 0)
    BY GoodParts DEF Given
  <2> QED
    BY <2>1, <2>2
<1>2. executeCmd(w, c, cmd) =
        CASE cmd.kind = "parameter" -> executeParameter(v, c, cmd, id)
          [] cmd.kind = "rpc" -> executeScpiRpc(v, c, cmd, id)
          [] cmd.kind = "measure" -> executeMeasure(v, c, cmd.node, id)
          [] cmd.kind = "wrong" -> addEventErrorWithResponse(v, c, id)
          [] OTHER -> executeStatus(v, c, cmd, id)
  BY DEF executeCmd, isQuery, issued
<1> HIDE DEF v, id
<1>3. CASE cmd.kind = "parameter"
  <2>1. executeCmd(w, c, cmd) = executeParameter(v, c, cmd, id)
    BY <1>2, <1>3
  <2>2. CASE cmd.target \notin Future
    BY <1>1, <1>3, <2>1, <2>2 DEF Commanded
  <2>3. CASE cmd.target \in Future
    <3>1. executeParameter(v, c, cmd, id)
            \in {handleCmdFinish(v, c, id, "answered"), addEventErrorWithResponse(v, c, id)}
      BY <2>3 DEF executeParameter
    <3>2. handleCmdFinish(v, c, id, "answered") \in W
      BY <1>1 DEF Commanded
    <3>3. addEventErrorWithResponse(v, c, id) \in W
      BY <1>1, CommandFails
    <3> QED
      BY <2>1, <3>1, <3>2, <3>3
  <2> QED
    BY <2>2, <2>3
<1>4. CASE cmd.kind = "rpc"
  <2>1. executeCmd(w, c, cmd) = executeScpiRpc(v, c, cmd, id)
    BY <1>2, <1>4
  <2> QED
    BY <1>1, <1>4, <2>1 DEF Commanded
<1>5. CASE cmd.kind = "measure"
  <2>1. executeCmd(w, c, cmd) = executeMeasure(v, c, cmd.node, id)
    BY <1>2, <1>5
  <2> QED
    BY <1>1, <1>5, <2>1 DEF Commanded
<1>6. CASE cmd.kind = "wrong"
  <2>1. executeCmd(w, c, cmd) = addEventErrorWithResponse(v, c, id)
    BY <1>2, <1>6
  <2> QED
    BY <1>1, <2>1, CommandFails
<1>7. CASE cmd.kind \notin {"parameter", "rpc", "measure", "wrong"}
  <2> DEFINE old == v.client[c].status
             st == CASE cmd.kind = "*OPC" /\ ~cmd.query -> operationComplete(old)
                     [] cmd.kind = "*CLS" -> ClearStatus(old)
                     [] cmd.kind = "*SRE" /\ ~cmd.query -> SetSRE(old, cmd.value)
                     [] cmd.kind = "*ESE" /\ ~cmd.query -> SetESE(old, cmd.value)
                     [] cmd.kind = "register" /\ ~cmd.query ->
                          writeRegister(old, cmd.system, cmd.field, cmd.value)
                     [] cmd.kind = "error" -> popScpiError(old)
                     [] cmd.kind = "allErrors" -> popAllErrors(old)
                     [] OTHER -> old
  <2>1. executeCmd(w, c, cmd) = executeStatus(v, c, cmd, id)
    BY <1>2, <1>7
  <2>2. executeStatus(v, c, cmd, id)
          = handleCmdFinish([v EXCEPT !.client[c].status = st], c, id, "answered")
    BY Zenon DEF executeStatus, withStatus
  <2>3. old \in HonestStatus
    BY <1>1, GoodParts
  <2> HIDE DEF old
  <2>4. st \in HonestStatus
    BY <2>3, StatusCommands
  <2> HIDE DEF st
  <2>5. [v EXCEPT !.client[c].status = st] \in W
    BY <1>1, <2>4 DEF Commanded
  <2>6. handleCmdFinish([v EXCEPT !.client[c].status = st], c, id, "answered") \in W
    BY <2>5 DEF Commanded
  <2> QED
    BY <2>1, <2>2, <2>6
<1> QED
  BY <1>3, <1>4, <1>5, <1>6, <1>7

LEMMA Lines ==
  ASSUME NEW line \in Line
  PROVE  line \in Seq(Command)
<1>1. line \in Seq(ToSet(line)) /\ ToSet(line) \subseteq Command
  BY ScpiAssumption DEF Command
<1> QED
  BY <1>1, SeqMonotonic

\* What waits is executed, up to the command that leaves something pending.
LEMMA ExecutingActive ==
  ASSUME NEW W \in SUBSET Good, NEW c \in Client, Commanded(W, c), ParamOK,
         NEW w, w.client[c].active \in Seq(Command), [w EXCEPT !.client[c].active = <<>>] \in W,
         w.client[c].active = <<>> => w \in W
  PROVE  execCmd(w, c) \in W
<1> DEFINE active == w.client[c].active
           first == executeCmd([w EXCEPT !.client[c].active = <<>>], c, Head(active))
<1>1. CASE active = <<>>
  BY <1>1 DEF execCmd
<1>2. CASE active # <<>>
  <2>1. execCmd(w, c) = allExecutedNext(first, c, Tail(active))
    BY <1>2, Zenon DEF execCmd, allExecutedNext
  <2>2. Head(active) \in Command /\ Tail(active) \in Seq(Command)
    BY <1>2, HeadAndTail
  <2>3. first \in W
    BY <2>2, Executing
  <2> HIDE DEF active, first
  <2>4. \A cmd \in ToSet(Tail(active)) : cmd \in Command
    BY <2>2, LenProperties DEF ToSet
  <2>5. \A v \in W : \A cmd \in ToSet(Tail(active)) : executeNext(v, c, cmd) \in W
    <3> SUFFICES ASSUME NEW v \in W, NEW cmd \in Command
                 PROVE  executeNext(v, c, cmd) \in W
      BY <2>4
    <3>1. CASE v.client[c].pending = {}
      BY <3>1, Executing DEF executeNext
    <3>2. CASE v.client[c].pending # {}
      <4>1. executeNext(v, c, cmd) = [v EXCEPT !.client[c].active = Append(v.client[c].active, cmd)]
        BY <3>2, GoodParts DEF executeNext
      <4> QED
        BY <3>2, <4>1, ZenonT(30) DEF Commanded
    <3> QED
      BY <3>1, <3>2
  <2>6. \E g : Folds(allExecutedNext(first, c, Tail(active)), Len(Tail(active)), W, first, g)
    BY <2>2, <2>3, <2>5, NextFold
  <2>7. Len(Tail(active)) \in Nat
    BY <2>2, LenProperties
  <2> QED
    BY <2>1, <2>3, <2>6, <2>7, FoldStays
<1> QED
  BY <1>1, <1>2

LEMMA ExecutingLine ==
  ASSUME NEW W \in SUBSET Good, NEW c \in Client, Commanded(W, c), ParamOK,
         NEW w \in W, NEW line \in Line
  PROVE  execPendingCmds(w, c, line) \in W
<1> DEFINE active == w.client[c].active
           quiet == [w EXCEPT !.client[c].active = <<>>]
           rest == allExecuted(quiet, c, active)
           v == [rest EXCEPT !.client[c].active = line]
<1>1. execPendingCmds(w, c, line) = execCmd(v, c)
  BY Zenon DEF execPendingCmds, allExecuted
<1>2. active \in Seq(Command) /\ quiet \in W
  BY GoodParts DEF Commanded, ClientState
<1> HIDE DEF active, quiet
<1>3. \A cmd \in ToSet(active) : cmd \in Command
  BY <1>2, LenProperties DEF ToSet
<1>4. rest \in W
  <2>1. \A u \in W : \A cmd \in ToSet(active) : executeCmd(u, c, cmd) \in W
    BY <1>3, Executing
  <2>2. \E g : Folds(rest, Len(active), W, quiet, g)
    BY <1>2, <2>1, CommandFold
  <2>3. Len(active) \in Nat
    BY <1>2, LenProperties
  <2> QED
    BY <1>2, <2>2, <2>3, FoldStays
<1> HIDE DEF rest
<1>5. line \in Seq(Command)
  BY Lines
<1>6. rest \in Good
  BY <1>4
<1>7. v.client[c].active = line
  BY <1>6, GoodParts
<1>8. [v EXCEPT !.client[c].active = <<>>] = [rest EXCEPT !.client[c].active = <<>>]
  BY <1>6, GoodParts
<1>9. [v EXCEPT !.client[c].active = <<>>] \in W
  BY <1>4, <1>8 DEF Commanded
<1>10. line = <<>> => v \in W
  BY <1>4 DEF Commanded
<1> HIDE DEF v
<1> QED
  BY <1>1, <1>5, <1>7, <1>9, <1>10, ExecutingActive

-----------------------------------------------------------------------------
(* Steps, for what they keep.  W: worlds, Wc[c]: those in which c may send commands *)

\* What RpcFinished does before the query ends
rpcEnded(w, i) ==
  postRemove([[w EXCEPT !.rpcs = RemoveAt(w.rpcs, i)]
                EXCEPT !.store = Only(w.store, ToSet(w.store) \ {w.rpcs[i]})],
             w.rpcs[i].client, NameOf[w.rpcs[i].target])
transactionEnded(w, i) ==
  postRemove([w EXCEPT !.store = RemoveAt(w.store, i)],
             w.store[i].client, NameOf[w.store[i].target])
\* An event is taken from the queue, and that something is removed is known.
taken(w) == [w EXCEPT !.posted = Tail(w.posted)]
known(w, c, name) == [w EXCEPT !.client[c].pending = w.client[c].pending \ {name}]

Handles(W, Wc) ==
  /\ \A c \in Client : Wc[c] \in SUBSET W /\ Commanded(Wc[c], c)
  /\ \A w \in W :
       /\ \A c \in Client : c \in w.connected => w \in Wc[c]
       /\ \A e \in Event : e.call \in {"notification", "error"} => post(w, e) \in W
       /\ meet(w, "outdated") \in W
       /\ \A c \in Client : \A st \in HonestStatus : [w EXCEPT !.client[c].status = st] \in W
       /\ \A c \in Client : \A id : \A answer \in {"answered", "failed"} :
            handleCmdFinish(w, c, id, answer) \in W
       /\ \A c \in Client : \A comp \in Component : receiveMeasureValue(w, c, comp) \in W
       /\ \A i \in DOMAIN w.store :
            /\ w.store[i].target \notin Rpc => transactionEnded(w, i) \in W
            /\ meet(transactionEnded(w, i), "crosstalk") \in W
            /\ \A name \in Name : meet(postRemove(w, w.store[i].client, name), "crosstalk") \in W
       /\ \A i \in DOMAIN w.rpcs : rpcEnded(w, i) \in W
       /\ w.posted # <<>> =>
            LET e == Head(w.posted)
            IN  /\ e.call = "start" =>
                     enterInitialState(taken(w), e.client, e.component, e.model) \in W
                /\ e.call = "remove" =>
                     LET u == known(taken(w), e.client, e.name)
                     IN  /\ [u EXCEPT !.client[e.client].active = <<>>] \in Wc[e.client]
                         /\ u.client[e.client].active = <<>> => u \in Wc[e.client]
                /\ e.call \notin {"start", "remove"} => taken(w) \in W

LEMMA EventParts ==
  ASSUME NEW e \in Event
  PROVE  /\ e.call \in {"start", "remove", "transaction", "notification", "error"}
         /\ e.call = "start" => e.client \in Client /\ e.component \in Component /\ e.model \in MeasureModel
         /\ e.call = "remove" => e.client \in Client /\ e.name \in Name
         /\ e.call = "transaction" =>
              /\ e.client \in Client \cup {Gone} /\ e.target \in Parameter /\ e.query \in BOOLEAN
              /\ e.old \in ParamValue /\ e.new \in WrittenValue
         /\ e.call = "notification" =>
              /\ e.target \in Parameter /\ e.peer \in Client \cup {None, Gone} /\ e.value \in ParamValue
         /\ e.call = "error" => e.target \in Parameter /\ e.peer \in Client \cup {None, Gone}
BY DEF Event

\* Parameters: the client of a transaction is put last, the notification names the first.
ParamState == [value : ParamValue, stored : ParamValue,
               clients : Seq(Client \cup {Gone}), work : Seq(ParamValue)]

LEMMA Queueing ==
  ASSUME NEW p \in ParamState
  PROVE  /\ \A c \in Client \cup {Gone} :
              LET q == [p EXCEPT !.clients = Append(@, c)]
              IN  q \in ParamState /\ q.work = p.work
         /\ p.work # <<>> =>
              LET q == [p EXCEPT !.work = Tail(@)]
              IN  q \in ParamState /\ Head(p.work) \in ParamValue
         /\ \A v \in ParamValue : [p EXCEPT !.work = Append(@, v)] \in ParamState
         /\ \A v \in ParamValue : [p EXCEPT !.stored = v] \in ParamState
<1>1. p.clients \in Seq(Client \cup {Gone}) /\ p.work \in Seq(ParamValue)
  BY DEF ParamState
<1>2. ASSUME NEW c \in Client \cup {Gone}
      PROVE  LET q == [p EXCEPT !.clients = Append(@, c)]
             IN  q \in ParamState /\ q.work = p.work
  <2> DEFINE s == Append(p.clients, c)
  <2>1. s \in Seq(Client \cup {Gone})
    BY <1>1, AppendProperties
  <2> HIDE DEF s
  <2>2. [p EXCEPT !.clients = s] \in ParamState /\ [p EXCEPT !.clients = s].work = p.work
    BY <2>1 DEF ParamState
  <2>3. [p EXCEPT !.clients = Append(@, c)] = [p EXCEPT !.clients = s]
    BY DEF s, ParamState
  <2> QED
    BY <2>2, <2>3
<1>3. ASSUME p.work # <<>>
      PROVE  [p EXCEPT !.work = Tail(@)] \in ParamState /\ Head(p.work) \in ParamValue
  <2> DEFINE s == Tail(p.work)
  <2>1. s \in Seq(ParamValue) /\ Head(p.work) \in ParamValue
    BY <1>1, <1>3, HeadAndTail
  <2> HIDE DEF s
  <2>2. [p EXCEPT !.work = s] \in ParamState
    BY <2>1 DEF ParamState
  <2>3. [p EXCEPT !.work = Tail(@)] = [p EXCEPT !.work = s]
    BY DEF s, ParamState
  <2> QED
    BY <2>1, <2>2, <2>3
<1>4. ASSUME NEW v \in ParamValue
      PROVE  [p EXCEPT !.work = Append(@, v)] \in ParamState
  <2> DEFINE s == Append(p.work, v)
  <2>1. s \in Seq(ParamValue)
    BY <1>1, AppendProperties
  <2> HIDE DEF s
  <2>2. [p EXCEPT !.work = s] \in ParamState
    BY <2>1 DEF ParamState
  <2>3. [p EXCEPT !.work = Append(@, v)] = [p EXCEPT !.work = s]
    BY DEF s, ParamState
  <2> QED
    BY <2>2, <2>3
<1>5. \A v \in ParamValue : [p EXCEPT !.stored = v] \in ParamState
  BY DEF ParamState
<1> QED
  BY <1>2, <1>3, <1>4, <1>5

LEMMA Notifying ==
  ASSUME NEW p \in ParamState, NEW t \in Parameter, NEW v \in ParamValue
  PROVE  /\ setValue(p, v) \in ParamState /\ setError(p) \in ParamState
         /\ notification(t, p, v) \in Event /\ notification(t, p, v).call = "notification"
         /\ errorNotification(t, p) \in Event /\ errorNotification(t, p).call = "error"
<1>1. p.clients \in Seq(Client \cup {Gone})
  BY DEF ParamState
<1>2. restOfClients(p) \in Seq(Client \cup {Gone}) /\ firstClient(p) \in Client \cup {None, Gone}
  <2>1. CASE p.clients = <<>>
    BY <2>1, EmptySeq DEF restOfClients, firstClient
  <2>2. CASE p.clients # <<>>
    BY <1>1, <2>2, HeadAndTail DEF restOfClients, firstClient
  <2> QED
    BY <2>1, <2>2
<1>3. setValue(p, v) \in ParamState
  <2> DEFINE rest == restOfClients(p)
  <2> HIDE DEF rest
  <2>1. [p EXCEPT !.value = v, !.clients = rest] \in ParamState
    BY <1>2 DEF ParamState, rest
  <2> QED
    BY <2>1 DEF setValue, rest
<1>4. setError(p) \in ParamState
  <2> DEFINE rest == restOfClients(p)
  <2> HIDE DEF rest
  <2>1. [p EXCEPT !.clients = rest] \in ParamState
    BY <1>2 DEF ParamState, rest
  <2> QED
    BY <2>1 DEF setError, rest
<1>5. /\ notification(t, p, v) \in Event /\ notification(t, p, v).call = "notification"
      /\ errorNotification(t, p) \in Event /\ errorNotification(t, p).call = "error"
  BY <1>2 DEF notification, errorNotification, Event
<1> QED
  BY <1>3, <1>4, <1>5

LEMMA NotifyStep ==
  ASSUME NEW W, NEW Wc, Handles(W, Wc), ParamOK, NEW w \in W,
         NEW t \in Parameter, NEW p \in ParamState,
         (\E v \in ParamValue : notify(w, t, p, v)) \/ refuse(w, t, p)
  PROVE  scpi' \in W /\ ParamOK'
<1>1. CASE \E v \in ParamValue : notify(w, t, p, v)
  <2>1. PICK v \in ParamValue : notify(w, t, p, v)
    BY <1>1
  <2>2. setValue(p, v) \in ParamState /\ notification(t, p, v) \in Event
        /\ notification(t, p, v).call = "notification"
    BY Notifying
  <2>3. param' = [param EXCEPT ![t] = setValue(p, v)] /\ scpi' = post(w, notification(t, p, v))
    BY <2>1 DEF notify, become
  <2>4. scpi' \in W
    BY <2>2, <2>3 DEF Handles
  <2>5. ParamOK'
    BY <2>2, <2>3 DEF ParamOK, ParamState
  <2> QED
    BY <2>4, <2>5
<1>2. CASE refuse(w, t, p)
  <2>2. setError(p) \in ParamState /\ errorNotification(t, p) \in Event
        /\ errorNotification(t, p).call = "error"
    <3>1. setError(p) \in ParamState
      <4> DEFINE q == restOfClients(p)
      <4>1. p.clients \in Seq(Client \cup {Gone})
        BY DEF ParamState
      <4>2. q \in Seq(Client \cup {Gone})
        <5>1. CASE p.clients = <<>>
          BY <5>1, EmptySeq DEF restOfClients
        <5>2. CASE p.clients # <<>>
          BY <4>1, <5>2, HeadAndTail DEF restOfClients
        <5> QED
          BY <5>1, <5>2
      <4> HIDE DEF q
      <4>3. [p EXCEPT !.clients = q] \in ParamState
        BY <4>2 DEF ParamState
      <4> QED
        BY <4>3 DEF setError, q
    <3>2. ASSUME NEW v \in ParamValue
          PROVE  errorNotification(t, p) \in Event /\ errorNotification(t, p).call = "error"
      BY Notifying
    <3>3. ParamValue # {}
      BY ScpiAssumption
    <3> QED
      BY <3>1, <3>2, <3>3
  <2>3. param' = [param EXCEPT ![t] = setError(p)] /\ scpi' = post(w, errorNotification(t, p))
    BY <1>2 DEF refuse, become
  <2>4. scpi' \in W
    BY <2>2, <2>3 DEF Handles
  <2>5. ParamOK'
    BY <2>2, <2>3 DEF ParamOK, ParamState
  <2> QED
    BY <2>4, <2>5
<1> QED
  BY <1>1, <1>2

LEMMA TransactionStep ==
  ASSUME NEW W, NEW Wc, Handles(W, Wc), ParamOK, NEW w \in W,
         NEW e \in Event, e.call = "transaction", handleTransaction(w, e)
  PROVE  scpi' \in W /\ ParamOK'
<1> DEFINE t == e.target
           outdated == e.old # param[t].stored
           value == IF e.query THEN e.old ELSE e.new
           given == [param[t] EXCEPT !.clients = Append(@, e.client)]
<1>1. t \in Parameter /\ e.client \in Client \cup {Gone}
  BY EventParts
<1>2. param[t] \in ParamState
  BY <1>1 DEF ParamOK, ParamState
<1>3. given \in ParamState /\ given.work = param[t].work
  BY <1>1, <1>2, Queueing
<1>4. CASE outdated
  <2>1. scpi' = meet(w, "outdated") /\ param' = param
    BY <1>4 DEF handleTransaction, become
  <2> QED
    BY <2>1 DEF Handles, ParamOK
<1>5. CASE ~outdated /\ value \notin ParamValue
  <2>1. refuse(w, t, given)
    BY <1>5 DEF handleTransaction
  <2> QED
    BY <1>1, <1>3, <2>1, NotifyStep
<1>6. CASE ~outdated /\ value \in ParamValue /\ (e.query \/ t \notin Deferred)
  <2>1. notify(w, t, given, value)
    BY <1>6 DEF handleTransaction
  <2> QED
    BY <1>1, <1>3, <1>6, <2>1, NotifyStep
<1>7. CASE ~outdated /\ value \in ParamValue /\ ~(e.query \/ t \notin Deferred)
  <2>1. param' = [param EXCEPT ![t] = [given EXCEPT !.work = Append(@, value)]] /\ scpi' = w
    BY <1>7 DEF handleTransaction, become
  <2>2. [given EXCEPT !.work = Append(@, value)] \in ParamState
    BY <1>3, <1>7, Queueing
  <2>3. ParamOK'
    BY <1>1, <2>1, <2>2 DEF ParamOK, ParamState
  <2> QED
    BY <2>1, <2>3
<1> QED
  BY <1>4, <1>5, <1>6, <1>7

\* The newest of the transactions found
LEMMA Newest ==
  ASSUME NEW w \in Good, NEW target, NEW peer, transactionsOf(w, target, peer) # {}
  PROVE  LET i == CHOOSE i \in transactionsOf(w, target, peer) :
                    \A j \in transactionsOf(w, target, peer) : i <= j
         IN  i \in DOMAIN w.store /\ w.store[i].target = target
<1> DEFINE found == transactionsOf(w, target, peer)
<1>1. found \in SUBSET Nat
  BY GoodParts, LenProperties DEF transactionsOf
<1>2. \E i \in found : \A j \in found : i <= j
  <2> HIDE DEF found
  <2> QED
    BY <1>1, LeastNumber DEF found
<1>3. (CHOOSE i \in found : \A j \in found : i <= j) \in found
  BY <1>2
<1> QED
  BY <1>3 DEF transactionsOf

\* What is in the store
LEMMA Stored ==
  ASSUME NEW w \in Good, NEW i \in DOMAIN w.store
  PROVE  /\ w.store[i] \in Transaction
         /\ w.store[i].client \in Client /\ w.store[i].target \in Target
         /\ NameOf[w.store[i].target] \in Name
<1>1. w.store \in Seq(Transaction)
  BY GoodParts
<1>2. i \in 1..Len(w.store)
  BY <1>1, LenProperties
<1>3. w.store[i] \in Transaction
  BY <1>1, <1>2, ElementOfSeq
<1> QED
  BY <1>3 DEF Transaction, Name

LEMMA NotificationStep ==
  ASSUME NEW W \in SUBSET Good, NEW Wc, Handles(W, Wc), NEW w \in W, NEW target \in Parameter, NEW peer
  PROVE  handleComponentData(w, target, peer) \in W
<1> DEFINE found == transactionsOf(w, target, peer)
           i == CHOOSE i \in found : \A j \in found : i <= j
           info == w.store[i]
<1>1. CASE found = {}
  BY <1>1 DEF handleComponentData
<1>2. CASE found # {}
  <2>1. i \in DOMAIN w.store /\ info.target = target
    BY <1>2, Newest
  <2>2. handleComponentData(w, target, peer)
          = handleCmdFinish(postRemove([w EXCEPT !.store = RemoveAt(@, i)], info.client, NameOf[target]),
                            info.client, info.id, "answered")
    BY <1>2, Zenon DEF handleComponentData
  <2> HIDE DEF i, found
  <2>3. transactionEnded(w, i)
          = postRemove([w EXCEPT !.store = RemoveAt(@, i)], info.client, NameOf[target])
    BY <2>1, GoodParts DEF transactionEnded
  <2>4. transactionEnded(w, i) \in W
    BY <2>1 DEF Handles, Parameter
  <2>5. info.client \in Client
    BY <2>1, Stored
  <2>6. handleCmdFinish(transactionEnded(w, i), info.client, info.id, "answered") \in W
    BY <2>4, <2>5 DEF Handles
  <2> QED
    BY <2>2, <2>3, <2>6
<1> QED
  BY <1>1, <1>2

LEMMA ErrorStep ==
  ASSUME NEW W \in SUBSET Good, NEW Wc, Handles(W, Wc), NEW w \in W, NEW target \in Parameter, NEW peer,
         NEW i \in ofEntity(w, target)
  PROVE  handleErrorData(w, target, peer, i) \in W
<1> DEFINE info == w.store[i]
           sameName == NameOf[info.target] = NameOf[target]
           meant == {k \in DOMAIN w.store : w.store[k].target = target /\ w.store[k].client = peer}
           removed == IF sameName THEN [w EXCEPT !.store = RemoveAt(@, i)] ELSE w
           x == postRemove(removed, info.client, NameOf[target])
           y == meetIf(x, ofEntity(w, target) # meant, "crosstalk")
<1>1. handleErrorData(w, target, peer, i) = addEventErrorWithResponse(y, info.client, info.id)
  BY Zenon DEF handleErrorData
<1>2. i \in DOMAIN w.store /\ info.client \in Client
  <2>1. i \in DOMAIN w.store
    BY DEF ofEntity
  <2> QED
    BY <2>1, Stored
<1>3. ASSUME sameName PROVE y \in W
  <2>1. x = transactionEnded(w, i)
    BY <1>3, GoodParts DEF transactionEnded
  <2>2. meet(transactionEnded(w, i), "crosstalk") \in W
    BY <1>2 DEF Handles
  <2>3. ASSUME ofEntity(w, target) = meant PROVE transactionEnded(w, i) \in W
    <3>1. info.target = target
      BY <2>3
    <3> QED
      BY <1>2, <3>1 DEF Handles, Parameter
  <2> HIDE DEF x, meant
  <2> QED
    BY <2>1, <2>2, <2>3 DEF meetIf
<1>4. ASSUME ~sameName PROVE y \in W
  <2>1. i \in ofEntity(w, target) /\ i \notin meant
    BY <1>4
  <2>2. x = postRemove(w, info.client, NameOf[target])
    BY <1>4
  <2>3. ofEntity(w, target) # meant
    BY <2>1
  <2>4. NameOf[target] \in Name
    BY DEF Name, Parameter
  <2>5. meet(postRemove(w, info.client, NameOf[target]), "crosstalk") \in W
    BY <1>2, <2>4 DEF Handles
  <2> HIDE DEF x, meant
  <2> QED
    BY <2>2, <2>3, <2>5 DEF meetIf
<1>5. y \in W
  <2> HIDE DEF y
  <2> QED
    BY <1>3, <1>4
<1> HIDE DEF y
<1> DEFINE st == addEventError(y.client[info.client].status)
<1>6. st \in HonestStatus
  BY <1>2, <1>5, GoodParts, ErrorQueue
<1>7. addEventErrorWithResponse(y, info.client, info.id)
        = handleCmdFinish([y EXCEPT !.client[info.client].status = st], info.client, info.id, "failed")
  BY <1>5, <1>2, GoodParts DEF addEventErrorWithResponse
<1> HIDE DEF st
<1>8. [y EXCEPT !.client[info.client].status = st] \in W
  BY <1>2, <1>5, <1>6 DEF Handles
<1>9. handleCmdFinish([y EXCEPT !.client[info.client].status = st], info.client, info.id, "failed") \in W
  BY <1>2, <1>8 DEF Handles
<1> QED
  BY <1>1, <1>7, <1>9

LEMMA WorkStep ==
  ASSUME NEW W, NEW Wc, Handles(W, Wc), ParamOK, scpi \in W, NEW t \in DOMAIN param, WorkDone(t)
  PROVE  scpi' \in W /\ ParamOK'
<1> DEFINE p == [param[t] EXCEPT !.work = Tail(@)]
<1>1. t \in Parameter /\ param[t] \in ParamState
  BY DEF ParamOK, ParamState
<1>2. p \in ParamState /\ Head(param[t].work) \in ParamValue
  BY <1>1, Queueing DEF WorkDone
<1>3. notify(scpi, t, p, Head(param[t].work)) \/ refuse(scpi, t, p)
  BY DEF WorkDone
<1> HIDE DEF p
<1> QED
  BY <1>1, <1>2, <1>3, NotifyStep

LEMMA ChangedStep ==
  ASSUME NEW W, NEW Wc, Handles(W, Wc), ParamOK, scpi \in W,
         NEW t \in DOMAIN param, NEW v \in ParamValue, Changed(t, v)
  PROVE  scpi' \in W /\ ParamOK'
<1>1. t \in Parameter /\ param[t] \in ParamState
  BY DEF ParamOK, ParamState
<1>2. notify(scpi, t, param[t], v)
  BY DEF Changed
<1> QED
  BY <1>1, <1>2, NotifyStep

LEMMA InputStep ==
  ASSUME NEW W \in SUBSET Good, NEW Wc, Handles(W, Wc), ParamOK, scpi \in W,
         NEW c \in Client, NEW line \in Line, Input(c, line)
  PROVE  scpi' \in W /\ ParamOK'
<1>1. scpi \in Wc[c] /\ Commanded(Wc[c], c) /\ Wc[c] \in SUBSET W
  BY DEF Input, Handles
<1>2. Wc[c] \in SUBSET Good
  BY <1>1
<1>3. execPendingCmds(scpi, c, line) \in Wc[c]
  BY <1>1, <1>2, ExecutingLine
<1>4. scpi' = execPendingCmds(scpi, c, line) /\ param' = param
  BY DEF Input, become
<1> QED
  BY <1>1, <1>3, <1>4 DEF ParamOK

\* The answer to an RPC, or the error it ends with
LEMMA RpcStep ==
  ASSUME NEW W \in SUBSET Good, NEW Wc, Handles(W, Wc), ParamOK, scpi \in W,
         NEW i \in DOMAIN scpi.rpcs, NEW ok, RpcFinished(i, ok)
  PROVE  scpi' \in W /\ ParamOK'
<1> DEFINE r == scpi.rpcs[i]
           w == rpcEnded(scpi, i)
<1>0. scpi \in Good
  OBVIOUS
<1>1. r.client \in Client
  <2>1. scpi.rpcs \in Seq(Transaction) /\ i \in 1..Len(scpi.rpcs)
    BY <1>0, GoodParts, LenProperties
  <2>2. r \in Transaction
    BY <2>1, ElementOfSeq
  <2> QED
    BY <2>2 DEF Transaction
<1>2. w = postRemove([scpi EXCEPT !.rpcs = RemoveAt(@, i), !.store = Only(@, ToSet(scpi.store) \ {r})],
                     r.client, NameOf[r.target])
  <2>1. [scpi EXCEPT !.rpcs = RemoveAt(@, i), !.store = Only(@, ToSet(scpi.store) \ {r})]
          = [[scpi EXCEPT !.rpcs = RemoveAt(scpi.rpcs, i)]
               EXCEPT !.store = Only(scpi.store, ToSet(scpi.store) \ {r})]
    BY <1>0 DEF Good, World
  <2> QED
    BY <2>1 DEF rpcEnded
<1>3. w \in W
  BY DEF Handles
<1>4. param' = param
  BY DEF RpcFinished
<1>5. scpi' = IF r.id # 0 \/ ok THEN handleCmdFinish(w, r.client, r.id, "answered")
              ELSE addEventErrorWithResponse(w, r.client, r.id)
  BY <1>2, Zenon DEF RpcFinished, become
<1> HIDE DEF r, w
<1>6. handleCmdFinish(w, r.client, r.id, "answered") \in W
  BY <1>1, <1>3 DEF Handles
<1>7. addEventErrorWithResponse(w, r.client, r.id) \in W
  <2> DEFINE st == addEventError(w.client[r.client].status)
  <2>1. st \in HonestStatus
    BY <1>1, <1>3, GoodParts, ErrorQueue
  <2>2. addEventErrorWithResponse(w, r.client, r.id)
          = handleCmdFinish([w EXCEPT !.client[r.client].status = st], r.client, r.id, "failed")
    BY <1>1, <1>3, GoodParts DEF addEventErrorWithResponse
  <2> HIDE DEF st
  <2>3. [w EXCEPT !.client[r.client].status = st] \in W
    BY <1>1, <1>3, <2>1 DEF Handles
  <2> QED
    BY <1>1, <2>2, <2>3, ZenonT(30) DEF Handles
<1> QED
  BY <1>4, <1>5, <1>6, <1>7 DEF ParamOK

LEMMA ValueStep ==
  ASSUME NEW W \in SUBSET Good, NEW Wc, Handles(W, Wc), ParamOK, scpi \in W, IsFiniteSet(scpi.connected),
         NEW comp \in Component, Value(comp)
  PROVE  scpi' \in W /\ ParamOK'
<1> DEFINE S == scpi.connected
           s == SetToSeq(S)
<1>0. S \in SUBSET Client
  BY GoodParts
<1>1. s \in [1..Cardinality(S) -> S] /\ Cardinality(S) \in Nat
  <2>1. PICK n \in Nat : ExistsBijection(1..n, S)
    BY FS_NatBijection
  <2>2. Cardinality(S) = n
    BY <2>1, FS_CountingElements
  <2>3. \E f \in [1..Cardinality(S) -> S] : IsInjective(f)
    BY <2>1, <2>2 DEF ExistsBijection, Bijection, Injection, IsInjective
  <2> QED
    BY <2>2, <2>3 DEF SetToSeq
<1> HIDE DEF s
<1>2. s \in Seq(S) /\ Len(s) \in Nat
  BY <1>1, SeqDef, LenProperties
<1>3. \A c \in ToSet(s) : c \in Client
  BY <1>0, <1>2, LenProperties DEF ToSet
<1>4. \A v \in W : \A c \in ToSet(s) : receiveMeasureValue(v, c, comp) \in W
  BY <1>3 DEF Handles
<1>5. \E g : Folds(allReceived(scpi, s, comp), Len(s), W, scpi, g)
  BY <1>2, <1>4, ValueFold
<1>6. allReceived(scpi, s, comp) \in W
  BY <1>2, <1>5, FoldStays
<1>7. scpi' = allReceived(scpi, s, comp) /\ param' = param
  BY Zenon DEF Value, become, allReceived, s
<1> QED
  BY <1>6, <1>7 DEF ParamOK

\* What was posted is handled.
LEMMA EventStep ==
  ASSUME NEW W \in SUBSET Good, NEW Wc, Handles(W, Wc), ParamOK, scpi \in W, PostedEvent
  PROVE  scpi' \in W /\ ParamOK'
<1> DEFINE e == Head(scpi.posted)
           w == taken(scpi)
<1>0. scpi \in Good
  OBVIOUS
<1>1. e \in Event /\ scpi.posted # <<>>
  BY <1>0, GoodParts, HeadAndTail DEF PostedEvent
<1>2. [scpi EXCEPT !.posted = Tail(@)] = w
  BY <1>0 DEF Good, World, taken
<1>3. \/ /\ e.call = "start"
         /\ become(enterInitialState(w, e.client, e.component, e.model)) /\ param' = param
      \/ /\ e.call = "remove"
         /\ become(execCmd([w EXCEPT !.client[e.client].pending = @ \ {e.name}], e.client))
         /\ param' = param
      \/ e.call = "transaction" /\ handleTransaction(w, e)
      \/ /\ e.call = "notification"
         /\ param' = [param EXCEPT ![e.target].stored = e.value]
         /\ become(handleComponentData(w, e.target, e.peer))
      \/ /\ e.call = "error"
         /\ IF ofEntity(w, e.target) = {} THEN become(w)
            ELSE \E i \in ofEntity(w, e.target) : become(handleErrorData(w, e.target, e.peer, i))
         /\ param' = param
  BY <1>2, Zenon DEF PostedEvent
<1> HIDE DEF e, w
<1>4. CASE e.call = "start"
  <2>1. scpi' = enterInitialState(w, e.client, e.component, e.model) /\ param' = param
    BY <1>3, <1>4 DEF become
  <2>2. enterInitialState(w, e.client, e.component, e.model) \in W
    BY <1>1, <1>4, Zenon DEF Handles, e, w
  <2> QED
    BY <2>1, <2>2 DEF ParamOK
<1>5. CASE e.call = "remove"
  <2> DEFINE c == e.client
             u == known(w, c, e.name)
  <2>1. c \in Client
    BY <1>1, <1>5, EventParts
  <2>2. scpi' = execCmd([w EXCEPT !.client[c].pending = @ \ {e.name}], c) /\ param' = param
    BY <1>3, <1>5 DEF become
  <2>3. [w EXCEPT !.client[c].pending = @ \ {e.name}] = u
    BY DEF known
  <2>4. [u EXCEPT !.client[c].active = <<>>] \in Wc[c] /\ (u.client[c].active = <<>> => u \in Wc[c])
    BY <1>1, <1>5, Zenon DEF Handles, e, w
  <2>5. Commanded(Wc[c], c) /\ Wc[c] \in SUBSET Good /\ Wc[c] \in SUBSET W
    BY <2>1 DEF Handles
  <2>6. u.client[c].active \in Seq(Command)
    <3>1. w.client = scpi.client
      BY <1>0 DEF taken, w, Good, World
    <3>2. w.client[c] = scpi.client[c] /\ scpi.client[c] \in ClientState
      BY <1>0, <2>1, <3>1, GoodParts
    <3>3. u.client[c].active = w.client[c].active
      BY <1>0, <2>1, <3>1, <3>2, GoodParts DEF known, ClientState, taken, w
    <3> QED
      BY <3>2, <3>3 DEF ClientState
  <2> HIDE DEF u, c
  <2>7. execCmd(u, c) \in Wc[c]
    BY <2>1, <2>4, <2>5, <2>6, ExecutingActive
  <2> QED
    BY <2>2, <2>3, <2>5, <2>7 DEF ParamOK
<1>6. CASE e.call \notin {"start", "remove"}
  <2>1. w \in W
    BY <1>1, <1>6, Zenon DEF Handles, e, w
  <2>2. e.call \in {"transaction", "notification", "error"}
    BY <1>1, <1>6, EventParts
  <2>3. CASE e.call = "transaction"
    <3>1. handleTransaction(w, e)
      BY <1>3, <2>3
    <3> QED
      BY <1>1, <2>1, <2>3, <3>1, TransactionStep
  <2>4. CASE e.call = "notification"
    <3>1. param' = [param EXCEPT ![e.target].stored = e.value]
          /\ scpi' = handleComponentData(w, e.target, e.peer)
      BY <1>3, <2>4 DEF become
    <3>2. e.target \in Parameter /\ e.value \in ParamValue
      BY <1>1, <2>4, EventParts
    <3>3. handleComponentData(w, e.target, e.peer) \in W
      BY <2>1, <3>2, NotificationStep
    <3>4. ParamOK'
      BY <3>1, <3>2 DEF ParamOK
    <3> QED
      BY <3>1, <3>3, <3>4
  <2>5. CASE e.call = "error"
    <3>1. /\ param' = param
          /\ \/ scpi' = w
             \/ \E i \in ofEntity(w, e.target) : scpi' = handleErrorData(w, e.target, e.peer, i)
      BY <1>3, <2>5 DEF become
    <3>2. e.target \in Parameter
      BY <1>1, <2>5, EventParts
    <3>3. \A i \in ofEntity(w, e.target) : handleErrorData(w, e.target, e.peer, i) \in W
      BY <2>1, <3>2, ErrorStep
    <3> QED
      BY <2>1, <3>1, <3>3 DEF ParamOK
  <2> QED
    BY <2>2, <2>3, <2>4, <2>5
<1> QED
  BY <1>1, <1>4, <1>5, <1>6

-----------------------------------------------------------------------------
(* What is done before answers are given *)

removal(c, name) == [call |-> "remove", client |-> c, name |-> name]

LEMMA Removing ==
  ASSUME NEW w \in Good, NEW c \in Client, NEW name \in Name
  PROVE  LET v == postRemove(w, c, name)
         IN  /\ removal(c, name) \in Event
             /\ v \in Good /\ AllBut(w, v, {"posted"})
             /\ v.posted = Append(w.posted, removal(c, name))
<1> DEFINE e == removal(c, name)
<1>1. e \in Event
  BY DEF removal, Event
<1>2. postRemove(w, c, name) = post(w, e)
  BY DEF postRemove, removal
<1> HIDE DEF e
<1>3. post(w, e) \in Good /\ AllBut(w, post(w, e), {"posted"}) /\ post(w, e).posted = Append(w.posted, e)
  BY <1>1, Posting
<1> QED
  BY <1>1, <1>2, <1>3 DEF e

\* A transaction leaves the store.
LEMMA EndingTransaction ==
  ASSUME NEW w \in Good, NEW i \in DOMAIN w.store
  PROVE  LET v == transactionEnded(w, i)
             info == w.store[i]
         IN  /\ v \in Good /\ AllBut(w, v, {"store", "posted"})
             /\ v.store = RemoveAt(w.store, i)
             /\ v.posted = Append(w.posted, removal(info.client, NameOf[info.target]))
<1> DEFINE info == w.store[i]
           store == RemoveAt(w.store, i)
           x == [w EXCEPT !.store = store]
           v == postRemove(x, info.client, NameOf[info.target])
<1>1. w.store \in Seq(Transaction)
  BY GoodParts
<1>2. store \in Seq(Transaction) /\ ToSet(store) \subseteq ToSet(w.store)
  <2>1. store \in Seq(Transaction) /\ ToSet(store) = {w.store[j] : j \in DOMAIN w.store \ {i}}
    BY <1>1, Removed
  <2>2. ToSet(w.store) = {w.store[j] : j \in DOMAIN w.store}
    BY <1>1, LenProperties DEF ToSet
  <2> QED
    BY <2>1, <2>2
<1> HIDE DEF store
<1>3. \A y \in ToSet(store) : Given(w, y.id)
  BY <1>2, GoodParts
<1>4. x \in Good /\ AllBut(w, x, {"store"}) /\ x.store = store
  BY <1>2, <1>3, Put
<1>5. info.client \in Client /\ NameOf[info.target] \in Name
  BY Stored
<1>6. transactionEnded(w, i) = v
  BY DEF transactionEnded, store
<1> HIDE DEF info, x
<1>7. v \in Good /\ AllBut(x, v, {"posted"})
      /\ v.posted = Append(x.posted, removal(info.client, NameOf[info.target]))
  BY <1>4, <1>5, Removing
<1> HIDE DEF v
<1>8. AllBut(w, v, {"store", "posted"}) /\ v.store = store /\ x.posted = w.posted
  BY <1>4, <1>7 DEF AllBut
<1> QED
  BY <1>6, <1>7, <1>8 DEF info, store

\* An RPC ends.
LEMMA EndingRpc ==
  ASSUME NEW w \in Good, NEW i \in DOMAIN w.rpcs
  PROVE  LET v == rpcEnded(w, i)
             r == w.rpcs[i]
         IN  /\ r \in Transaction
             /\ v \in Good /\ AllBut(w, v, {"rpcs", "store", "posted"})
             /\ v.rpcs = RemoveAt(w.rpcs, i)
             /\ v.store = Only(w.store, ToSet(w.store) \ {r})
             /\ v.posted = Append(w.posted, removal(r.client, NameOf[r.target]))
<1> DEFINE r == w.rpcs[i]
           rpcs == RemoveAt(w.rpcs, i)
           store == Only(w.store, ToSet(w.store) \ {r})
           x == [w EXCEPT !.rpcs = rpcs]
           y == [x EXCEPT !.store = store]
           v == postRemove(y, r.client, NameOf[r.target])
<1>1. w.store \in Seq(Transaction) /\ w.rpcs \in Seq(Transaction)
  BY GoodParts
<1>2. rpcs \in Seq(Transaction) /\ ToSet(rpcs) \subseteq ToSet(w.rpcs)
  <2>1. rpcs \in Seq(Transaction) /\ ToSet(rpcs) = {w.rpcs[j] : j \in DOMAIN w.rpcs \ {i}}
    BY <1>1, Removed
  <2>2. ToSet(w.rpcs) = {w.rpcs[j] : j \in DOMAIN w.rpcs}
    BY <1>1, LenProperties DEF ToSet
  <2> QED
    BY <2>1, <2>2
<1>3. store \in Seq(Transaction) /\ ToSet(store) \subseteq ToSet(w.store)
  BY <1>1, OnlyElements
<1>4. r \in Transaction
  BY <1>1, LenProperties, ElementOfSeq
<1>5. r.client \in Client /\ NameOf[r.target] \in Name
  BY <1>4 DEF Transaction, Name
<1>6. rpcEnded(w, i) = v
  BY DEF rpcEnded
<1> HIDE DEF rpcs, store, r
<1>7. \A z \in ToSet(rpcs) : Given(w, z.id)
  BY <1>2, GoodParts
<1>8. x \in Good /\ AllBut(w, x, {"rpcs"}) /\ x.rpcs = rpcs
  BY <1>2, <1>7, Put
<1> HIDE DEF x
<1>9. \A z \in ToSet(store) : Given(x, z.id)
  BY <1>3, <1>8, GoodParts DEF Given, AllBut
<1>10. y \in Good /\ AllBut(x, y, {"store"}) /\ y.store = store
  BY <1>3, <1>8, <1>9, Put
<1> HIDE DEF y
<1>11. v \in Good /\ AllBut(y, v, {"posted"})
       /\ v.posted = Append(y.posted, removal(r.client, NameOf[r.target]))
  BY <1>5, <1>10, Removing
<1> HIDE DEF v
<1>12. AllBut(w, v, {"rpcs", "store", "posted"}) /\ v.rpcs = rpcs /\ v.store = store
       /\ y.posted = w.posted
  BY <1>8, <1>10, <1>11 DEF AllBut
<1> QED
  BY <1>4, <1>6, <1>11, <1>12 DEF r, store, rpcs

\* An event is taken from the queue; its name is not pending any more.
LEMMA Taking ==
  ASSUME NEW w \in Good, w.posted # <<>>
  PROVE  /\ Head(w.posted) \in Event
         /\ taken(w) \in Good /\ AllBut(w, taken(w), {"posted"}) /\ taken(w).posted = Tail(w.posted)
<1>1. w.posted \in Seq(Event)
  BY GoodParts
<1>2. Head(w.posted) \in Event /\ Tail(w.posted) \in Seq(Event)
  BY <1>1, HeadAndTail
<1> DEFINE t == Tail(w.posted)
           v == [w EXCEPT !.posted = t]
<1> HIDE DEF t
<1>3. v \in Good /\ AllBut(w, v, {"posted"}) /\ v.posted = t
  BY <1>2, Put DEF t
<1> QED
  BY <1>2, <1>3 DEF taken, t

LEMMA Knowing ==
  ASSUME NEW w \in Good, NEW c \in Client, NEW name
  PROVE  /\ known(w, c, name) \in Good
         /\ ClientBut(w, known(w, c, name), c, {"pending"})
         /\ known(w, c, name).client[c].pending = w.client[c].pending \ {name}
<1> DEFINE pending == w.client[c].pending \ {name}
           v == [w EXCEPT !.client[c].pending = pending]
<1>1. pending \in SUBSET Name
  BY GoodParts DEF ClientState
<1> HIDE DEF pending
<1>2. \A x \in SUBSET Name :
        LET u == [w EXCEPT !.client[c].pending = x]
        IN  u \in Good /\ ClientBut(w, u, c, {"pending"}) /\ u.client[c].pending = x
  BY PutPart
<1>3. v \in Good /\ ClientBut(w, v, c, {"pending"}) /\ v.client[c].pending = pending
  BY <1>1, <1>2, Zenon
<1> QED
  BY <1>3 DEF known, pending

-----------------------------------------------------------------------------
(* What depends on the queries only *)

OfQueries(W) ==
  /\ \A w \in W, v \in Good :
       v.query = w.query /\ v.delayed = w.delayed /\ v.connected = w.connected => v \in W
  /\ \A w \in W, c \in Client :
       /\ issued(w, c) \in W
       /\ \A id : \A answer \in Fate \ {"open"} : handleCmdFinish(w, c, id, answer) \in W

LEMMA QueriesUnmeasured ==
  ASSUME NEW W \in SUBSET Good, OfQueries(W), NEW c \in Client
  PROVE  Unmeasured(W, c)
<1> SUFFICES ASSUME NEW w \in W
             PROVE  /\ \A x \in SUBSET Component : /\ [w EXCEPT !.client[c].sequences = x] \in W
                                                  /\ [w EXCEPT !.client[c].valued = x] \in W
                                                  /\ [w EXCEPT !.client[c].awaited = x] \in W
                    /\ \A x \in Seq(Task) :
                         (\A t \in ToSet(x) : Given(w, t.id)) => [w EXCEPT !.client[c].executing = x] \in W
                    /\ \A x \in Seq(Component \X MeasureModel) : [w EXCEPT !.client[c].running = x] \in W
                    /\ \A x \in Circumstance : meet(w, x) \in W
                    /\ \A comp \in Component, model \in MeasureModel : post(w, start(c, comp, model)) \in W
                    /\ \A id : \A answer \in Fate \ {"open"} : handleCmdFinish(w, c, id, answer) \in W
  BY Zenon DEF Unmeasured
<1>0. w \in Good
  OBVIOUS
<1>1. ASSUME NEW v \in Good, v.query = w.query, v.delayed = w.delayed, v.connected = w.connected
      PROVE  v \in W
  BY <1>1 DEF OfQueries
<1>2. ASSUME NEW x \in SUBSET Component
      PROVE  /\ [w EXCEPT !.client[c].sequences = x] \in W
             /\ [w EXCEPT !.client[c].valued = x] \in W
             /\ [w EXCEPT !.client[c].awaited = x] \in W
  <2>1. LET v == [w EXCEPT !.client[c].awaited = x]
        IN  v \in Good /\ ClientBut(w, v, c, {"awaited"})
    BY <1>0, <1>2, PutAwaited
  <2>2. LET v == [w EXCEPT !.client[c].sequences = x]
        IN  v \in Good /\ ClientBut(w, v, c, {"sequences"})
    BY <1>0, <1>2, PutSequences
  <2>3. LET v == [w EXCEPT !.client[c].valued = x]
        IN  v \in Good /\ ClientBut(w, v, c, {"valued"})
    BY <1>0, <1>2, PutValued
  <2> QED
    BY <1>1, <2>1, <2>2, <2>3 DEF ClientBut, AllBut
<1>3. ASSUME NEW x \in Seq(Task), \A t \in ToSet(x) : Given(w, t.id)
      PROVE  [w EXCEPT !.client[c].executing = x] \in W
  <2>1. LET v == [w EXCEPT !.client[c].executing = x]
        IN  v \in Good /\ ClientBut(w, v, c, {"executing"}) /\ v.client[c].executing = x
    BY <1>0, <1>3, PutPart
  <2> QED
    BY <1>1, <2>1 DEF ClientBut, AllBut
<1>4. ASSUME NEW x \in Seq(Component \X MeasureModel)
      PROVE  [w EXCEPT !.client[c].running = x] \in W
  <2>1. LET v == [w EXCEPT !.client[c].running = x]
        IN  v \in Good /\ ClientBut(w, v, c, {"running"}) /\ v.client[c].running = x
    BY <1>0, PutPart
  <2> QED
    BY <1>1, <2>1 DEF ClientBut, AllBut
<1>5. ASSUME NEW x \in Circumstance PROVE meet(w, x) \in W
  <2>1. meet(w, x) \in Good /\ AllBut(w, meet(w, x), {"met"})
    BY Meeting
  <2> QED
    BY <1>1, <2>1 DEF AllBut
<1>6. ASSUME NEW comp \in Component, NEW model \in MeasureModel
      PROVE  post(w, start(c, comp, model)) \in W
  <2> DEFINE e == start(c, comp, model)
  <2>1. e \in Event
    BY Starting
  <2> HIDE DEF e
  <2>2. post(w, e) \in Good /\ AllBut(w, post(w, e), {"posted"})
    BY <2>1, Posting
  <2> QED
    BY <1>1, <2>2 DEF AllBut, e
<1>7. \A id : \A answer \in Fate \ {"open"} : handleCmdFinish(w, c, id, answer) \in W
  BY DEF OfQueries
<1> QED
  BY <1>2, <1>3, <1>4, <1>5, <1>6, <1>7

LEMMA QueriesCommanded ==
  ASSUME NEW W \in SUBSET Good, OfQueries(W), NEW c \in Client, ParamOK
  PROVE  Commanded(W, c)
<1> SUFFICES ASSUME NEW w \in W
             PROVE  /\ issued(w, c) \in W
                    /\ \A st \in HonestStatus : [w EXCEPT !.client[c].status = st] \in W
                    /\ \A id : \A answer \in {"answered", "failed"} : handleCmdFinish(w, c, id, answer) \in W
                    /\ \A cmd \in Command : \A id : Given(w, id) =>
                         /\ cmd.kind = "parameter" /\ cmd.target \notin Future =>
                              executeParameter(w, c, cmd, id) \in W
                         /\ cmd.kind = "rpc" => executeScpiRpc(w, c, cmd, id) \in W
                         /\ cmd.kind = "measure" => executeMeasure(w, c, cmd.node, id) \in W
                    /\ [w EXCEPT !.client[c].active = <<>>] \in W
                    /\ w.client[c].pending # {} => \A cmd \in Command :
                         [w EXCEPT !.client[c].active = Append(w.client[c].active, cmd)] \in W
  BY Zenon DEF Commanded
<1>0. w \in Good
  OBVIOUS
<1>1. ASSUME NEW v \in Good, v.query = w.query, v.delayed = w.delayed, v.connected = w.connected
      PROVE  v \in W
  BY <1>1 DEF OfQueries
<1>2. issued(w, c) \in W
  BY DEF OfQueries
<1>3. ASSUME NEW st \in HonestStatus
      PROVE  [w EXCEPT !.client[c].status = st] \in W
  <2>1. LET v == [w EXCEPT !.client[c].status = st]
        IN  v \in Good /\ ClientBut(w, v, c, {"status"}) /\ v.client[c].status = st
    BY <1>0, PutPart
  <2> QED
    BY <1>1, <2>1 DEF ClientBut, AllBut
<1>4. \A id : \A answer \in {"answered", "failed"} : handleCmdFinish(w, c, id, answer) \in W
  BY DEF OfQueries, Fate
<1>5. ASSUME NEW cmd \in Command, NEW id, Given(w, id), cmd.kind = "parameter", cmd.target \notin Future
      PROVE  executeParameter(w, c, cmd, id) \in W
  <2> DEFINE v == executeParameter(w, c, cmd, id)
  <2>1. v \in Good /\ AllBut(w, v, {"store", "client", "posted", "met"})
    BY <1>0, <1>5, Sending
  <2> HIDE DEF v
  <2>2. v \in W
    BY <1>1, <2>1 DEF AllBut
  <2> QED
    BY <2>2 DEF v
<1>6. ASSUME NEW cmd \in Command, NEW id, Given(w, id), cmd.kind = "rpc"
      PROVE  executeScpiRpc(w, c, cmd, id) \in W
  <2> DEFINE v == executeScpiRpc(w, c, cmd, id)
  <2>1. v \in Good /\ \/ AllBut(w, v, {"store", "rpcs", "client", "met"})
                      \/ AllBut(w, v, {"rpcs", "met"}) \/ AllBut(w, v, {"met"})
    BY <1>0, <1>6, Invoking
  <2> HIDE DEF v
  <2>2. v \in W
    BY <1>1, <2>1 DEF AllBut
  <2> QED
    BY <2>2 DEF v
<1>7. ASSUME NEW cmd \in Command, NEW id, Given(w, id), cmd.kind = "measure"
      PROVE  executeMeasure(w, c, cmd.node, id) \in W
  <2>1. cmd.node \in Node
    BY <1>7 DEF Node
  <2> QED
    BY <1>7, <2>1, QueriesUnmeasured, Measuring
<1>8. ASSUME NEW active \in Seq(Command)
      PROVE  [w EXCEPT !.client[c].active = active] \in W
  <2>1. LET v == [w EXCEPT !.client[c].active = active]
        IN  v \in Good /\ ClientBut(w, v, c, {"active"}) /\ v.client[c].active = active
    BY <1>0, PutPart
  <2> QED
    BY <1>1, <2>1 DEF ClientBut, AllBut
<1>9. [w EXCEPT !.client[c].active = <<>>] \in W
  BY <1>8, EmptySeq
<1>10. ASSUME NEW cmd \in Command
       PROVE  [w EXCEPT !.client[c].active = Append(w.client[c].active, cmd)] \in W
  <2>1. Append(w.client[c].active, cmd) \in Seq(Command)
    BY <1>0, GoodParts, AppendProperties DEF ClientState
  <2> QED
    BY <1>8, <2>1
<1> QED
  BY <1>2, <1>3, <1>4, <1>5, <1>6, <1>7, <1>9, <1>10

LEMMA QueriesHandled ==
  ASSUME NEW W \in SUBSET Good, OfQueries(W), ParamOK
  PROVE  Handles(W, [c \in Client |-> W])
<1> DEFINE Wc == [c \in Client |-> W]
<1>1. ASSUME NEW c \in Client
      PROVE  Wc[c] = W /\ Commanded(W, c) /\ Unmeasured(W, c)
  BY QueriesCommanded, QueriesUnmeasured
<1>2. ASSUME NEW w \in W, NEW v \in Good, v.query = w.query, v.delayed = w.delayed, v.connected = w.connected
      PROVE  v \in W
  BY <1>2 DEF OfQueries
<1>3. \A w \in W, c \in Client : \A id : \A answer \in {"answered", "failed"} :
        handleCmdFinish(w, c, id, answer) \in W
  BY DEF OfQueries, Fate
<1>4. ASSUME NEW w \in W, NEW x \in Circumstance PROVE meet(w, x) \in W
  <2>1. meet(w, x) \in Good /\ AllBut(w, meet(w, x), {"met"})
    BY Meeting
  <2> QED
    BY <1>2, <2>1 DEF AllBut
<1>5. ASSUME NEW w \in W, NEW e \in Event PROVE post(w, e) \in W
  <2>1. post(w, e) \in Good /\ AllBut(w, post(w, e), {"posted"})
    BY Posting
  <2> QED
    BY <1>2, <2>1 DEF AllBut
<1>6. ASSUME NEW w \in W, NEW i \in DOMAIN w.store
      PROVE  /\ transactionEnded(w, i) \in W
             /\ meet(transactionEnded(w, i), "crosstalk") \in W
             /\ \A name \in Name : meet(postRemove(w, w.store[i].client, name), "crosstalk") \in W
  <2> DEFINE v == transactionEnded(w, i)
  <2>1. v \in Good /\ AllBut(w, v, {"store", "posted"})
    BY EndingTransaction
  <2> HIDE DEF v
  <2>2. v \in W /\ meet(v, "crosstalk") \in W
    BY <1>2, <1>4, <2>1 DEF AllBut, Circumstance
  <2>3. ASSUME NEW name \in Name
        PROVE  meet(postRemove(w, w.store[i].client, name), "crosstalk") \in W
    <3> DEFINE u == postRemove(w, w.store[i].client, name)
    <3>1. w.store[i].client \in Client
      BY Stored
    <3>2. u \in Good /\ AllBut(w, u, {"posted"})
      BY <3>1, Removing
    <3> HIDE DEF u
    <3>3. u \in W
      BY <1>2, <3>2 DEF AllBut
    <3> QED
      BY <1>4, <3>3 DEF u, Circumstance
  <2> QED
    BY <2>2, <2>3 DEF v
<1>7. ASSUME NEW w \in W, NEW i \in DOMAIN w.rpcs
      PROVE  rpcEnded(w, i) \in W
  <2> DEFINE v == rpcEnded(w, i)
  <2>1. v \in Good /\ AllBut(w, v, {"rpcs", "store", "posted"})
    BY EndingRpc
  <2> HIDE DEF v
  <2> QED
    BY <1>2, <2>1 DEF AllBut, v
<1>8. ASSUME NEW w \in W, w.posted # <<>>
      PROVE  LET e == Head(w.posted)
             IN  /\ e.call = "start" => enterInitialState(taken(w), e.client, e.component, e.model) \in W
                 /\ e.call = "remove" =>
                      LET u == known(taken(w), e.client, e.name)
                      IN  /\ [u EXCEPT !.client[e.client].active = <<>>] \in Wc[e.client]
                          /\ u.client[e.client].active = <<>> => u \in Wc[e.client]
                 /\ e.call \notin {"start", "remove"} => taken(w) \in W
  <2> DEFINE e == Head(w.posted)
             v == taken(w)
  <2>1. e \in Event /\ v \in Good /\ AllBut(w, v, {"posted"})
    BY <1>8, Taking
  <2> HIDE DEF e, v
  <2>2. v \in W
    BY <1>2, <2>1 DEF AllBut
  <2>3. ASSUME e.call = "start"
        PROVE  enterInitialState(v, e.client, e.component, e.model) \in W
    BY <1>1, <2>1, <2>2, <2>3, EventParts, Entering
  <2>4. ASSUME e.call = "remove"
        PROVE  LET u == known(v, e.client, e.name)
               IN  /\ [u EXCEPT !.client[e.client].active = <<>>] \in Wc[e.client]
                   /\ u.client[e.client].active = <<>> => u \in Wc[e.client]
    <3> DEFINE c == e.client
               u == known(v, c, e.name)
    <3>1. c \in Client
      BY <2>1, <2>4, EventParts
    <3> HIDE DEF c
    <3>2. u \in Good /\ ClientBut(v, u, c, {"pending"})
      BY <2>1, <3>1, Knowing
    <3> HIDE DEF u
    <3>3. u \in W
      BY <1>2, <2>2, <3>2 DEF ClientBut, AllBut
    <3>4. [u EXCEPT !.client[c].active = <<>>] \in W
      BY <1>1, <3>1, <3>3 DEF Commanded
    <3> QED
      BY <1>1, <3>1, <3>3, <3>4 DEF u, c
  <2> QED
    BY <2>2, <2>3, <2>4 DEF e, v
<1>9. ASSUME NEW w \in W, NEW c \in Client, NEW comp \in Component
      PROVE  receiveMeasureValue(w, c, comp) \in W
  BY <1>1, Receiving
<1>10. \A w \in W, c \in Client : \A st \in HonestStatus : [w EXCEPT !.client[c].status = st] \in W
  BY <1>1 DEF Commanded
<1>11. \A c \in Client : Wc[c] \in SUBSET W /\ Commanded(Wc[c], c)
  BY <1>1
<1>12. \A w \in W, c \in Client : w \in Wc[c]
  BY <1>1
<1>13. \A w \in W, e \in Event : post(w, e) \in W
  BY <1>5
<1>14. \A w \in W : meet(w, "outdated") \in W
  BY <1>4 DEF Circumstance
<1> HIDE DEF Wc
<1>15. Handles(W, Wc)
  BY <1>3, <1>6, <1>7, <1>8, <1>9, <1>10, <1>11, <1>12, <1>13, <1>14, Zenon DEF Handles
<1> QED
  BY <1>15 DEF Wc

\* Good itself, and with the connections there are
LEMMA GoodOfQueries ==
  ASSUME NEW w0 \in Good
  PROVE  OfQueries({v \in Good : v.connected = w0.connected})
<1>1. ASSUME NEW w \in Good, NEW c \in Client
      PROVE  issued(w, c) \in Good /\ issued(w, c).connected = w.connected
  BY Issuing DEF AllBut
<1>2. ASSUME NEW w \in Good, NEW c \in Client, NEW id, NEW answer \in Fate \ {"open"}
      PROVE  LET v == handleCmdFinish(w, c, id, answer)
             IN  v \in Good /\ v.connected = w.connected
  BY Finishing DEF Finished, AllBut
<1> QED
  BY <1>1, <1>2 DEF OfQueries

-----------------------------------------------------------------------------
(* Clients come and go *)

connecting(w, c) == [w EXCEPT !.connected = @ \cup {c}, !.client[c] = freshClient]

LEMMA FreshClient ==
  /\ freshClient \in ClientState /\ freshClient.status \in HonestStatus
  /\ ToSet(freshClient.executing) = {}
<1>1. freshStatus \in HonestStatus /\ freshStatus \in Status
  BY FreshStatus DEF HonestStatus
<1>2. \A S : <<>> \in Seq(S)
  BY EmptySeq
<1>3. freshClient \in ClientState
  BY <1>1, <1>2 DEF freshClient, ClientState
<1> QED
  BY <1>1, <1>3, EmptySeq DEF freshClient, ToSet

LEMMA PutConnected ==
  ASSUME NEW w \in Good, NEW x \in SUBSET Client
  PROVE  LET v == [w EXCEPT !.connected = x]
         IN  v \in Good /\ AllBut(w, v, {"connected"}) /\ v.connected = x
<1> DEFINE v == [w EXCEPT !.connected = x]
<1>1. v \in Parts /\ AllBut(w, v, {"connected"}) /\ v.connected = x
  BY DEF Good, World, Parts, AllBut
<1> HIDE DEF v
<1>2. v \in Good
  BY <1>1, GoodParts, MakeGood DEF AllBut, Given
<1> QED
  BY <1>1, <1>2 DEF v

LEMMA Connecting ==
  ASSUME NEW w \in Good, NEW c \in Client
  PROVE  LET v == connecting(w, c)
         IN  /\ v \in Good /\ AllBut(w, v, {"connected", "client"})
             /\ v.connected = w.connected \cup {c}
             /\ v.client[c] = freshClient
             /\ \A d \in Client \ {c} : v.client[d] = w.client[d]
<1> DEFINE connected == w.connected \cup {c}
           x == [w EXCEPT !.connected = connected]
           v == [x EXCEPT !.client[c] = freshClient]
<1>1. connecting(w, c) = v
  BY DEF connecting, Good, World
<1>2. connected \in SUBSET Client
  BY GoodParts
<1> HIDE DEF connected
<1>3. x \in Good /\ AllBut(w, x, {"connected"}) /\ x.connected = connected
  BY <1>2, PutConnected
<1> HIDE DEF x
<1>4. /\ v \in Good /\ AllBut(x, v, {"client"}) /\ v.client[c] = freshClient
      /\ \A d \in Client \ {c} : v.client[d] = x.client[d]
  BY <1>3, FreshClient, PutClient
<1> HIDE DEF v
<1>5. /\ AllBut(w, v, {"connected", "client"}) /\ v.connected = connected
      /\ x.client = w.client
  BY <1>3, <1>4 DEF AllBut
<1> QED
  BY <1>1, <1>4, <1>5 DEF connected

\* What is left of the module without the client c
remainingEvents(w, c) ==
  Only(w.posted, {e \in ToSet(w.posted) : e.call \in {"start", "remove"} => e.client # c})
nobodysEvent(c, e) ==
  IF e.call = "transaction" /\ e.client = c THEN [e EXCEPT !.client = Gone]
  ELSE IF e.call \in {"notification", "error"} /\ e.peer = c THEN [e EXCEPT !.peer = Gone] ELSE e
nobodysEvents(w, c) ==
  [k \in DOMAIN remainingEvents(w, c) |-> nobodysEvent(c, remainingEvents(w, c)[k])]
endedQuery(c, q) == IF q.client = c /\ q.fate = "open" THEN [q EXCEPT !.fate = "gone"] ELSE q
endedQueries(w, c) == [k \in DOMAIN w.query |-> endedQuery(c, w.query[k])]
leaving(w, c) ==
  [w EXCEPT !.connected = @ \ {c}, !.client[c] = freshClient, !.store = ofOthers(w, c),
            !.posted = nobodysEvents(w, c), !.query = endedQueries(w, c),
            !.delayed = @ \ heldBack(w, c)]

LEMMA NobodysEvent ==
  ASSUME NEW e \in Event, NEW c \in Client
  PROVE  /\ nobodysEvent(c, e) \in Event /\ nobodysEvent(c, e).call = e.call
         /\ e.call \in {"start", "remove"} => nobodysEvent(c, e) = e
<1>1. CASE e.call = "transaction"
  BY <1>1 DEF Event, nobodysEvent
<1>2. CASE e.call = "notification"
  BY <1>2 DEF Event, nobodysEvent
<1>3. CASE e.call = "error"
  BY <1>3 DEF Event, nobodysEvent
<1>4. CASE e.call \in {"start", "remove"}
  BY <1>4 DEF nobodysEvent
<1> QED
  BY <1>1, <1>2, <1>3, <1>4, EventParts

LEMMA Leaving ==
  ASSUME NEW w \in Good, NEW c \in Client
  PROVE  LET v == leaving(w, c)
         IN  /\ v \in Good /\ AllBut(w, v, {"connected", "client", "store", "posted", "query", "delayed"})
             /\ v.connected = w.connected \ {c}
             /\ v.client[c] = freshClient
             /\ \A d \in Client \ {c} : v.client[d] = w.client[d]
             /\ v.store = ofOthers(w, c) /\ v.posted = nobodysEvents(w, c)
             /\ remainingEvents(w, c) \in Seq(Event)
             /\ v.query = endedQueries(w, c)
             /\ v.delayed = w.delayed \ heldBack(w, c)
<1> DEFINE connected == w.connected \ {c}
           store == ofOthers(w, c)
           posted == nobodysEvents(w, c)
           query == endedQueries(w, c)
           delayed == w.delayed \ heldBack(w, c)
           x == [w EXCEPT !.connected = connected]
           y == [x EXCEPT !.client[c] = freshClient]
           z == [y EXCEPT !.store = store]
           p == [z EXCEPT !.posted = posted]
           q == [p EXCEPT !.query = query]
           v == [q EXCEPT !.delayed = delayed]
<1>1. leaving(w, c) = v
  BY DEF leaving, Good, World
<1>2. connected \in SUBSET Client
  BY GoodParts
<1> HIDE DEF connected
<1>3. x \in Good /\ AllBut(w, x, {"connected"}) /\ x.connected = connected
  BY <1>2, PutConnected
<1> HIDE DEF x
<1>4. /\ y \in Good /\ AllBut(x, y, {"client"}) /\ y.client[c] = freshClient
      /\ \A d \in Client \ {c} : y.client[d] = x.client[d]
  BY <1>3, FreshClient, PutClient
<1> HIDE DEF y
<1>5. AllBut(w, y, {"connected", "client"}) /\ x.client = w.client
  BY <1>3, <1>4 DEF AllBut
<1>6. store \in Seq(Transaction) /\ ToSet(store) \subseteq ToSet(w.store)
  <2>1. w.store \in Seq(Transaction)
    BY GoodParts
  <2> QED
    BY <2>1, OnlyElements DEF ofOthers
<1> HIDE DEF store
<1>7. \A i \in ToSet(store) : Given(y, i.id)
  BY <1>5, <1>6, GoodParts DEF AllBut, Given
<1>8. z \in Good /\ AllBut(y, z, {"store"}) /\ z.store = store
  BY <1>4, <1>6, <1>7, Put
<1> HIDE DEF z
<1>9. remainingEvents(w, c) \in Seq(Event)
  <2>1. w.posted \in Seq(Event)
    BY GoodParts
  <2> QED
    BY <2>1, OnlyElements DEF remainingEvents
<1>10. posted \in Seq(Event)
  <2> DEFINE r == remainingEvents(w, c)
  <2>1. Len(r) \in Nat /\ DOMAIN r = 1..Len(r) /\ \A k \in DOMAIN r : r[k] \in Event
    BY <1>9, LenProperties, ElementOfSeq
  <2> HIDE DEF r
  <2>2. \A k \in 1..Len(r) : nobodysEvent(c, r[k]) \in Event
    BY <2>1, NobodysEvent
  <2>3. [k \in 1..Len(r) |-> nobodysEvent(c, r[k])] \in Seq(Event)
    BY <2>1, <2>2, SequenceOf
  <2> QED
    BY <2>1, <2>3 DEF nobodysEvents, r
<1> HIDE DEF posted
<1>11. p \in Good /\ AllBut(z, p, {"posted"}) /\ p.posted = posted
  BY <1>8, <1>10, Put
<1> HIDE DEF p
<1>12. p.query = w.query /\ p.delayed = w.delayed
  BY <1>5, <1>8, <1>11 DEF AllBut
<1>13. query \in Seq([client : Client, fate : Fate]) /\ Len(query) = Len(w.query)
  <2> DEFINE Q == [client : Client, fate : Fate]
  <2>1. /\ w.query \in Seq(Q) /\ Len(w.query) \in Nat /\ DOMAIN w.query = 1..Len(w.query)
        /\ \A k \in DOMAIN w.query : w.query[k] \in Q
    BY GoodParts, ElementOfSeq
  <2>2. \A r \in Q : endedQuery(c, r) \in Q
    BY DEF endedQuery, Fate
  <2>3. \A k \in 1..Len(w.query) : endedQuery(c, w.query[k]) \in Q
    BY <2>1, <2>2
  <2>4. query = [k \in 1..Len(w.query) |-> endedQuery(c, w.query[k])]
    BY <2>1 DEF endedQueries
  <2> HIDE DEF Q, query
  <2> QED
    BY <2>1, <2>3, <2>4, SequenceOf DEF Q
<1> HIDE DEF query
<1>14. q \in Good /\ AllBut(p, q, {"query"}) /\ q.query = query
  <2>1. Len(query) >= Len(p.query)
    BY <1>12, <1>13, GoodParts
  <2> QED
    BY <1>11, <1>13, <2>1, Put
<1> HIDE DEF q
<1>15. delayed \in SUBSET DOMAIN q.query
  <2>1. DOMAIN query = DOMAIN w.query
    BY <1>13, GoodParts, LenProperties
  <2>2. w.delayed \subseteq DOMAIN w.query
    BY GoodParts
  <2> QED
    BY <1>14, <2>1, <2>2
<1> HIDE DEF delayed
<1>16. v \in Good /\ AllBut(q, v, {"delayed"}) /\ v.delayed = delayed
  BY <1>14, <1>15, Put, ZenonT(30)
<1> HIDE DEF v
<1>17. /\ AllBut(w, v, {"connected", "client", "store", "posted", "query", "delayed"})
       /\ v.connected = connected /\ v.client = y.client /\ v.store = store
       /\ v.posted = posted /\ v.query = query /\ v.delayed = delayed
  BY <1>3, <1>4, <1>8, <1>11, <1>14, <1>16 DEF AllBut
<1> QED
  BY <1>1, <1>4, <1>5, <1>9, <1>16, <1>17 DEF connected, store, posted, query, delayed

\* Disconnect in terms of these
orphaned(w, c) == meetIf(leaving(w, c), \E r \in ToSet(w.rpcs) : r.client = c, "orphan")

LEMMA DisconnectStep ==
  ASSUME NEW c \in Client, scpi \in Good, ParamOK, Disconnect(c)
  PROVE  /\ c \in scpi.connected
         /\ scpi' = orphaned(scpi, c) /\ scpi' \in Good
         /\ AllBut(leaving(scpi, c), scpi', {"met"})
         /\ scpi.met \subseteq scpi'.met
         /\ (\E r \in ToSet(scpi.rpcs) : r.client = c) => "orphan" \in scpi'.met
         /\ ParamOK'
         /\ UNCHANGED <<sorting, lines, changes>> /\ (draining \in BOOLEAN => draining' \in BOOLEAN)
<1> DEFINE v == leaving(scpi, c)
           w == [scpi EXCEPT !.connected = @ \ {c}, !.client[c] = freshClient,
                             !.store = ofOthers(scpi, c),
                             !.posted = [k \in DOMAIN remainingEvents(scpi, c) |->
                                           nobodysEvent(c, remainingEvents(scpi, c)[k])],
                             !.query = [k \in DOMAIN @ |-> endedQuery(c, @[k])],
                             !.delayed = @ \ heldBack(scpi, c)]
<1>1. /\ c \in scpi.connected
      /\ scpi' = meetIf(w, \E r \in ToSet(scpi.rpcs) : r.client = c, "orphan")
      /\ param' = [t \in DOMAIN param |->
           [param[t] EXCEPT !.clients = [k \in DOMAIN @ |-> IF @[k] = c THEN Gone ELSE @[k]]]]
  BY Zenon DEF Disconnect, become, remainingEvents, nobodysEvent, endedQuery
<1>2. w = v
  BY DEF leaving, nobodysEvents, endedQueries, Good, World
<1>3. scpi' = orphaned(scpi, c)
  BY <1>1, <1>2 DEF orphaned
<1> HIDE DEF w
<1>4. v \in Good /\ AllBut(scpi, v, {"connected", "client", "store", "posted", "query", "delayed"})
  BY Leaving
<1> HIDE DEF v
<1>5. /\ scpi' \in Good /\ AllBut(v, scpi', {"met"}) /\ v.met \subseteq scpi'.met
      /\ (\E r \in ToSet(scpi.rpcs) : r.client = c) => "orphan" \in scpi'.met
  BY <1>1, <1>2, <1>4, Meeting, Zenon DEF Circumstance
<1>6. v.met = scpi.met
  BY <1>4 DEF AllBut
<1>7. ParamOK'
  <2>1. ASSUME NEW t \in Parameter
        PROVE  [param[t] EXCEPT !.clients = [k \in DOMAIN @ |-> IF @[k] = c THEN Gone ELSE @[k]]]
                 \in ParamState
    <3> DEFINE p == param[t]
               s == p.clients
               r == [k \in DOMAIN s |-> IF s[k] = c THEN Gone ELSE s[k]]
    <3>1. p \in ParamState
      BY DEF ParamOK, ParamState
    <3>2. s \in Seq(Client \cup {Gone})
      BY <3>1 DEF ParamState
    <3>3. Len(s) \in Nat /\ DOMAIN s = 1..Len(s) /\ \A k \in DOMAIN s : s[k] \in Client \cup {Gone}
      BY <3>2, LenProperties, ElementOfSeq
    <3>4. r \in Seq(Client \cup {Gone})
      <4>1. \A k \in 1..Len(s) : (IF s[k] = c THEN Gone ELSE s[k]) \in Client \cup {Gone}
        BY <3>3
      <4>2. r = [k \in 1..Len(s) |-> IF s[k] = c THEN Gone ELSE s[k]]
        BY <3>3
      <4> HIDE DEF s, r
      <4> QED
        BY <3>3, <4>1, <4>2, SequenceOf
    <3> HIDE DEF r
    <3>5. [p EXCEPT !.clients = r] \in ParamState
      BY <3>1, <3>4 DEF ParamState
    <3>6. [p EXCEPT !.clients = [k \in DOMAIN @ |-> IF @[k] = c THEN Gone ELSE @[k]]]
            = [p EXCEPT !.clients = r]
      BY <3>1 DEF r, ParamState
    <3> QED
      BY <3>5, <3>6
  <2>2. DOMAIN param = Parameter
    BY DEF ParamOK
  <2> QED
    BY <1>1, <2>1, <2>2 DEF ParamOK, ParamState
<1>8. UNCHANGED <<sorting, lines, changes>> /\ (draining \in BOOLEAN => draining' \in BOOLEAN)
  <2>1. UNCHANGED <<sorting, lines, changes>>
    BY Zenon DEF Disconnect
  <2>2. \E x : draining' = (draining /\ x # <<>>)
    BY Zenon DEF Disconnect
  <2> QED
    BY <2>1, <2>2
<1> QED
  BY <1>1, <1>3, <1>5, <1>6, <1>7, <1>8 DEF v

\* A signal changes the status of clients and nothing else of them.
OnlyStatus(k, l) ==
  /\ l.active = k.active /\ l.pending = k.pending /\ l.running = k.running
  /\ l.executing = k.executing
  /\ l.sequences = k.sequences /\ l.valued = k.valued /\ l.awaited = k.awaited

LEMMA SignalStep ==
  ASSUME scpi \in Good, NEW bit \in Bits, NEW on \in BOOLEAN, Signal(bit, on)
  PROVE  /\ scpi' \in Good /\ AllBut(scpi, scpi', {"client"})
         /\ \A c \in Client : OnlyStatus(scpi.client[c], scpi'.client[c])
<1> DEFINE new(c) == SetConditionBit(scpi.client[c].status, SystemOf[bit], bit, on)
           changed(c) == [scpi.client[c] EXCEPT !.status = new(c)]
           x == [c \in Client |-> IF c \notin scpi.connected THEN scpi.client[c] ELSE changed(c)]
<1>1. scpi' = [scpi EXCEPT !.client = x]
  <2>1. scpi' = [scpi EXCEPT !.client = [c \in Client |->
                  IF c \notin scpi.connected THEN scpi.client[c]
                  ELSE [scpi.client[c] EXCEPT !.status = SetConditionBit(@, SystemOf[bit], bit, on)]]]
    BY DEF Signal
  <2>2. \A c \in Client :
          [scpi.client[c] EXCEPT !.status = SetConditionBit(@, SystemOf[bit], bit, on)] = changed(c)
    <3> TAKE c \in Client
    <3>1. scpi.client[c] \in ClientState
      BY GoodParts
    <3> QED
      BY <3>1 DEF ClientState
  <2> HIDE DEF new, changed
  <2>3. [c \in Client |->
           IF c \notin scpi.connected THEN scpi.client[c]
           ELSE [scpi.client[c] EXCEPT !.status = SetConditionBit(@, SystemOf[bit], bit, on)]] = x
    BY <2>2
  <2> QED
    BY <2>1, <2>3
<1>2. ASSUME NEW c \in Client
      PROVE  /\ x[c] \in ClientState /\ x[c].status \in HonestStatus
             /\ OnlyStatus(scpi.client[c], x[c])
  <2>1. scpi.client[c] \in ClientState /\ scpi.client[c].status \in HonestStatus
    BY GoodParts
  <2>2. SystemOf[bit] \in System
    BY ScpiAssumption
  <2>3. new(c) \in HonestStatus
    BY <2>1, <2>2, Signals
  <2> HIDE DEF new
  <2>4. /\ changed(c) \in ClientState /\ changed(c).status = new(c)
        /\ OnlyStatus(scpi.client[c], changed(c))
    BY <2>1, <2>3 DEF ClientState, HonestStatus, OnlyStatus
  <2> HIDE DEF changed
  <2> QED
    BY <2>1, <2>3, <2>4 DEF OnlyStatus
<1>3. x \in [Client -> ClientState]
  BY <1>2
<1> HIDE DEF x
<1>4. \A c \in Client : x[c].status \in HonestStatus
                        /\ \A t \in ToSet(x[c].executing) : Given(scpi, t.id)
  BY <1>2, GoodParts DEF OnlyStatus
<1>5. scpi' \in Good /\ AllBut(scpi, scpi', {"client"}) /\ scpi'.client = x
  BY <1>1, <1>3, <1>4, Put
<1> QED
  BY <1>2, <1>5

\* All other steps but SortingChanged
OwnStep ==
  \/ \E c \in Client, line \in Line : Input(c, line)
  \/ PostedEvent
  \/ \E t \in DOMAIN param : WorkDone(t)
  \/ \E i \in DOMAIN scpi.rpcs, ok \in BOOLEAN : RpcFinished(i, ok)
  \/ \E t \in DOMAIN param, v \in ParamValue : Changed(t, v)
  \/ \E comp \in Component : Value(comp)

LEMMA Kinds ==
  ASSUME [Next]_vars
  PROVE  \/ OwnStep
         \/ \E c \in Client : Connect(c) \/ Disconnect(c)
         \/ \E bit \in Bits, on \in BOOLEAN : Signal(bit, on)
         \/ SortingChanged
         \/ UNCHANGED vars
BY Zenon DEF Next, OwnStep, ModuleWorks, RpcEnds

LEMMA OwnSteps ==
  ASSUME NEW W \in SUBSET Good, NEW Wc, Handles(W, Wc), ParamOK, scpi \in W,
         IsFiniteSet(scpi.connected), OwnStep
  PROVE  scpi' \in W /\ ParamOK'
<1>1. CASE \E c \in Client, line \in Line : Input(c, line)
  BY <1>1, InputStep
<1>2. CASE PostedEvent
  BY <1>2, EventStep
<1>3. CASE \E t \in DOMAIN param : WorkDone(t)
  BY <1>3, WorkStep
<1>4. CASE \E i \in DOMAIN scpi.rpcs, ok \in BOOLEAN : RpcFinished(i, ok)
  BY <1>4, RpcStep
<1>5. CASE \E t \in DOMAIN param, v \in ParamValue : Changed(t, v)
  BY <1>5, ChangedStep
<1>6. CASE \E comp \in Component : Value(comp)
  BY <1>6, ValueStep
<1> QED
  BY <1>1, <1>2, <1>3, <1>4, <1>5, <1>6 DEF OwnStep

-----------------------------------------------------------------------------
(* Types and the status byte *)

Inv == TypeOK /\ scpi \in Good /\ IsFiniteSet(scpi.connected)

LEMMA InvParts ==
  ASSUME Inv
  PROVE  scpi \in Good /\ ParamOK /\ IsFiniteSet(scpi.connected)
BY DEF Inv, TypeOK, ParamOK

LEMMA InitInv == Init => Inv
<1> SUFFICES ASSUME Init PROVE Inv
  OBVIOUS
<1>1. \A S : <<>> \in Seq(S)
  BY EmptySeq
<1>2. ToSet(<<>>) = {}
  BY EmptySeq DEF ToSet
<1>3. /\ scpi.connected = {} /\ scpi.client = [c \in Client |-> freshClient]
      /\ scpi.store = <<>> /\ scpi.rpcs = <<>> /\ scpi.posted = <<>> /\ scpi.query = <<>>
      /\ scpi.delayed = {} /\ scpi.met = {}
  BY DEF Init
<1>4. scpi \in Parts
  <2>1. [c \in Client |-> freshClient] \in [Client -> ClientState]
    BY FreshClient
  <2> QED
    BY <1>1, <2>1 DEF Init, Parts
<1>5. scpi \in Good
  <2>1. \A c \in Client : scpi.client[c] = freshClient
    BY <1>3
  <2> QED
    BY <1>2, <1>3, <1>4, <2>1, FreshClient, MakeGood
<1>6. param \in [Parameter -> [value : ParamValue, stored : ParamValue,
                               clients : Seq(Client \cup {Gone}), work : Seq(ParamValue)]]
  BY <1>1, ScpiAssumption DEF Init
<1>7. TypeOK
  <2>1. sorting \in BOOLEAN /\ draining = FALSE /\ lines = 0 /\ changes = 0
    BY DEF Init
  <2>2. MaxLines \in Nat /\ MaxChanges \in Nat
    BY ScpiAssumption
  <2>3. lines \in 0..MaxLines /\ changes \in 0..MaxChanges
    BY <2>1, <2>2
  <2>4. scpi \in World
    BY <1>5 DEF Good
  <2> QED
    BY <1>6, <2>1, <2>3, <2>4 DEF TypeOK
<1> QED
  BY <1>3, <1>5, <1>7, FS_EmptySet DEF Inv

LEMMA CountersOK ==
  ASSUME TypeOK, [Next]_vars,
         \A c \in Client : Disconnect(c) =>
           UNCHANGED <<sorting, lines, changes>> /\ draining' \in BOOLEAN
  PROVE  /\ sorting' \in BOOLEAN /\ draining' \in BOOLEAN
         /\ lines' \in 0..MaxLines /\ changes' \in 0..MaxChanges
<1>0. /\ sorting \in BOOLEAN /\ draining \in BOOLEAN
      /\ lines \in 0..MaxLines /\ changes \in 0..MaxChanges
      /\ MaxLines \in Nat /\ MaxChanges \in Nat
  BY ScpiAssumption DEF TypeOK
<1>1. CASE \E c \in Client : Connect(c)
  BY <1>0, <1>1 DEF Connect
<1>2. CASE \E c \in Client : Disconnect(c)
  BY <1>0, <1>2
<1>3. CASE \E c \in Client, line \in Line : Input(c, line)
  BY <1>0, <1>3 DEF Input
<1>4. CASE PostedEvent
  BY <1>0, <1>4, Zenon DEF PostedEvent
<1>5. CASE \E t \in DOMAIN param : WorkDone(t)
  BY <1>0, <1>5 DEF WorkDone
<1>6. CASE \E i \in DOMAIN scpi.rpcs, ok \in BOOLEAN : RpcFinished(i, ok)
  BY <1>0, <1>6, Zenon DEF RpcFinished
<1>7. CASE \E t \in DOMAIN param, v \in ParamValue : Changed(t, v)
  BY <1>0, <1>7 DEF Changed
<1>8. CASE \E comp \in Component : Value(comp)
  BY <1>0, <1>8, Zenon DEF Value
<1>9. CASE \E bit \in Bits, on \in BOOLEAN : Signal(bit, on)
  BY <1>0, <1>9 DEF Signal
<1>10. CASE SortingChanged
  BY <1>0, <1>10 DEF SortingChanged
<1>11. CASE UNCHANGED vars
  BY <1>0, <1>11 DEF vars
<1> QED
  BY <1>1, <1>2, <1>3, <1>4, <1>5, <1>6, <1>7, <1>8, <1>9, <1>10, <1>11, Kinds DEF OwnStep

LEMMA NextInv == Inv /\ [Next]_vars => Inv'
<1> SUFFICES ASSUME Inv, [Next]_vars PROVE Inv'
  OBVIOUS
<1>0. scpi \in Good /\ ParamOK /\ IsFiniteSet(scpi.connected) /\ TypeOK
  BY InvParts DEF Inv
<1>1. /\ sorting' \in BOOLEAN /\ draining' \in BOOLEAN
      /\ lines' \in 0..MaxLines /\ changes' \in 0..MaxChanges
  <2>1. draining \in BOOLEAN
    BY <1>0 DEF TypeOK
  <2> QED
    BY <1>0, <2>1, CountersOK, DisconnectStep
<1>2. scpi' \in Good /\ ParamOK' /\ IsFiniteSet(scpi'.connected)
  <2>1. CASE OwnStep
    <3> DEFINE W == {v \in Good : v.connected = scpi.connected}
    <3>1. OfQueries(W)
      BY <1>0, GoodOfQueries
    <3>2. scpi \in W /\ W \in SUBSET Good
      BY <1>0
    <3> HIDE DEF W
    <3>3. Handles(W, [c \in Client |-> W])
      BY <1>0, <3>1, <3>2, QueriesHandled
    <3>4. scpi' \in W /\ ParamOK'
      BY <1>0, <2>1, <3>2, <3>3, OwnSteps
    <3> QED
      BY <1>0, <3>4 DEF W
  <2>2. ASSUME NEW c \in Client, Connect(c)
        PROVE  scpi' \in Good /\ ParamOK' /\ IsFiniteSet(scpi'.connected)
    <3>1. scpi' = connecting(scpi, c) /\ param' = param
      BY <2>2 DEF Connect, connecting
    <3>2. connecting(scpi, c) \in Good /\ connecting(scpi, c).connected = scpi.connected \cup {c}
      BY <1>0, Connecting
    <3>3. IsFiniteSet(scpi.connected \cup {c})
      BY <1>0, FS_AddElement
    <3> QED
      BY <1>0, <3>1, <3>2, <3>3 DEF ParamOK
  <2>3. ASSUME NEW c \in Client, Disconnect(c)
        PROVE  scpi' \in Good /\ ParamOK' /\ IsFiniteSet(scpi'.connected)
    <3>1. scpi' \in Good /\ ParamOK' /\ AllBut(leaving(scpi, c), scpi', {"met"})
      BY <1>0, <2>3, DisconnectStep
    <3>2. leaving(scpi, c).connected = scpi.connected \ {c}
      BY <1>0, Leaving
    <3>3. IsFiniteSet(scpi.connected \ {c})
      BY <1>0, FS_RemoveElement
    <3> QED
      BY <3>1, <3>2, <3>3 DEF AllBut
  <2>4. ASSUME NEW bit \in Bits, NEW on \in BOOLEAN, Signal(bit, on)
        PROVE  scpi' \in Good /\ ParamOK' /\ IsFiniteSet(scpi'.connected)
    <3>1. scpi' \in Good /\ AllBut(scpi, scpi', {"client"})
      BY <1>0, <2>4, SignalStep
    <3>2. param' = param
      BY <2>4 DEF Signal
    <3> QED
      BY <1>0, <3>1, <3>2 DEF AllBut, ParamOK
  <2>5. CASE SortingChanged \/ UNCHANGED vars
    <3>1. scpi' = scpi /\ param' = param
      BY <2>5 DEF SortingChanged, vars
    <3> QED
      BY <1>0, <3>1 DEF ParamOK
  <2> QED
    BY <2>1, <2>2, <2>3, <2>4, <2>5, Kinds
<1>3. scpi' \in World
  BY <1>2 DEF Good
<1> QED
  BY <1>1, <1>2, <1>3 DEF Inv, TypeOK, ParamOK

LEMMA InvHolds == Spec => []Inv
BY InitInv, NextInv, PTL DEF Spec

\* The types are kept, by all that the module does with what clients send it, whatever the
\* modules answer and in whatever order clients come and go.
THEOREM TypeCorrect == Spec => []TypeOK
BY InvHolds, PTL DEF Inv

\* The status byte tells of errors while there are any and of no others, of an enabled event
\* of the standard register, and requests service while an enabled bit is set.
THEOREM StatusTellsAll == Spec => []StatusByteTellsAll
<1>1. Inv => StatusByteTellsAll
  <2> SUFFICES ASSUME Inv, NEW c \in scpi.connected
               PROVE  LET st == scpi.client[c].status
                      IN  /\ "error" \in st.stb <=> st.errors > 0
                          /\ st.esr /\ st.ese => "esb" \in st.stb
                          /\ (st.stb \cap st.sre) \ {"rqs"} # {} => "rqs" \in st.stb
    BY DEF StatusByteTellsAll
  <2>1. scpi \in Good
    BY DEF Inv
  <2>2. c \in Client
    BY <2>1, GoodParts
  <2>3. TellsAll(scpi.client[c].status)
    BY <2>1, <2>2 DEF Good
  <2> QED
    BY <2>3 DEF TellsAll
<1> QED
  BY <1>1, InvHolds, PTL

-----------------------------------------------------------------------------
(* The order of answers *)

\* v comes after w0, and if answers are sorted, all that was written since was written in order.
Orderly(w0) == {v \in Good : sorting => InOrder(w0, v)}

LEMMA OrderlyOfQueries ==
  ASSUME NEW w0 \in Good
  PROVE  OfQueries(Orderly(w0))
<1>1. ASSUME NEW w \in Orderly(w0), NEW v \in Good, v.query = w.query, v.delayed = w.delayed
      PROVE  v \in Orderly(w0)
  <2>1. settled(v) = settled(w) /\ written(v) = written(w)
    BY <1>1, Zenon DEF settled, written
  <2> QED
    BY <1>1, <2>1 DEF Orderly, InOrder
<1>2. ASSUME NEW w \in Orderly(w0), NEW c \in Client
      PROVE  issued(w, c) \in Orderly(w0)
  <2> DEFINE v == issued(w, c)
  <2>0. w \in Good
    BY DEF Orderly
  <2>1. /\ v \in Good /\ AllBut(w, v, {"query"})
        /\ Len(v.query) = Len(w.query) + 1 /\ DOMAIN v.query = 1..(Len(w.query) + 1)
        /\ \A i \in DOMAIN w.query : v.query[i] = w.query[i]
        /\ v.query[Len(w.query) + 1] = [client |-> c, fate |-> "open"]
    BY <2>0, Issuing
  <2> HIDE DEF v
  <2>2. Len(w.query) \in Nat /\ DOMAIN w.query = 1..Len(w.query) /\ v.delayed = w.delayed
    BY <2>0, <2>1, GoodParts DEF AllBut
  <2>3. settled(v) = settled(w)
    <3>1. ASSUME NEW i \in settled(v) PROVE i \in settled(w)
      <4>1. i \in 1..(Len(w.query) + 1) /\ v.query[i].fate # "open"
        BY <2>1, <3>1 DEF settled
      <4>2. i # Len(w.query) + 1
        BY <2>1, <4>1
      <4> QED
        BY <2>1, <2>2, <3>1, <4>1, <4>2 DEF settled
    <3>2. ASSUME NEW i \in settled(w) PROVE i \in settled(v)
      BY <2>1, <2>2, <3>2 DEF settled
    <3> QED
      BY <3>1, <3>2
  <2>4. written(v) \subseteq written(w)
    <3> SUFFICES ASSUME NEW i \in written(v) PROVE i \in written(w)
      OBVIOUS
    <3>1. i \in settled(w) /\ i \in DOMAIN w.query
      BY <2>3 DEF written, settled
    <3> QED
      BY <2>1, <3>1 DEF written
  <2>5. InOrder(w, v)
    BY <2>1, <2>2, <2>3, <2>4 DEF InOrder
  <2> QED
    BY <2>0, <2>1, <2>5, InOrderTransitive DEF Orderly, v
<1>3. ASSUME NEW w \in Orderly(w0), NEW c \in Client, NEW id, NEW answer \in Fate \ {"open"}
      PROVE  handleCmdFinish(w, c, id, answer) \in Orderly(w0)
  <2> DEFINE v == handleCmdFinish(w, c, id, answer)
  <2>0. w \in Good
    BY DEF Orderly
  <2>1. v \in Good /\ (sorting => InOrder(w, v))
    BY <2>0, Finishing DEF Finished
  <2> HIDE DEF v
  <2> QED
    BY <2>0, <2>1, InOrderTransitive DEF Orderly, v
<1> QED
  BY <1>1, <1>2, <1>3 DEF OfQueries

LEMMA InOrderReflexive ==
  ASSUME NEW w \in Good
  PROVE  InOrder(w, w)
BY GoodParts DEF InOrder

\* While sorting is on, an answer is written only when all queries its client sent before are
\* settled, in whatever order parameters, RPCs and measured values end them.
THEOREM AnswersAreSorted == Spec => AnswersInOrder
<1> DEFINE A == sorting => \A i \in written(scpi') \ written(scpi) : \A j \in 1..(i - 1) :
                  scpi'.query[j].client = scpi'.query[i].client => j \in settled(scpi')
<1>1. Inv /\ [Next]_vars => A
  <2> SUFFICES ASSUME Inv, [Next]_vars, sorting PROVE A
    OBVIOUS
  <2>0. scpi \in Good /\ ParamOK /\ IsFiniteSet(scpi.connected)
    BY InvParts
  <2>1. CASE OwnStep
    <3> DEFINE W == Orderly(scpi)
    <3>1. OfQueries(W)
      BY <2>0, OrderlyOfQueries
    <3>2. scpi \in W /\ W \in SUBSET Good
      BY <2>0, InOrderReflexive DEF Orderly
    <3> HIDE DEF W
    <3>3. Handles(W, [c \in Client |-> W])
      BY <2>0, <3>1, <3>2, QueriesHandled
    <3>4. scpi' \in W
      BY <2>0, <2>1, <3>2, <3>3, OwnSteps
    <3>5. InOrder(scpi, scpi')
      BY <3>4 DEF W, Orderly
    <3> QED
      BY <3>5 DEF InOrder
  <2>2. ASSUME NEW c \in Client, Connect(c) PROVE A
    <3>1. scpi'.query = scpi.query /\ scpi'.delayed = scpi.delayed
      <4>1. scpi' = connecting(scpi, c)
        BY <2>2 DEF Connect, connecting
      <4>2. AllBut(scpi, connecting(scpi, c), {"connected", "client"})
        BY <2>0, Connecting
      <4> QED
        BY <4>1, <4>2 DEF AllBut
    <3>2. written(scpi') = written(scpi)
      BY <3>1, Zenon DEF written, settled
    <3> QED
      BY <3>2
  <2>3. ASSUME NEW c \in Client, Disconnect(c) PROVE A
    <3>1. /\ scpi'.query = endedQueries(scpi, c)
          /\ scpi'.delayed = scpi.delayed \ heldBack(scpi, c)
      <4>1. AllBut(leaving(scpi, c), scpi', {"met"})
        BY <2>0, <2>3, DisconnectStep
      <4>2. /\ leaving(scpi, c).query = endedQueries(scpi, c)
            /\ leaving(scpi, c).delayed = scpi.delayed \ heldBack(scpi, c)
        BY <2>0, Leaving
      <4> QED
        BY <4>1, <4>2 DEF AllBut
    <3>2. /\ DOMAIN scpi'.query = DOMAIN scpi.query
          /\ \A k \in DOMAIN scpi.query : scpi'.query[k] = endedQuery(c, scpi.query[k])
      BY <3>1 DEF endedQueries
    <3>3. \A k \in DOMAIN scpi.query : scpi.query[k] \in [client : Client, fate : Fate]
      BY <2>0, GoodParts, ElementOfSeq
    <3>4. \A k \in DOMAIN scpi.query :
            /\ scpi'.query[k].client = scpi.query[k].client
            /\ scpi.query[k].client = c => scpi'.query[k].fate # "open"
            /\ scpi'.query[k].fate # "gone" => scpi'.query[k] = scpi.query[k]
      BY <3>2, <3>3 DEF endedQuery
    <3>5. ASSUME NEW i \in written(scpi') \ written(scpi), NEW j \in 1..(i - 1),
                 scpi'.query[j].client = scpi'.query[i].client
          PROVE  j \in settled(scpi')
      <4>1. i \in DOMAIN scpi.query /\ scpi'.query[i] = scpi.query[i]
            /\ scpi'.query[i].fate \in {"answered", "partly", "torn", "stale"}
            /\ scpi.query[i].fate # "open" /\ i \notin scpi'.delayed
        BY <3>2, <3>4, <3>5 DEF written, settled
      <4>2. i \in scpi.delayed
        BY <3>5, <4>1 DEF written, settled
      <4>3. scpi.query[i].client = c
        BY <3>1, <4>1, <4>2 DEF heldBack
      <4>4. j \in DOMAIN scpi.query
        BY <2>0, <4>1, GoodParts
      <4>5. scpi.query[j].client = c
        BY <3>4, <3>5, <4>1, <4>3, <4>4
      <4>6. scpi'.query[j].fate # "open"
        BY <3>4, <4>4, <4>5
      <4>7. j \notin scpi'.delayed
        BY <3>1, <4>5 DEF heldBack
      <4> QED
        BY <3>2, <4>4, <4>6, <4>7 DEF settled
    <3> QED
      BY <3>5
  <2>4. ASSUME NEW bit \in Bits, NEW on \in BOOLEAN, Signal(bit, on) PROVE A
    <3>1. scpi'.query = scpi.query /\ scpi'.delayed = scpi.delayed
      BY <2>0, <2>4, SignalStep DEF AllBut
    <3>2. written(scpi') = written(scpi)
      BY <3>1, Zenon DEF written, settled
    <3> QED
      BY <3>2
  <2>5. CASE SortingChanged \/ UNCHANGED vars
    <3>1. scpi' = scpi
      BY <2>5 DEF SortingChanged, vars
    <3>2. written(scpi') = written(scpi)
      BY <3>1, Zenon DEF written, settled
    <3> QED
      BY <3>2
  <2> HIDE DEF A
  <2> QED
    BY <2>1, <2>2, <2>3, <2>4, <2>5, Kinds
<1>2. Inv /\ [Next]_vars => [A]_vars
  BY <1>1
<1> QED
  BY <1>2, InvHolds, PTL DEF Spec, AnswersInOrder

-----------------------------------------------------------------------------
(* What is pending *)

\* The circumstances in which a client is not told what is pending
Dishonest == {"repeat", "crosstalk", "bare", "orphan"}

stored(w, c, name) ==
  \E i \in DOMAIN w.store : w.store[i].client = c /\ NameOf[w.store[i].target] = name
isRemoval(e, c, name) == e.call = "remove" /\ e.client = c /\ e.name = name
queued(w, c, name) == \E k \in DOMAIN w.posted : isRemoval(w.posted[k], c, name)
OnceStored(w) ==
  \A i, j \in DOMAIN w.store :
    w.store[i].client = w.store[j].client /\ NameOf[w.store[i].target] = NameOf[w.store[j].target]
      => i = j
OnceQueued(w) ==
  \A c \in Client, name \in Name : \A k, l \in DOMAIN w.posted :
    isRemoval(w.posted[k], c, name) /\ isRemoval(w.posted[l], c, name) => k = l
RpcsStored(w) ==
  /\ \A i \in DOMAIN w.rpcs : w.rpcs[i].target \in Rpc /\ w.rpcs[i] \in ToSet(w.store)
  /\ \A i, j \in DOMAIN w.rpcs : w.rpcs[i] = w.rpcs[j] => i = j

\* A name is pending when it is in the store or queued to be removed, and it is only once in one
\* of them; the RPCs under way are in the store.
Honest(w) ==
  /\ \A c \in Client, name \in Name :
       /\ name \in w.client[c].pending <=> stored(w, c, name) \/ queued(w, c, name)
       /\ ~(stored(w, c, name) /\ queued(w, c, name))
  /\ OnceStored(w) /\ OnceQueued(w) /\ RpcsStored(w)
  /\ \A c \in Client : w.client[c].active # <<>> => w.client[c].pending # {}
  /\ \A c \in Client \ w.connected : w.client[c].pending = {}

HonestWith(S) == {v \in Good : v.met \cap Dishonest = {} => Honest(v) /\ S \subseteq v.connected}

SamePending(w, v) ==
  /\ v.connected = w.connected /\ v.store = w.store /\ v.rpcs = w.rpcs
  /\ \A c \in Client : /\ v.client[c].pending = w.client[c].pending
                       /\ v.client[c].active = w.client[c].active
SameRemoves(w, v) ==
  /\ \A c \in Client, name \in Name : queued(v, c, name) <=> queued(w, c, name)
  /\ OnceQueued(w) => OnceQueued(v)

LEMMA HonestStays ==
  ASSUME NEW S, NEW w \in HonestWith(S), NEW v \in Good, w.met \subseteq v.met,
         SamePending(w, v), SameRemoves(w, v)
  PROVE  v \in HonestWith(S)
<1> SUFFICES ASSUME v.met \cap Dishonest = {}
             PROVE  Honest(v) /\ S \subseteq v.connected
  BY DEF HonestWith
<1>1. Honest(w) /\ S \subseteq w.connected
  BY DEF HonestWith
<1>2. \A c \in Client, name \in Name : stored(v, c, name) <=> stored(w, c, name)
  BY DEF SamePending, stored
<1>3. OnceStored(v) /\ RpcsStored(v)
  BY <1>1, Zenon DEF SamePending, OnceStored, RpcsStored, Honest
<1>4. \A c \in Client, name \in Name :
        /\ name \in v.client[c].pending <=> stored(v, c, name) \/ queued(v, c, name)
        /\ ~(stored(v, c, name) /\ queued(v, c, name))
  BY <1>1, <1>2, Zenon DEF SamePending, SameRemoves, Honest
<1>5. OnceQueued(v)
  BY <1>1 DEF SameRemoves, Honest
<1>6. /\ \A c \in Client : v.client[c].active # <<>> => v.client[c].pending # {}
      /\ \A c \in Client \ v.connected : v.client[c].pending = {}
  BY <1>1, Zenon DEF SamePending, Honest
<1> QED
  BY <1>1, <1>3, <1>4, <1>5, <1>6, Zenon DEF Honest, SamePending

\* Events that remove nothing do not matter.
LEMMA RemovesStay ==
  ASSUME NEW w \in Good, NEW v \in Good
  PROVE  /\ v.posted = w.posted => SameRemoves(w, v)
         /\ \A e \in Event : v.posted = Append(w.posted, e) /\ e.call # "remove" => SameRemoves(w, v)
         /\ w.posted # <<>> /\ v.posted = Tail(w.posted) /\ Head(w.posted).call # "remove"
              => SameRemoves(w, v)
<1>0. w.posted \in Seq(Event) /\ Len(w.posted) \in Nat /\ DOMAIN w.posted = 1..Len(w.posted)
  BY GoodParts, LenProperties
<1>1. ASSUME v.posted = w.posted PROVE SameRemoves(w, v)
  BY <1>1 DEF SameRemoves, queued, OnceQueued
<1>2. ASSUME NEW e \in Event, v.posted = Append(w.posted, e), e.call # "remove"
      PROVE  SameRemoves(w, v)
  <2>1. /\ DOMAIN v.posted = 1..(Len(w.posted) + 1)
        /\ \A k \in 1..Len(w.posted) : v.posted[k] = w.posted[k]
        /\ v.posted[Len(w.posted) + 1] = e
    BY <1>0, <1>2, Appended
  <2>2. \A c, name : ~isRemoval(e, c, name)
    BY <1>2 DEF isRemoval
  <2>3. ASSUME NEW c, NEW name, NEW k \in DOMAIN v.posted, isRemoval(v.posted[k], c, name)
        PROVE  k \in DOMAIN w.posted /\ isRemoval(w.posted[k], c, name)
    <3>1. k # Len(w.posted) + 1
      BY <2>1, <2>2, <2>3
    <3> QED
      BY <1>0, <2>1, <2>3, <3>1
  <2>4. ASSUME NEW c, NEW name, NEW k \in DOMAIN w.posted, isRemoval(w.posted[k], c, name)
        PROVE  k \in DOMAIN v.posted /\ isRemoval(v.posted[k], c, name)
    BY <1>0, <2>1, <2>4
  <2> QED
    BY <2>3, <2>4 DEF SameRemoves, queued, OnceQueued
<1>3. ASSUME w.posted # <<>>, v.posted = Tail(w.posted), Head(w.posted).call # "remove"
      PROVE  SameRemoves(w, v)
  <2> DEFINE n == Len(w.posted)
  <2>1. /\ n \in Nat \ {0} /\ DOMAIN v.posted = 1..(n - 1) /\ Head(w.posted) = w.posted[1]
        /\ \A k \in 1..(n - 1) : v.posted[k] = w.posted[k + 1]
    BY <1>0, <1>3, HeadAndTail
  <2>2. \A c, name : ~isRemoval(w.posted[1], c, name)
    BY <1>3, <2>1 DEF isRemoval
  <2>3. ASSUME NEW c, NEW name, NEW k \in DOMAIN v.posted, isRemoval(v.posted[k], c, name)
        PROVE  k + 1 \in DOMAIN w.posted /\ isRemoval(w.posted[k + 1], c, name)
    BY <1>0, <2>1, <2>3
  <2>4. ASSUME NEW c, NEW name, NEW k \in DOMAIN w.posted, isRemoval(w.posted[k], c, name)
        PROVE  k - 1 \in DOMAIN v.posted /\ isRemoval(v.posted[k - 1], c, name)
    <3>1. k # 1
      BY <2>2, <2>4
    <3> QED
      BY <1>0, <2>1, <2>4, <3>1
  <2>5. \A c, name : queued(v, c, name) <=> queued(w, c, name)
    BY <2>3, <2>4 DEF queued
  <2>6. ASSUME OnceQueued(w), NEW c \in Client, NEW name \in Name, NEW k \in DOMAIN v.posted,
               NEW l \in DOMAIN v.posted,
               isRemoval(v.posted[k], c, name), isRemoval(v.posted[l], c, name)
        PROVE  k = l
    <3>1. k + 1 = l + 1
      BY <2>3, <2>6, ZenonT(30) DEF OnceQueued
    <3> QED
      BY <2>1, <3>1
  <2> QED
    BY <2>5, <2>6 DEF SameRemoves, OnceQueued
<1> QED
  BY <1>1, <1>2, <1>3

\* In a world that is HonestWith nothing is promised in those circumstances.
LEMMA NotPromised ==
  ASSUME NEW S, NEW v \in Good, v.met \cap Dishonest # {}
  PROVE  v \in HonestWith(S)
BY DEF HonestWith

\* Measuring, status and answers do not matter.
LEMMA HonestParts ==
  ASSUME NEW S, NEW w \in HonestWith(S), NEW c \in Client
  PROVE  /\ w \in Good
         /\ \A F \in SUBSET {"running", "executing", "sequences", "valued", "awaited", "status"} :
              \A v \in Good : ClientBut(w, v, c, F) => v \in HonestWith(S)
         /\ \A v \in Good : AllBut(w, v, {"query", "delayed", "met"}) /\ w.met \subseteq v.met =>
              v \in HonestWith(S)
         /\ \A v \in Good, e \in Event :
              AllBut(w, v, {"posted"}) /\ v.posted = Append(w.posted, e) /\ e.call # "remove" =>
                v \in HonestWith(S)
<1>0. w \in Good
  BY DEF HonestWith
<1>1. ASSUME NEW F \in SUBSET {"running", "executing", "sequences", "valued", "awaited", "status"},
             NEW v \in Good, ClientBut(w, v, c, F)
      PROVE  v \in HonestWith(S)
  <2>1. "active" \notin F /\ "pending" \notin F
    OBVIOUS
  <2>2. SamePending(w, v)
    BY <1>1, <2>1 DEF ClientBut, ClientsBut, AllBut, SamePending
  <2>3. w.met = v.met /\ w.posted = v.posted
    BY <1>1 DEF ClientBut, AllBut
  <2> QED
    BY <1>0, <2>2, <2>3, HonestStays, RemovesStay
<1>2. ASSUME NEW v \in Good, AllBut(w, v, {"query", "delayed", "met"}), w.met \subseteq v.met
      PROVE  v \in HonestWith(S)
  <2>1. SamePending(w, v) /\ v.posted = w.posted
    BY <1>2 DEF AllBut, SamePending
  <2> QED
    BY <1>0, <1>2, <2>1, HonestStays, RemovesStay
<1>3. ASSUME NEW v \in Good, NEW e \in Event, AllBut(w, v, {"posted"}),
             v.posted = Append(w.posted, e), e.call # "remove"
      PROVE  v \in HonestWith(S)
  <2>1. SamePending(w, v) /\ w.met = v.met
    BY <1>3 DEF AllBut, SamePending
  <2>2. SameRemoves(w, v)
    BY <1>0, <1>3, RemovesStay
  <2> QED
    BY <2>1, <2>2, HonestStays
<1> QED
  BY <1>0, <1>1, <1>2, <1>3

LEMMA HonestAnswers ==
  ASSUME NEW S, NEW w \in HonestWith(S), NEW c \in Client, NEW id, NEW answer \in Fate \ {"open"}
  PROVE  handleCmdFinish(w, c, id, answer) \in HonestWith(S)
<1> DEFINE v == handleCmdFinish(w, c, id, answer)
<1>0. w \in Good
  BY HonestParts
<1>1. v \in Good /\ AllBut(w, v, {"query", "delayed", "met"}) /\ w.met \subseteq v.met
  BY <1>0, Finishing DEF Finished
<1> HIDE DEF v
<1> QED
  BY <1>1, HonestParts DEF v

LEMMA HonestStatusPart ==
  ASSUME NEW S, NEW w \in HonestWith(S), NEW c \in Client, NEW st \in HonestStatus
  PROVE  [w EXCEPT !.client[c].status = st] \in HonestWith(S)
<1> DEFINE v == [w EXCEPT !.client[c].status = st]
<1>0. w \in Good
  BY HonestParts
<1>1. v \in Good /\ ClientBut(w, v, c, {"status"})
  BY <1>0, PutPart
<1> HIDE DEF v
<1>2. {"status"} \in SUBSET {"running", "executing", "sequences", "valued", "awaited", "status"}
  OBVIOUS
<1> QED
  BY <1>1, <1>2, HonestParts DEF v

LEMMA HonestUnmeasured ==
  ASSUME NEW S, NEW c \in Client
  PROVE  Unmeasured(HonestWith(S), c)
<1> SUFFICES ASSUME NEW w \in HonestWith(S)
             PROVE  /\ \A x \in SUBSET Component :
                         /\ [w EXCEPT !.client[c].sequences = x] \in HonestWith(S)
                         /\ [w EXCEPT !.client[c].valued = x] \in HonestWith(S)
                         /\ [w EXCEPT !.client[c].awaited = x] \in HonestWith(S)
                    /\ \A x \in Seq(Task) :
                         (\A t \in ToSet(x) : Given(w, t.id)) =>
                           [w EXCEPT !.client[c].executing = x] \in HonestWith(S)
                    /\ \A x \in Seq(Component \X MeasureModel) :
                         [w EXCEPT !.client[c].running = x] \in HonestWith(S)
                    /\ \A x \in Circumstance : meet(w, x) \in HonestWith(S)
                    /\ \A comp \in Component, model \in MeasureModel :
                         post(w, start(c, comp, model)) \in HonestWith(S)
                    /\ \A id : \A answer \in Fate \ {"open"} :
                         handleCmdFinish(w, c, id, answer) \in HonestWith(S)
  BY Zenon DEF Unmeasured
<1>0. w \in Good
  BY HonestParts
<1>1. ASSUME NEW F \in {{"running"}, {"executing"}, {"sequences"}, {"valued"}, {"awaited"}}, NEW v \in Good, ClientBut(w, v, c, F)
      PROVE  v \in HonestWith(S)
  <2>1. F \in SUBSET {"running", "executing", "sequences", "valued", "awaited", "status"}
    OBVIOUS
  <2> QED
    BY <1>1, <2>1, HonestParts
<1>2. ASSUME NEW x \in SUBSET Component
      PROVE  /\ [w EXCEPT !.client[c].sequences = x] \in HonestWith(S)
             /\ [w EXCEPT !.client[c].valued = x] \in HonestWith(S)
             /\ [w EXCEPT !.client[c].awaited = x] \in HonestWith(S)
  <2>1. LET v == [w EXCEPT !.client[c].awaited = x]
        IN  v \in Good /\ ClientBut(w, v, c, {"awaited"})
    BY <1>0, <1>2, PutAwaited
  <2>2. LET v == [w EXCEPT !.client[c].sequences = x]
        IN  v \in Good /\ ClientBut(w, v, c, {"sequences"})
    BY <1>0, <1>2, PutSequences
  <2>3. LET v == [w EXCEPT !.client[c].valued = x]
        IN  v \in Good /\ ClientBut(w, v, c, {"valued"})
    BY <1>0, <1>2, PutValued
  <2> QED
    BY <1>1, <2>1, <2>2, <2>3
<1>3. ASSUME NEW x \in Seq(Task), \A t \in ToSet(x) : Given(w, t.id)
      PROVE  [w EXCEPT !.client[c].executing = x] \in HonestWith(S)
  <2>1. LET v == [w EXCEPT !.client[c].executing = x]
        IN  v \in Good /\ ClientBut(w, v, c, {"executing"}) /\ v.client[c].executing = x
    BY <1>0, <1>3, PutPart
  <2> QED
    BY <1>1, <2>1
<1>4. ASSUME NEW x \in Seq(Component \X MeasureModel)
      PROVE  [w EXCEPT !.client[c].running = x] \in HonestWith(S)
  <2>1. LET v == [w EXCEPT !.client[c].running = x]
        IN  v \in Good /\ ClientBut(w, v, c, {"running"}) /\ v.client[c].running = x
    BY <1>0, PutPart
  <2> QED
    BY <1>1, <2>1
<1>5. ASSUME NEW x \in Circumstance PROVE meet(w, x) \in HonestWith(S)
  <2>1. /\ meet(w, x) \in Good /\ AllBut(w, meet(w, x), {"met"})
        /\ meet(w, x).met = w.met \cup {x}
    BY <1>0, Meeting
  <2> DEFINE v == meet(w, x)
  <2> HIDE DEF v
  <2>2. v \in Good /\ AllBut(w, v, {"query", "delayed", "met"}) /\ w.met \subseteq v.met
    BY <2>1 DEF AllBut, v
  <2>3. v \in HonestWith(S)
    BY <2>2, HonestParts
  <2> QED
    BY <2>3 DEF v
<1>6. ASSUME NEW comp \in Component, NEW model \in MeasureModel
      PROVE  post(w, start(c, comp, model)) \in HonestWith(S)
  <2> DEFINE e == start(c, comp, model)
             v == post(w, e)
  <2>1. e \in Event /\ e.call # "remove"
    <3>1. e \in Event
      BY <1>0, Starting
    <3>2. e.call = "start"
      BY DEF start
    <3> QED
      BY <3>1, <3>2
  <2> HIDE DEF e
  <2>2. v \in Good /\ AllBut(w, v, {"posted"}) /\ v.posted = Append(w.posted, e)
    BY <1>0, <2>1, Posting
  <2> HIDE DEF v
  <2>3. v \in HonestWith(S)
    BY <2>1, <2>2, HonestParts
  <2> QED
    BY <2>3 DEF v, e
<1>7. \A id : \A answer \in Fate \ {"open"} : handleCmdFinish(w, c, id, answer) \in HonestWith(S)
  BY HonestAnswers
<1> QED
  BY <1>2, <1>3, <1>4, <1>5, <1>6, <1>7

\* A transaction begins: unless its name was pending, it is the only one.
LEMMA HonestAdding ==
  ASSUME NEW S, NEW w \in HonestWith(S), NEW c \in Client, c \in S,
         NEW v \in Good, w.met \subseteq v.met,
         NEW info \in Transaction, info.client = c, v.store = <<info>> \o w.store,
         v.connected = w.connected, ClientsBut(w, v, c, {"pending"}),
         v.client[c].pending = w.client[c].pending \cup {NameOf[info.target]},
         NameOf[info.target] \in w.client[c].pending => "repeat" \in v.met,
         v.rpcs = w.rpcs \/ (v.rpcs = Append(w.rpcs, info) /\ info.target \in Rpc),
         SameRemoves(w, v)
  PROVE  v \in HonestWith(S)
<1> DEFINE name == NameOf[info.target]
           n == Len(w.store)
<1>0. /\ w \in Good /\ name \in Name
      /\ w.store \in Seq(Transaction) /\ w.rpcs \in Seq(Transaction)
      /\ \A d \in Client : w.client[d] \in ClientState
  BY GoodParts DEF HonestWith, Transaction, Name
<1> SUFFICES ASSUME v.met \cap Dishonest = {}
             PROVE  Honest(v) /\ S \subseteq v.connected
  BY DEF HonestWith
<1>1. Honest(w) /\ S \subseteq w.connected
  BY DEF HonestWith
<1>2. name \notin w.client[c].pending
  BY DEF Dishonest
<1>3. ~stored(w, c, name) /\ ~queued(w, c, name)
  BY <1>0, <1>1, <1>2 DEF Honest
<1>4. /\ n \in Nat /\ DOMAIN w.store = 1..n /\ DOMAIN v.store = 1..(n + 1) /\ v.store[1] = info
      /\ \A i \in 1..n : v.store[i + 1] = w.store[i]
      /\ ToSet(v.store) = ToSet(w.store) \cup {info}
  BY <1>0, Prepended, LenProperties
<1>5. \A i \in DOMAIN v.store : i = 1 \/ (i - 1 \in DOMAIN w.store /\ v.store[i] = w.store[i - 1])
  BY <1>4
<1>6. ASSUME NEW d, NEW m
      PROVE  stored(v, d, m) <=> stored(w, d, m) \/ (d = c /\ m = name)
  <2>1. stored(v, d, m) => stored(w, d, m) \/ (d = c /\ m = name)
    BY <1>4, <1>5 DEF stored
  <2>2. ASSUME NEW i \in DOMAIN w.store, w.store[i].client = d, NameOf[w.store[i].target] = m
        PROVE  stored(v, d, m)
    <3>1. i + 1 \in DOMAIN v.store /\ v.store[i + 1] = w.store[i]
      BY <1>4
    <3> QED
      BY <2>2, <3>1 DEF stored
  <2>3. stored(v, c, name)
    BY <1>4 DEF stored
  <2> QED
    BY <2>1, <2>2, <2>3 DEF stored
<1>7. ASSUME NEW d \in Client, NEW m \in Name
      PROVE  /\ m \in v.client[d].pending <=> stored(v, d, m) \/ queued(v, d, m)
             /\ ~(stored(v, d, m) /\ queued(v, d, m))
  <2>1. /\ m \in w.client[d].pending <=> stored(w, d, m) \/ queued(w, d, m)
        /\ ~(stored(w, d, m) /\ queued(w, d, m))
    BY <1>1 DEF Honest
  <2>2. queued(v, d, m) <=> queued(w, d, m)
    BY DEF SameRemoves
  <2>3. m \in v.client[d].pending <=> m \in w.client[d].pending \/ (d = c /\ m = name)
    BY DEF ClientsBut
  <2> QED
    BY <1>3, <1>6, <2>1, <2>2, <2>3
<1>8. OnceStored(v)
  <2> SUFFICES ASSUME NEW i \in DOMAIN v.store, NEW j \in DOMAIN v.store,
                      v.store[i].client = v.store[j].client,
                      NameOf[v.store[i].target] = NameOf[v.store[j].target]
               PROVE  i = j
    BY DEF OnceStored
  <2>1. CASE i = 1 /\ j = 1
    BY <2>1
  <2>2. CASE i = 1 /\ j # 1
    BY <1>3, <1>4, <1>5, <2>2 DEF stored
  <2>3. CASE i # 1 /\ j = 1
    BY <1>3, <1>4, <1>5, <2>3 DEF stored
  <2>4. CASE i # 1 /\ j # 1
    <3> DEFINE k == i - 1
               l == j - 1
    <3>1. /\ k \in DOMAIN w.store /\ v.store[i] = w.store[k]
          /\ l \in DOMAIN w.store /\ v.store[j] = w.store[l]
      BY <1>5, <2>4
    <3> HIDE DEF k, l
    <3>2. w.store[k].client = w.store[l].client /\ NameOf[w.store[k].target] = NameOf[w.store[l].target]
      BY <3>1
    <3>3. OnceStored(w)
      BY <1>1 DEF Honest
    <3>4. k = l
      BY <3>1, <3>2, <3>3 DEF OnceStored
    <3> QED
      BY <1>4, <3>4 DEF k, l
  <2> QED
    BY <2>1, <2>2, <2>3, <2>4
<1>9. OnceQueued(v)
  BY <1>1 DEF SameRemoves, Honest
<1>10. RpcsStored(v)
  <2>1. RpcsStored(w)
    BY <1>1 DEF Honest
  <2>2. CASE v.rpcs = w.rpcs
    BY <1>4, <2>1, <2>2 DEF RpcsStored
  <2>3. CASE v.rpcs = Append(w.rpcs, info) /\ info.target \in Rpc
    <3>1. /\ Len(w.rpcs) \in Nat /\ DOMAIN w.rpcs = 1..Len(w.rpcs)
          /\ DOMAIN v.rpcs = 1..(Len(w.rpcs) + 1)
          /\ \A i \in 1..Len(w.rpcs) : v.rpcs[i] = w.rpcs[i]
          /\ v.rpcs[Len(w.rpcs) + 1] = info
      BY <1>0, <2>3, Appended, LenProperties
    <3>2. \A i \in DOMAIN w.rpcs : w.rpcs[i] # info
      <4> SUFFICES ASSUME NEW i \in DOMAIN w.rpcs, w.rpcs[i] = info PROVE FALSE
        OBVIOUS
      <4>1. info \in ToSet(w.store)
        BY <2>1 DEF RpcsStored
      <4>2. stored(w, c, name)
        BY <1>4, <4>1 DEF stored, ToSet
      <4> QED
        BY <1>3, <4>2
    <3>3. ASSUME NEW i \in DOMAIN v.rpcs
          PROVE  v.rpcs[i].target \in Rpc /\ v.rpcs[i] \in ToSet(v.store)
      BY <1>4, <2>1, <2>3, <3>1, SMTT(30) DEF RpcsStored
    <3>4. ASSUME NEW i \in DOMAIN v.rpcs, NEW j \in DOMAIN v.rpcs, v.rpcs[i] = v.rpcs[j]
          PROVE  i = j
      BY <2>1, <3>1, <3>2, <3>4, SMTT(30) DEF RpcsStored
    <3> QED
      BY <3>3, <3>4 DEF RpcsStored
  <2> QED
    BY <2>2, <2>3
<1>11. \A d \in Client : v.client[d].active # <<>> => v.client[d].pending # {}
  <2> TAKE d \in Client
  <2>1. CASE d = c
    BY <2>1
  <2>2. CASE d # c
    BY <1>1, <2>2 DEF ClientsBut, Honest
  <2> QED
    BY <2>1, <2>2
<1>12. \A d \in Client \ v.connected : v.client[d].pending = {}
  BY <1>1 DEF ClientsBut, Honest
<1> QED
  BY <1>1, <1>7, <1>8, <1>9, <1>10, <1>11, <1>12 DEF Honest

\* The commands of a client that is there
LEMMA HonestCommanded ==
  ASSUME NEW c \in Client, ParamOK
  PROVE  Commanded(HonestWith({c}), c)
<1> DEFINE W == HonestWith({c})
<1> SUFFICES ASSUME NEW w \in W
             PROVE  /\ issued(w, c) \in W
                    /\ \A st \in HonestStatus : [w EXCEPT !.client[c].status = st] \in W
                    /\ \A id : \A answer \in {"answered", "failed"} : handleCmdFinish(w, c, id, answer) \in W
                    /\ \A cmd \in Command : \A id : Given(w, id) =>
                         /\ cmd.kind = "parameter" /\ cmd.target \notin Future =>
                              executeParameter(w, c, cmd, id) \in W
                         /\ cmd.kind = "rpc" => executeScpiRpc(w, c, cmd, id) \in W
                         /\ cmd.kind = "measure" => executeMeasure(w, c, cmd.node, id) \in W
                    /\ [w EXCEPT !.client[c].active = <<>>] \in W
                    /\ w.client[c].pending # {} => \A cmd \in Command :
                         [w EXCEPT !.client[c].active = Append(w.client[c].active, cmd)] \in W
  BY Zenon DEF Commanded
<1>0. w \in Good
  BY HonestParts
<1>1. issued(w, c) \in W
  <2> DEFINE v == issued(w, c)
  <2>1. v \in Good /\ AllBut(w, v, {"query"})
    BY <1>0, Issuing
  <2> HIDE DEF v
  <2>2. AllBut(w, v, {"query", "delayed", "met"}) /\ w.met \subseteq v.met
    BY <2>1 DEF AllBut
  <2>3. v \in W
    BY <2>1, <2>2, HonestParts
  <2> QED
    BY <2>3 DEF v
<1>2. \A st \in HonestStatus : [w EXCEPT !.client[c].status = st] \in W
  BY HonestStatusPart
<1>3. \A id : \A answer \in {"answered", "failed"} : handleCmdFinish(w, c, id, answer) \in W
  BY HonestAnswers DEF Fate
<1>4. ASSUME NEW cmd \in Command, NEW id, Given(w, id), cmd.kind = "parameter", cmd.target \notin Future
      PROVE  executeParameter(w, c, cmd, id) \in W
  <2> DEFINE v == executeParameter(w, c, cmd, id)
             info == [client |-> c, target |-> cmd.target, id |-> id]
  <2>1. /\ v \in Good /\ AllBut(w, v, {"store", "client", "posted", "met"})
        /\ v.store = <<info>> \o w.store
        /\ ClientsBut(w, v, c, {"pending"})
        /\ v.client[c].pending = w.client[c].pending \cup {NameOf[cmd.target]}
        /\ \E e \in Event : e.call = "transaction" /\ v.posted = Append(w.posted, e)
        /\ w.met \subseteq v.met
        /\ NameOf[cmd.target] \in w.client[c].pending => "repeat" \in v.met
    BY <1>0, <1>4, Sending
  <2> HIDE DEF v
  <2>2. info \in Transaction /\ info.client = c /\ info.target = cmd.target
    BY <1>0, <1>4, Commands, GoodParts DEF Transaction, Given
  <2> HIDE DEF info
  <2>3. SameRemoves(w, v)
    BY <1>0, <2>1, RemovesStay
  <2>4. v.connected = w.connected /\ v.rpcs = w.rpcs
    BY <2>1 DEF AllBut
  <2>5. v \in W
    BY <2>1, <2>2, <2>3, <2>4, HonestAdding
  <2> QED
    BY <2>5 DEF v
<1>5. ASSUME NEW cmd \in Command, NEW id, Given(w, id), cmd.kind = "rpc"
      PROVE  executeScpiRpc(w, c, cmd, id) \in W
  <2> DEFINE v == executeScpiRpc(w, c, cmd, id)
             info == [client |-> c, target |-> cmd.target, id |-> id]
  <2>1. /\ v \in Good /\ w.met \subseteq v.met
        /\ \/ /\ AllBut(w, v, {"store", "rpcs", "client", "met"})
              /\ v.store = <<info>> \o w.store
              /\ v.rpcs = Append(w.rpcs, info)
              /\ ClientsBut(w, v, c, {"pending"})
              /\ v.client[c].pending = w.client[c].pending \cup {NameOf[cmd.target]}
              /\ NameOf[cmd.target] \in w.client[c].pending => "repeat" \in v.met
           \/ AllBut(w, v, {"rpcs", "met"}) /\ "bare" \in v.met
           \/ AllBut(w, v, {"met"})
    BY <1>0, <1>5, Invoking
  <2> HIDE DEF v
  <2>2. info \in Transaction /\ info.client = c /\ info.target = cmd.target /\ cmd.target \in Rpc
    BY <1>0, <1>5, Commands, GoodParts DEF Transaction, Given
  <2> HIDE DEF info
  <2>3. CASE /\ AllBut(w, v, {"store", "rpcs", "client", "met"})
             /\ v.store = <<info>> \o w.store
             /\ v.rpcs = Append(w.rpcs, info)
             /\ ClientsBut(w, v, c, {"pending"})
             /\ v.client[c].pending = w.client[c].pending \cup {NameOf[cmd.target]}
             /\ NameOf[cmd.target] \in w.client[c].pending => "repeat" \in v.met
    <3>1. v.connected = w.connected /\ v.posted = w.posted
      BY <2>3 DEF AllBut
    <3>2. SameRemoves(w, v)
      BY <1>0, <2>1, <3>1, RemovesStay
    <3>3. v \in W
      BY <2>1, <2>2, <2>3, <3>1, <3>2, HonestAdding
    <3> QED
      BY <3>3 DEF v
  <2>4. CASE AllBut(w, v, {"rpcs", "met"}) /\ "bare" \in v.met
    <3>1. v.met \cap Dishonest # {}
      BY <2>4 DEF Dishonest
    <3>2. v \in W
      BY <2>1, <3>1, NotPromised
    <3> QED
      BY <3>2 DEF v
  <2>5. CASE AllBut(w, v, {"met"})
    <3>1. AllBut(w, v, {"query", "delayed", "met"})
      BY <2>5 DEF AllBut
    <3>2. v \in W
      BY <2>1, <3>1, HonestParts
    <3> QED
      BY <3>2 DEF v
  <2> QED
    BY <2>1, <2>3, <2>4, <2>5
<1>6. ASSUME NEW cmd \in Command, NEW id, Given(w, id), cmd.kind = "measure"
      PROVE  executeMeasure(w, c, cmd.node, id) \in W
  <2>1. cmd.node \in Node
    BY <1>6 DEF Node
  <2>2. W \in SUBSET Good /\ Unmeasured(W, c)
    BY HonestUnmeasured DEF HonestWith
  <2> HIDE DEF W
  <2> QED
    BY <1>6, <2>1, <2>2, Measuring
<1>7. ASSUME NEW active \in Seq(Command), active = <<>> \/ w.client[c].pending # {}
      PROVE  [w EXCEPT !.client[c].active = active] \in W
  <2> DEFINE v == [w EXCEPT !.client[c].active = active]
  <2>1. v \in Good /\ ClientBut(w, v, c, {"active"}) /\ v.client[c].active = active
    BY <1>0, PutPart
  <2> HIDE DEF v
  <2>2. /\ v.connected = w.connected /\ v.store = w.store /\ v.rpcs = w.rpcs
        /\ v.posted = w.posted /\ v.met = w.met
        /\ \A d \in Client : v.client[d].pending = w.client[d].pending
        /\ \A d \in Client \ {c} : v.client[d].active = w.client[d].active
    BY <2>1 DEF ClientBut, ClientsBut, AllBut
  <2>3. ASSUME v.met \cap Dishonest = {}
        PROVE  Honest(v) /\ {c} \subseteq v.connected
    <3>1. Honest(w) /\ {c} \subseteq w.connected
      BY <2>2, <2>3 DEF HonestWith
    <3>2. \A d, m : (stored(v, d, m) <=> stored(w, d, m)) /\ (queued(v, d, m) <=> queued(w, d, m))
      BY <2>2 DEF stored, queued
    <3>3. OnceStored(v) /\ OnceQueued(v) /\ RpcsStored(v)
      <4>1. OnceStored(w) /\ OnceQueued(w) /\ RpcsStored(w)
        BY <3>1, Zenon DEF Honest
      <4>2. v.store = w.store /\ v.posted = w.posted /\ v.rpcs = w.rpcs
        BY <2>2
      <4>3. OnceStored(v)
        BY <4>1, <4>2, Zenon DEF OnceStored
      <4>4. OnceQueued(v)
        BY <4>1, <4>2, Zenon DEF OnceQueued
      <4>5. RpcsStored(v)
        BY <4>1, <4>2, Zenon DEF RpcsStored
      <4> QED
        BY <4>3, <4>4, <4>5
    <3>4. \A d \in Client : v.client[d].active # <<>> => v.client[d].pending # {}
      BY <1>7, <2>1, <2>2, <3>1 DEF Honest
    <3>5. \A d \in Client \ v.connected : v.client[d].pending = {}
      BY <2>2, <3>1 DEF Honest
    <3>6. \A d \in Client, m \in Name :
            /\ m \in v.client[d].pending <=> stored(v, d, m) \/ queued(v, d, m)
            /\ ~(stored(v, d, m) /\ queued(v, d, m))
      BY <2>2, <3>1, <3>2 DEF Honest
    <3> QED
      BY <2>2, <3>1, <3>3, <3>4, <3>5, <3>6 DEF Honest
  <2> QED
    BY <2>1, <2>3 DEF HonestWith, v
<1>8. [w EXCEPT !.client[c].active = <<>>] \in W
  <2>1. <<>> \in Seq(Command)
    BY EmptySeq
  <2> QED
    BY <1>7, <2>1
<1>9. ASSUME w.client[c].pending # {}, NEW cmd \in Command
      PROVE  [w EXCEPT !.client[c].active = Append(w.client[c].active, cmd)] \in W
  <2>1. Append(w.client[c].active, cmd) \in Seq(Command)
    BY <1>0, GoodParts, AppendProperties DEF ClientState
  <2> QED
    BY <1>7, <1>9, <2>1
<1> QED
  BY <1>1, <1>2, <1>3, <1>4, <1>5, <1>6, <1>8, <1>9

\* A transaction ends: its name goes from the store to what is queued to be removed.
LEMMA HonestMoved ==
  ASSUME NEW S, NEW w \in HonestWith(S), NEW v \in Good, w.met \subseteq v.met,
         v.connected = w.connected, v.client = w.client,
         NEW c \in Client, NEW name \in Name, v.posted = Append(w.posted, removal(c, name)),
         Honest(w) =>
           /\ stored(w, c, name) /\ OnceStored(v) /\ RpcsStored(v)
           /\ \A d, m : stored(v, d, m) <=> stored(w, d, m) /\ ~(d = c /\ m = name)
  PROVE  v \in HonestWith(S)
<1> DEFINE n == Len(w.posted)
           e == removal(c, name)
<1>0. w.posted \in Seq(Event) /\ n \in Nat /\ DOMAIN w.posted = 1..n /\ e \in Event
  BY GoodParts, LenProperties DEF HonestWith, removal, Event
<1> SUFFICES ASSUME v.met \cap Dishonest = {}
             PROVE  Honest(v) /\ S \subseteq v.connected
  BY DEF HonestWith
<1>1. Honest(w) /\ S \subseteq w.connected
  BY DEF HonestWith
<1>2. /\ stored(w, c, name) /\ OnceStored(v) /\ RpcsStored(v)
      /\ \A d, m : stored(v, d, m) <=> stored(w, d, m) /\ ~(d = c /\ m = name)
  BY <1>1
<1>3. ~queued(w, c, name)
  BY <1>1, <1>2 DEF Honest
<1>4. /\ DOMAIN v.posted = 1..(n + 1) /\ \A k \in 1..n : v.posted[k] = w.posted[k]
      /\ v.posted[n + 1] = e
  <2> HIDE DEF e
  <2>1. v.posted = Append(w.posted, e)
    BY DEF e
  <2> QED
    BY <1>0, <2>1, Appended
<1>5. \A d, m : isRemoval(e, d, m) <=> d = c /\ m = name
  BY DEF isRemoval, removal
<1>6. ASSUME NEW d, NEW m, NEW k \in DOMAIN v.posted, isRemoval(v.posted[k], d, m)
      PROVE  (k = n + 1 /\ d = c /\ m = name) \/ (k \in DOMAIN w.posted /\ isRemoval(w.posted[k], d, m))
  <2>1. CASE k = n + 1
    BY <1>4, <1>5, <1>6, <2>1
  <2>2. CASE k # n + 1
    BY <1>0, <1>4, <1>6, <2>2
  <2> QED
    BY <2>1, <2>2
<1>7. ASSUME NEW d, NEW m
      PROVE  queued(v, d, m) <=> queued(w, d, m) \/ (d = c /\ m = name)
  <2>1. queued(v, d, m) => queued(w, d, m) \/ (d = c /\ m = name)
    BY <1>6 DEF queued
  <2>2. queued(v, c, name)
    <3>1. n + 1 \in DOMAIN v.posted
      BY <1>0, <1>4
    <3> QED
      BY <1>4, <1>5, <3>1 DEF queued
  <2>3. ASSUME NEW k \in DOMAIN w.posted, isRemoval(w.posted[k], d, m)
        PROVE  queued(v, d, m)
    <3>1. k \in DOMAIN v.posted /\ isRemoval(v.posted[k], d, m)
      BY <1>0, <1>4, <2>3
    <3> QED
      BY <3>1 DEF queued
  <2> QED
    BY <2>1, <2>2, <2>3 DEF queued
<1>8. OnceQueued(v)
  <2> SUFFICES ASSUME NEW d \in Client, NEW m \in Name, NEW k \in DOMAIN v.posted,
                      NEW l \in DOMAIN v.posted,
                      isRemoval(v.posted[k], d, m), isRemoval(v.posted[l], d, m)
               PROVE  k = l
    BY DEF OnceQueued
  <2>1. CASE d = c /\ m = name
    <3>1. k = n + 1 /\ l = n + 1
      BY <1>3, <1>6, <2>1 DEF queued
    <3> QED
      BY <3>1
  <2>2. CASE ~(d = c /\ m = name)
    <3>1. /\ k \in DOMAIN w.posted /\ isRemoval(w.posted[k], d, m)
          /\ l \in DOMAIN w.posted /\ isRemoval(w.posted[l], d, m)
      BY <1>6, <2>2
    <3> QED
      BY <1>1, <3>1 DEF Honest, OnceQueued
  <2> QED
    BY <2>1, <2>2
<1>9. ASSUME NEW d \in Client, NEW m \in Name
      PROVE  /\ m \in v.client[d].pending <=> stored(v, d, m) \/ queued(v, d, m)
             /\ ~(stored(v, d, m) /\ queued(v, d, m))
  <2>1. /\ m \in w.client[d].pending <=> stored(w, d, m) \/ queued(w, d, m)
        /\ ~(stored(w, d, m) /\ queued(w, d, m))
    BY <1>1 DEF Honest
  <2> QED
    BY <1>2, <1>7, <2>1
<1>10. /\ \A d \in Client : v.client[d].active # <<>> => v.client[d].pending # {}
       /\ \A d \in Client \ v.connected : v.client[d].pending = {}
  BY <1>1, Zenon DEF Honest
<1> QED
  BY <1>1, <1>2, <1>8, <1>9, <1>10 DEF Honest

LEMMA HonestTransactionEnded ==
  ASSUME NEW S, NEW w \in HonestWith(S), NEW i \in DOMAIN w.store, w.store[i].target \notin Rpc
  PROVE  transactionEnded(w, i) \in HonestWith(S)
<1> DEFINE v == transactionEnded(w, i)
           info == w.store[i]
           name == NameOf[info.target]
           n == Len(w.store)
<1>0. w \in Good
  BY DEF HonestWith
<1>1. /\ v \in Good /\ AllBut(w, v, {"store", "posted"})
      /\ v.store = RemoveAt(w.store, i)
      /\ v.posted = Append(w.posted, removal(info.client, name))
  BY <1>0, EndingTransaction
<1> HIDE DEF v
<1>2. info.client \in Client /\ name \in Name
  BY <1>0, Stored
<1>3. /\ n \in Nat /\ DOMAIN w.store = 1..n /\ DOMAIN v.store = 1..(n - 1)
      /\ \A j \in 1..(n - 1) : v.store[j] = IF j < i THEN w.store[j] ELSE w.store[j + 1]
      /\ ToSet(v.store) = {w.store[j] : j \in DOMAIN w.store \ {i}}
  <2>1. w.store \in Seq(Transaction)
    BY <1>0, GoodParts
  <2>2. n \in Nat /\ DOMAIN w.store = 1..n
    BY <2>1, LenProperties
  <2> DEFINE store == w.store
  <2>3. /\ DOMAIN RemoveAt(store, i) = 1..(Len(store) - 1)
        /\ \A j \in 1..(Len(store) - 1) :
             RemoveAt(store, i)[j] = IF j < i THEN store[j] ELSE store[j + 1]
        /\ ToSet(RemoveAt(store, i)) = {store[j] : j \in DOMAIN store \ {i}}
    <3>1. store \in Seq(Transaction) /\ i \in DOMAIN store
      BY <2>1
    <3> HIDE DEF store
    <3> QED
      BY <3>1, Removed
  <2> QED
    BY <1>1, <2>2, <2>3
<1>4. ASSUME Honest(w)
      PROVE  /\ stored(w, info.client, name) /\ OnceStored(v) /\ RpcsStored(v)
             /\ \A d, m : stored(v, d, m) <=> stored(w, d, m) /\ ~(d = info.client /\ m = name)
  <2>1. OnceStored(w) /\ RpcsStored(w)
    BY <1>4 DEF Honest
  <2>2. stored(w, info.client, name)
    BY DEF stored
  <2>3. ASSUME NEW j \in DOMAIN v.store
        PROVE  \E k \in DOMAIN w.store \ {i} :
                 k = (IF j < i THEN j ELSE j + 1) /\ v.store[j] = w.store[k]
    BY <1>3, <2>3
  <2>4. ASSUME NEW k \in DOMAIN w.store \ {i}
        PROVE  \E j \in DOMAIN v.store : v.store[j] = w.store[k]
    <3>1. CASE k < i
      BY <1>3, <3>1
    <3>2. CASE k > i
      <4>1. k - 1 \in DOMAIN v.store /\ v.store[k - 1] = w.store[k]
        BY <1>3, <3>2
      <4> QED
        BY <4>1
    <3> QED
      BY <1>3, <3>1, <3>2
  <2>5. OnceStored(v)
    <3> SUFFICES ASSUME NEW j \in DOMAIN v.store, NEW l \in DOMAIN v.store,
                        v.store[j].client = v.store[l].client,
                        NameOf[v.store[j].target] = NameOf[v.store[l].target]
                 PROVE  j = l
      BY DEF OnceStored
    <3>1. PICK k \in DOMAIN w.store \ {i} :
            k = (IF j < i THEN j ELSE j + 1) /\ v.store[j] = w.store[k]
      BY <2>3
    <3>2. PICK h \in DOMAIN w.store \ {i} :
            h = (IF l < i THEN l ELSE l + 1) /\ v.store[l] = w.store[h]
      BY <2>3
    <3>3. k = h
      BY <2>1, <3>1, <3>2 DEF OnceStored
    <3> QED
      BY <1>3, <3>1, <3>2, <3>3
  <2>6. \A d, m : stored(v, d, m) <=> stored(w, d, m) /\ ~(d = info.client /\ m = name)
    <3> SUFFICES ASSUME NEW d, NEW m
                 PROVE  stored(v, d, m) <=> stored(w, d, m) /\ ~(d = info.client /\ m = name)
      OBVIOUS
    <3>1. ASSUME NEW j \in DOMAIN v.store, v.store[j].client = d, NameOf[v.store[j].target] = m
          PROVE  stored(w, d, m) /\ ~(d = info.client /\ m = name)
      <4>1. PICK k \in DOMAIN w.store \ {i} : v.store[j] = w.store[k]
        BY <2>3
      <4> QED
        BY <2>1, <3>1, <4>1 DEF stored, OnceStored
    <3>2. ASSUME NEW k \in DOMAIN w.store, w.store[k].client = d, NameOf[w.store[k].target] = m,
                 ~(d = info.client /\ m = name)
          PROVE  stored(v, d, m)
      <4>1. k # i
        BY <3>2
      <4> QED
        BY <2>4, <3>2, <4>1 DEF stored
    <3> QED
      BY <3>1, <3>2 DEF stored
  <2>7. RpcsStored(v)
    <3>1. v.rpcs = w.rpcs
      BY <1>1 DEF AllBut
    <3>2. ASSUME NEW j \in DOMAIN w.rpcs PROVE w.rpcs[j] \in ToSet(v.store)
      <4>1. w.rpcs[j].target \in Rpc /\ w.rpcs[j] \in ToSet(w.store)
        BY <2>1 DEF RpcsStored
      <4>2. PICK k \in DOMAIN w.store : w.rpcs[j] = w.store[k]
        BY <1>3, <4>1 DEF ToSet
      <4>3. k # i
        BY <4>1, <4>2
      <4> QED
        BY <1>3, <4>2, <4>3
    <3> QED
      BY <2>1, <3>1, <3>2 DEF RpcsStored
  <2> QED
    BY <2>2, <2>5, <2>6, <2>7
<1>5. v.connected = w.connected /\ v.client = w.client /\ v.met = w.met
  BY <1>1 DEF AllBut
<1> HIDE DEF info, name
<1>6. v \in HonestWith(S)
  BY <1>1, <1>2, <1>4, <1>5, HonestMoved
<1> QED
  BY <1>6 DEF v

\* A part of the store is as unique as the store.
LEMMA OnlyOnceStored ==
  ASSUME NEW v, NEW w, NEW T, OnceStored(w), IsOnly(v.store, w.store, T, 1..Len(w.store)),
         DOMAIN v.store = 1..Len(v.store), DOMAIN w.store = 1..Len(w.store), Len(v.store) \in Nat
  PROVE  OnceStored(v)
<1>1. PICK f \in [1..Len(v.store) -> 1..Len(w.store)] :
        /\ \A i, j \in 1..Len(v.store) : i < j => f[i] < f[j]
        /\ \A i \in 1..Len(v.store) : v.store[i] = w.store[f[i]]
  BY DEF IsOnly
<1> SUFFICES ASSUME NEW i \in DOMAIN v.store, NEW j \in DOMAIN v.store,
                    v.store[i].client = v.store[j].client,
                    NameOf[v.store[i].target] = NameOf[v.store[j].target]
             PROVE  i = j
  BY DEF OnceStored
<1>2. /\ f[i] \in DOMAIN w.store /\ v.store[i] = w.store[f[i]]
      /\ f[j] \in DOMAIN w.store /\ v.store[j] = w.store[f[j]]
      /\ f[i] \in Nat /\ f[j] \in Nat
  BY <1>1
<1>3. f[i] = f[j]
  <2> DEFINE k == f[i]
             l == f[j]
  <2>1. /\ k \in DOMAIN w.store /\ v.store[i] = w.store[k]
        /\ l \in DOMAIN w.store /\ v.store[j] = w.store[l]
    BY <1>2
  <2> HIDE DEF k, l
  <2>2. w.store[k].client = w.store[l].client /\ NameOf[w.store[k].target] = NameOf[w.store[l].target]
    BY <2>1
  <2>3. k = l
    BY <2>1, <2>2 DEF OnceStored
  <2> QED
    BY <2>3 DEF k, l
<1>4. ~(i < j) /\ ~(j < i)
  BY <1>1, <1>2, <1>3
<1> QED
  BY <1>4

LEMMA HonestRpcEnded ==
  ASSUME NEW S, NEW w \in HonestWith(S), NEW i \in DOMAIN w.rpcs
  PROVE  rpcEnded(w, i) \in HonestWith(S)
<1> DEFINE v == rpcEnded(w, i)
           r == w.rpcs[i]
           name == NameOf[r.target]
           n == Len(w.rpcs)
<1>0. w \in Good /\ w.store \in Seq(Transaction) /\ w.rpcs \in Seq(Transaction)
  BY GoodParts DEF HonestWith
<1>1. /\ r \in Transaction /\ v \in Good /\ AllBut(w, v, {"rpcs", "store", "posted"})
      /\ v.rpcs = RemoveAt(w.rpcs, i)
      /\ v.store = Only(w.store, ToSet(w.store) \ {r})
      /\ v.posted = Append(w.posted, removal(r.client, name))
  BY <1>0, EndingRpc
<1> HIDE DEF v
<1>2. r.client \in Client /\ name \in Name
  BY <1>1 DEF Transaction, Name
<1>3. /\ n \in Nat /\ DOMAIN w.rpcs = 1..n /\ DOMAIN v.rpcs = 1..(n - 1)
      /\ \A j \in 1..(n - 1) : v.rpcs[j] = IF j < i THEN w.rpcs[j] ELSE w.rpcs[j + 1]
  BY <1>0, <1>1, Removed, LenProperties
<1>4. /\ v.store \in Seq(Transaction) /\ ToSet(v.store) = ToSet(w.store) \ {r}
      /\ IsOnly(v.store, w.store, ToSet(w.store) \ {r}, 1..Len(w.store))
  BY <1>0, <1>1, OnlyKeeps, OnlyElements
<1>5. /\ DOMAIN v.store = 1..Len(v.store) /\ DOMAIN w.store = 1..Len(w.store)
      /\ Len(v.store) \in Nat /\ Len(w.store) \in Nat
  BY <1>0, <1>4, LenProperties
<1>6. ASSUME Honest(w)
      PROVE  /\ stored(w, r.client, name) /\ OnceStored(v) /\ RpcsStored(v)
             /\ \A d, m : stored(v, d, m) <=> stored(w, d, m) /\ ~(d = r.client /\ m = name)
  <2>1. OnceStored(w) /\ RpcsStored(w)
    BY <1>6 DEF Honest
  <2>2. PICK q \in DOMAIN w.store : w.store[q] = r
    BY <1>5, <2>1 DEF RpcsStored, ToSet
  <2>3. stored(w, r.client, name)
    BY <2>2 DEF stored
  <2>4. OnceStored(v)
    BY <1>4, <1>5, <2>1, OnlyOnceStored
  <2>5. \A d, m : stored(v, d, m) <=> stored(w, d, m) /\ ~(d = r.client /\ m = name)
    <3> SUFFICES ASSUME NEW d, NEW m
                 PROVE  stored(v, d, m) <=> stored(w, d, m) /\ ~(d = r.client /\ m = name)
      OBVIOUS
    <3>1. ASSUME NEW j \in DOMAIN v.store, v.store[j].client = d, NameOf[v.store[j].target] = m
          PROVE  stored(w, d, m) /\ ~(d = r.client /\ m = name)
      <4>1. v.store[j] \in ToSet(w.store) /\ v.store[j] # r
        BY <1>4, <1>5 DEF ToSet
      <4>2. PICK k \in DOMAIN w.store : w.store[k] = v.store[j]
        BY <1>5, <4>1 DEF ToSet
      <4>3. k # q
        BY <2>2, <4>1, <4>2
      <4> QED
        BY <2>1, <2>2, <3>1, <4>2, <4>3 DEF stored, OnceStored
    <3>2. ASSUME NEW k \in DOMAIN w.store, w.store[k].client = d, NameOf[w.store[k].target] = m,
                 ~(d = r.client /\ m = name)
          PROVE  stored(v, d, m)
      <4>1. w.store[k] # r
        BY <3>2
      <4>2. w.store[k] \in ToSet(v.store)
        BY <1>4, <1>5, <4>1 DEF ToSet
      <4>3. PICK j \in DOMAIN v.store : v.store[j] = w.store[k]
        BY <1>5, <4>2 DEF ToSet
      <4> QED
        BY <3>2, <4>3 DEF stored
    <3> QED
      BY <3>1, <3>2 DEF stored
  <2>6. RpcsStored(v)
    <3>1. ASSUME NEW j \in DOMAIN v.rpcs
          PROVE  \E k \in DOMAIN w.rpcs \ {i} :
                   k = (IF j < i THEN j ELSE j + 1) /\ v.rpcs[j] = w.rpcs[k]
      BY <1>3, <3>1
    <3>2. ASSUME NEW j \in DOMAIN v.rpcs
          PROVE  v.rpcs[j].target \in Rpc /\ v.rpcs[j] \in ToSet(v.store)
      <4>1. PICK k \in DOMAIN w.rpcs \ {i} : v.rpcs[j] = w.rpcs[k]
        BY <3>1
      <4>2. w.rpcs[k] # r
        BY <2>1 DEF RpcsStored
      <4> QED
        BY <1>4, <2>1, <4>1, <4>2 DEF RpcsStored
    <3>3. ASSUME NEW j \in DOMAIN v.rpcs, NEW l \in DOMAIN v.rpcs, v.rpcs[j] = v.rpcs[l]
          PROVE  j = l
      <4>1. PICK k \in DOMAIN w.rpcs \ {i} :
              k = (IF j < i THEN j ELSE j + 1) /\ v.rpcs[j] = w.rpcs[k]
        BY <3>1
      <4>2. PICK h \in DOMAIN w.rpcs \ {i} :
              h = (IF l < i THEN l ELSE l + 1) /\ v.rpcs[l] = w.rpcs[h]
        BY <3>1
      <4>3. k = h
        BY <2>1, <3>3, <4>1, <4>2 DEF RpcsStored
      <4> QED
        BY <1>3, <4>1, <4>2, <4>3
    <3> QED
      BY <3>2, <3>3 DEF RpcsStored
  <2> QED
    BY <2>3, <2>4, <2>5, <2>6
<1>7. v.connected = w.connected /\ v.client = w.client /\ v.met = w.met
  BY <1>1 DEF AllBut
<1> HIDE DEF r, name
<1>8. v \in HonestWith(S)
  BY <1>1, <1>2, <1>6, <1>7, HonestMoved
<1> QED
  BY <1>8 DEF v

\* That something has been removed is known, and nothing waits behind it any more.
LEMMA HonestKnown ==
  ASSUME NEW w \in HonestWith({}), NEW v \in Good, w.posted # <<>>, v.posted = Tail(w.posted),
         NEW c \in Client, NEW name \in Name, isRemoval(Head(w.posted), c, name),
         v.met = w.met, v.connected = w.connected, v.store = w.store, v.rpcs = w.rpcs,
         v.client[c].pending = w.client[c].pending \ {name}, v.client[c].active = <<>>,
         \A d \in Client \ {c} : /\ v.client[d].pending = w.client[d].pending
                                 /\ v.client[d].active = w.client[d].active
  PROVE  v \in HonestWith({c})
<1> DEFINE n == Len(w.posted)
<1> SUFFICES ASSUME v.met \cap Dishonest = {}
             PROVE  Honest(v) /\ c \in v.connected
  BY DEF HonestWith
<1>1. Honest(w)
  BY DEF HonestWith
<1>2. /\ n \in Nat \ {0} /\ DOMAIN w.posted = 1..n /\ DOMAIN v.posted = 1..(n - 1)
      /\ isRemoval(w.posted[1], c, name)
      /\ \A k \in 1..(n - 1) : v.posted[k] = w.posted[k + 1]
  <2>1. w.posted \in Seq(Event)
    BY GoodParts DEF HonestWith
  <2> QED
    BY <2>1, HeadAndTail, LenProperties
<1>3. queued(w, c, name)
  BY <1>2 DEF queued
<1>4. ~stored(w, c, name) /\ c \in v.connected
  BY <1>1, <1>3 DEF Honest
<1>5. \A d, m : stored(v, d, m) <=> stored(w, d, m)
  BY DEF stored
<1>6. ASSUME NEW d, NEW m, NEW k \in DOMAIN v.posted, isRemoval(v.posted[k], d, m)
      PROVE  k + 1 \in DOMAIN w.posted /\ isRemoval(w.posted[k + 1], d, m)
  BY <1>2, <1>6
<1>7. ASSUME NEW d \in Client, NEW m \in Name
      PROVE  queued(v, d, m) <=> queued(w, d, m) /\ ~(d = c /\ m = name)
  <2>1. ASSUME NEW k \in DOMAIN v.posted, isRemoval(v.posted[k], d, m)
        PROVE  queued(w, d, m) /\ ~(d = c /\ m = name)
    <3>1. k + 1 \in DOMAIN w.posted /\ isRemoval(w.posted[k + 1], d, m)
      BY <1>6, <2>1
    <3>2. d = c /\ m = name => k + 1 = 1
      BY <1>1, <1>2, <3>1 DEF Honest, OnceQueued
    <3> QED
      BY <1>2, <3>1, <3>2 DEF queued
  <2>2. ASSUME NEW k \in DOMAIN w.posted, isRemoval(w.posted[k], d, m), ~(d = c /\ m = name)
        PROVE  queued(v, d, m)
    <3>1. k # 1
      BY <1>2, <2>2 DEF isRemoval
    <3>2. k - 1 \in DOMAIN v.posted /\ isRemoval(v.posted[k - 1], d, m)
      BY <1>2, <2>2, <3>1
    <3> QED
      BY <3>2 DEF queued
  <2> QED
    BY <2>1, <2>2 DEF queued
<1>8. OnceStored(v) /\ RpcsStored(v)
  <2>1. OnceStored(w) /\ RpcsStored(w)
    BY <1>1 DEF Honest
  <2> QED
    BY <2>1, Zenon DEF OnceStored, RpcsStored
<1>9. OnceQueued(v)
  <2> SUFFICES ASSUME NEW d \in Client, NEW m \in Name, NEW k \in DOMAIN v.posted,
                      NEW l \in DOMAIN v.posted,
                      isRemoval(v.posted[k], d, m), isRemoval(v.posted[l], d, m)
               PROVE  k = l
    BY DEF OnceQueued
  <2> DEFINE p == k + 1
             q == l + 1
  <2>1. /\ p \in DOMAIN w.posted /\ isRemoval(w.posted[p], d, m)
        /\ q \in DOMAIN w.posted /\ isRemoval(w.posted[q], d, m)
    BY <1>6
  <2> HIDE DEF p, q
  <2>2. p = q
    BY <1>1, <2>1 DEF Honest, OnceQueued
  <2> QED
    BY <1>2, <2>2 DEF p, q
<1>10. ASSUME NEW d \in Client, NEW m \in Name
       PROVE  /\ m \in v.client[d].pending <=> stored(v, d, m) \/ queued(v, d, m)
              /\ ~(stored(v, d, m) /\ queued(v, d, m))
  <2>1. /\ m \in w.client[d].pending <=> stored(w, d, m) \/ queued(w, d, m)
        /\ ~(stored(w, d, m) /\ queued(w, d, m))
    BY <1>1 DEF Honest
  <2>2. m \in v.client[d].pending <=> m \in w.client[d].pending /\ ~(d = c /\ m = name)
    BY <2>1
  <2> QED
    BY <1>4, <1>5, <1>7, <2>1, <2>2
<1>11. \A d \in Client : v.client[d].active # <<>> => v.client[d].pending # {}
  BY <1>1 DEF Honest
<1>12. \A d \in Client \ v.connected : v.client[d].pending = {}
  BY <1>1 DEF Honest
<1> QED
  BY <1>4, <1>8, <1>9, <1>10, <1>11, <1>12 DEF Honest

LEMMA HonestHandled ==
  ASSUME ParamOK
  PROVE  Handles(HonestWith({}), [c \in Client |-> HonestWith({c})])
<1> DEFINE W == HonestWith({})
           Wc == [c \in Client |-> HonestWith({c})]
<1>1. ASSUME NEW c \in Client
      PROVE  Wc[c] = HonestWith({c}) /\ Wc[c] \in SUBSET W /\ Commanded(Wc[c], c) /\ Unmeasured(W, c)
  BY HonestCommanded, HonestUnmeasured DEF HonestWith
<1>2. \A w \in W : w \in Good
  BY DEF HonestWith
<1>3. ASSUME NEW w \in W, NEW c \in Client, c \in w.connected PROVE w \in Wc[c]
  BY <1>1, <1>3 DEF HonestWith
<1>4. ASSUME NEW w \in W, NEW e \in Event, e.call \in {"notification", "error"} PROVE post(w, e) \in W
  <2>1. post(w, e) \in Good /\ AllBut(w, post(w, e), {"posted"}) /\ post(w, e).posted = Append(w.posted, e)
    BY <1>2, Posting
  <2> DEFINE v == post(w, e)
  <2> HIDE DEF v
  <2>2. SamePending(w, v) /\ w.met = v.met
    BY <2>1 DEF AllBut, SamePending, v
  <2>3. e.call # "remove"
    BY <1>4
  <2>4. v \in Good /\ v.posted = Append(w.posted, e)
    BY <2>1 DEF v
  <2>5. SameRemoves(w, v)
    BY <1>2, <2>3, <2>4, RemovesStay
  <2>6. v \in W
    BY <2>2, <2>4, <2>5, HonestStays
  <2> QED
    BY <2>6 DEF v
<1>5. \A w \in W : \A x \in Circumstance : meet(w, x) \in W
  <2> TAKE w \in W
  <2> TAKE x \in Circumstance
  <2> DEFINE v == meet(w, x)
  <2>1. v \in Good /\ AllBut(w, v, {"met"}) /\ w.met \subseteq v.met
    BY <1>2, Meeting
  <2> HIDE DEF v
  <2>2. SamePending(w, v) /\ v.posted = w.posted
    BY <2>1 DEF AllBut, SamePending
  <2>3. SameRemoves(w, v)
    BY <1>2, <2>1, <2>2, RemovesStay
  <2>4. v \in W
    BY <2>1, <2>2, <2>3, HonestStays
  <2> QED
    BY <2>4 DEF v
<1>6. \A w \in W : \A c \in Client : \A st \in HonestStatus : [w EXCEPT !.client[c].status = st] \in W
  BY HonestStatusPart
<1>7. \A w \in W : \A c \in Client : \A id : \A answer \in {"answered", "failed"} :
        handleCmdFinish(w, c, id, answer) \in W
  BY HonestAnswers DEF Fate
<1>8. W \in SUBSET Good
  BY <1>2
<1> HIDE DEF W
<1>9. ASSUME NEW w \in W, NEW c \in Client, NEW comp \in Component
      PROVE  receiveMeasureValue(w, c, comp) \in W
  BY <1>1, <1>8, Receiving
<1>10. ASSUME NEW w \in W, NEW i \in DOMAIN w.store
       PROVE  /\ w.store[i].target \notin Rpc => transactionEnded(w, i) \in W
              /\ meet(transactionEnded(w, i), "crosstalk") \in W
              /\ \A name \in Name : meet(postRemove(w, w.store[i].client, name), "crosstalk") \in W
  <2>1. w.store[i].target \notin Rpc => transactionEnded(w, i) \in W
    BY HonestTransactionEnded DEF W
  <2>2. ASSUME NEW v \in Good
        PROVE  meet(v, "crosstalk") \in W
    <3>1. meet(v, "crosstalk") \in Good /\ "crosstalk" \in meet(v, "crosstalk").met
      BY Meeting DEF Circumstance
    <3>2. meet(v, "crosstalk").met \cap Dishonest # {}
      BY <3>1 DEF Dishonest
    <3> QED
      BY <3>1, <3>2, NotPromised DEF W
  <2>3. transactionEnded(w, i) \in Good
    BY <1>2, EndingTransaction
  <2>4. \A name \in Name : postRemove(w, w.store[i].client, name) \in Good
    BY <1>2, Stored, Removing
  <2> QED
    BY <2>1, <2>2, <2>3, <2>4
<1>11. ASSUME NEW w \in W, NEW i \in DOMAIN w.rpcs
       PROVE  rpcEnded(w, i) \in W
  BY HonestRpcEnded DEF W
<1>12. ASSUME NEW w \in W, w.posted # <<>>
       PROVE  LET e == Head(w.posted)
              IN  /\ e.call = "start" => enterInitialState(taken(w), e.client, e.component, e.model) \in W
                  /\ e.call = "remove" =>
                       LET u == known(taken(w), e.client, e.name)
                       IN  /\ [u EXCEPT !.client[e.client].active = <<>>] \in Wc[e.client]
                           /\ u.client[e.client].active = <<>> => u \in Wc[e.client]
                  /\ e.call \notin {"start", "remove"} => taken(w) \in W
  <2> DEFINE e == Head(w.posted)
             v == taken(w)
  <2>1. w \in Good /\ e \in Event /\ v \in Good /\ AllBut(w, v, {"posted"}) /\ v.posted = Tail(w.posted)
    BY <1>2, <1>12, Taking
  <2> HIDE DEF v
  <2>2. ASSUME e.call # "remove" PROVE v \in W
    <3>1. SamePending(w, v) /\ w.met = v.met
      BY <2>1 DEF AllBut, SamePending
    <3>2. SameRemoves(w, v)
      BY <1>12, <2>1, <2>2, RemovesStay
    <3> QED
      BY <2>1, <3>1, <3>2, HonestStays DEF W
  <2>3. ASSUME e.call = "start"
        PROVE  enterInitialState(v, e.client, e.component, e.model) \in W
    <3>1. v \in W
      BY <2>2, <2>3
    <3>2. e.client \in Client /\ e.component \in Component /\ e.model \in MeasureModel
      BY <2>1, <2>3, EventParts
    <3> HIDE DEF e
    <3> QED
      BY <1>1, <1>8, <3>1, <3>2, Entering
  <2>4. ASSUME e.call = "remove"
        PROVE  LET u == known(v, e.client, e.name)
               IN  /\ [u EXCEPT !.client[e.client].active = <<>>] \in Wc[e.client]
                   /\ u.client[e.client].active = <<>> => u \in Wc[e.client]
    <3> DEFINE c == e.client
               u == known(v, c, e.name)
               y == [u EXCEPT !.client[c].active = <<>>]
    <3>1. c \in Client /\ e.name \in Name /\ isRemoval(e, c, e.name)
      BY <2>1, <2>4, EventParts DEF isRemoval
    <3>2. isRemoval(Head(w.posted), c, e.name)
      BY <3>1
    <3> HIDE DEF c
    <3>3. /\ u \in Good /\ ClientBut(v, u, c, {"pending"})
          /\ u.client[c].pending = v.client[c].pending \ {e.name}
      BY <2>1, <3>1, Knowing
    <3> HIDE DEF e
    <3> DEFINE name == e.name
    <3> HIDE DEF u, name
    <3>4. <<>> \in Seq(Command)
      BY EmptySeq
    <3>5. \A x \in Seq(Command) :
            LET z == [u EXCEPT !.client[c].active = x]
            IN  z \in Good /\ ClientBut(u, z, c, {"active"}) /\ z.client[c].active = x
      BY <3>1, <3>3, PutPart
    <3>6. y \in Good /\ ClientBut(u, y, c, {"active"}) /\ y.client[c].active = <<>>
      BY <3>4, <3>5, Zenon
    <3> HIDE DEF y
    <3>7. /\ v.client = w.client
          /\ u.posted = Tail(w.posted) /\ u.met = w.met /\ u.connected = w.connected
          /\ u.store = w.store /\ u.rpcs = w.rpcs
          /\ y.posted = Tail(w.posted) /\ y.met = w.met /\ y.connected = w.connected
          /\ y.store = w.store /\ y.rpcs = w.rpcs
      BY <2>1, <3>3, <3>6 DEF ClientBut, AllBut
    <3>8. /\ u.client[c].pending = w.client[c].pending \ {name}
          /\ y.client[c].pending = w.client[c].pending \ {name}
          /\ \A d \in Client \ {c} :
               /\ u.client[d].pending = w.client[d].pending /\ u.client[d].active = w.client[d].active
               /\ y.client[d].pending = w.client[d].pending /\ y.client[d].active = w.client[d].active
      BY <3>1, <3>3, <3>6, <3>7 DEF ClientBut, ClientsBut, name
    <3>9. name \in Name /\ isRemoval(Head(w.posted), c, name) /\ w \in HonestWith({})
      BY <3>1, <3>2 DEF name, W
    <3>10. y \in HonestWith({c})
      BY <1>12, <3>1, <3>6, <3>7, <3>8, <3>9, HonestKnown
    <3>11. u.client[c].active = <<>> => u \in HonestWith({c})
      BY <1>12, <3>1, <3>3, <3>7, <3>8, <3>9, HonestKnown
    <3> QED
      BY <1>1, <3>1, <3>10, <3>11 DEF y, u, c
  <2> QED
    BY <2>2, <2>3, <2>4 DEF v
<1>13. \A c \in Client : Wc[c] \in SUBSET W /\ Commanded(Wc[c], c)
  BY <1>1
<1>14. \A w \in W, c \in Client : c \in w.connected => w \in Wc[c]
  BY <1>3
<1>15. \A w \in W, e \in Event : e.call \in {"notification", "error"} => post(w, e) \in W
  BY <1>4
<1>16. \A w \in W : meet(w, "outdated") \in W
  BY <1>5 DEF Circumstance
<1> HIDE DEF Wc
<1>17. Handles(W, Wc)
  BY <1>6, <1>7, <1>9, <1>10, <1>11, <1>12, <1>13, <1>14, <1>15, <1>16, Zenon DEF Handles
<1> QED
  BY <1>17 DEF W, Wc

LEMMA HonestConnecting ==
  ASSUME NEW w \in HonestWith({}), NEW c \in Client
  PROVE  connecting(w, c) \in HonestWith({}) \/ c \in w.connected
<1> SUFFICES ASSUME c \notin w.connected
             PROVE  connecting(w, c) \in HonestWith({})
  OBVIOUS
<1> DEFINE v == connecting(w, c)
<1>1. /\ v \in Good /\ AllBut(w, v, {"connected", "client"})
      /\ v.connected = w.connected \cup {c} /\ v.client[c] = freshClient
      /\ \A d \in Client \ {c} : v.client[d] = w.client[d]
  BY Connecting DEF HonestWith
<1> HIDE DEF v
<1>2. /\ v.store = w.store /\ v.rpcs = w.rpcs /\ v.posted = w.posted /\ v.met = w.met
      /\ v.client[c].pending = {} /\ v.client[c].active = <<>>
  BY <1>1 DEF AllBut, freshClient
<1>3. ASSUME v.met \cap Dishonest = {}
      PROVE  Honest(v)
  <2>1. Honest(w)
    BY <1>2, <1>3 DEF HonestWith
  <2>2. \A d, m : (stored(v, d, m) <=> stored(w, d, m)) /\ (queued(v, d, m) <=> queued(w, d, m))
    BY <1>2 DEF stored, queued
  <2>3. OnceStored(v) /\ OnceQueued(v) /\ RpcsStored(v)
    <3>1. OnceStored(w) /\ OnceQueued(w) /\ RpcsStored(w)
      BY <2>1 DEF Honest
    <3>2. OnceStored(v)
      BY <1>2, <3>1, Zenon DEF OnceStored
    <3>3. OnceQueued(v)
      BY <1>2, <3>1, Zenon DEF OnceQueued
    <3>4. RpcsStored(v)
      BY <1>2, <3>1, Zenon DEF RpcsStored
    <3> QED
      BY <3>2, <3>3, <3>4
  <2>4. \A d \in Client : v.client[d].pending = w.client[d].pending
    BY <1>1, <1>2, <2>1 DEF Honest
  <2>5. \A d \in Client : v.client[d].active # <<>> => v.client[d].pending # {}
    BY <1>1, <1>2, <2>1 DEF Honest
  <2>6. \A d \in Client \ v.connected : v.client[d].pending = {}
    BY <1>1, <2>1, <2>4 DEF Honest
  <2>7. \A d \in Client, m \in Name :
          /\ m \in v.client[d].pending <=> stored(v, d, m) \/ queued(v, d, m)
          /\ ~(stored(v, d, m) /\ queued(v, d, m))
    BY <2>1, <2>2, <2>4 DEF Honest
  <2> QED
    BY <2>3, <2>5, <2>6, <2>7 DEF Honest
<1> QED
  BY <1>1, <1>3 DEF HonestWith, v

\* With a client goes what is stored and queued for it, and nothing else.
LEMMA HonestLeaving ==
  ASSUME NEW w \in HonestWith({}), NEW c \in Client, NEW v \in Good,
         AllBut(leaving(w, c), v, {"met"}), w.met \subseteq v.met,
         (\E r \in ToSet(w.rpcs) : r.client = c) => "orphan" \in v.met
  PROVE  v \in HonestWith({})
<1> DEFINE r == remainingEvents(w, c)
           kept == {e \in ToSet(w.posted) : e.call \in {"start", "remove"} => e.client # c}
           others == {info \in ToSet(w.store) : info.client # c}
<1> SUFFICES ASSUME v.met \cap Dishonest = {}
             PROVE  Honest(v)
  BY DEF HonestWith
<1>0. w \in Good /\ w.store \in Seq(Transaction) /\ w.rpcs \in Seq(Transaction) /\ w.posted \in Seq(Event)
  BY GoodParts DEF HonestWith
<1>1. Honest(w)
  BY DEF HonestWith
<1>2. /\ v.connected = w.connected \ {c} /\ v.client[c] = freshClient
      /\ \A d \in Client \ {c} : v.client[d] = w.client[d]
      /\ v.store = Only(w.store, others) /\ v.posted = nobodysEvents(w, c) /\ v.rpcs = w.rpcs
      /\ r \in Seq(Event)
  <2> DEFINE x == leaving(w, c)
  <2>1. /\ x \in Good /\ AllBut(w, x, {"connected", "client", "store", "posted", "query", "delayed"})
        /\ x.connected = w.connected \ {c} /\ x.client[c] = freshClient
        /\ \A d \in Client \ {c} : x.client[d] = w.client[d]
        /\ x.store = ofOthers(w, c) /\ x.posted = nobodysEvents(w, c)
        /\ r \in Seq(Event)
    BY <1>0, Leaving
  <2>2. AllBut(x, v, {"met"})
    OBVIOUS
  <2> HIDE DEF x, r
  <2>3. /\ v.connected = x.connected /\ v.client = x.client /\ v.store = x.store
        /\ v.posted = x.posted /\ v.rpcs = w.rpcs
    BY <2>1, <2>2 DEF AllBut
  <2> QED
    BY <2>1, <2>3 DEF ofOthers
<1>3. /\ ToSet(v.store) = others /\ v.store \in Seq(Transaction)
      /\ IsOnly(v.store, w.store, others, 1..Len(w.store))
      /\ DOMAIN v.store = 1..Len(v.store) /\ DOMAIN w.store = 1..Len(w.store) /\ Len(v.store) \in Nat
  BY <1>0, <1>2, OnlyElements, OnlyKeeps, LenProperties
<1>4. /\ ToSet(r) = kept /\ IsOnly(r, w.posted, kept, 1..Len(w.posted))
      /\ DOMAIN r = 1..Len(r) /\ DOMAIN w.posted = 1..Len(w.posted) /\ Len(r) \in Nat
      /\ \A k \in DOMAIN r : r[k] \in Event
  BY <1>0, <1>2, OnlyElements, OnlyKeeps, LenProperties, ElementOfSeq DEF remainingEvents
<1>5. DOMAIN v.posted = DOMAIN r /\ \A k \in DOMAIN r : v.posted[k] = nobodysEvent(c, r[k])
  BY <1>2 DEF nobodysEvents
<1> HIDE DEF r
<1>6. \A d, m : \A k \in DOMAIN r : isRemoval(v.posted[k], d, m) <=> isRemoval(r[k], d, m)
  BY <1>4, <1>5, NobodysEvent DEF isRemoval
<1>7. ASSUME NEW d, NEW m PROVE stored(v, d, m) <=> stored(w, d, m) /\ d # c
  <2>1. stored(v, d, m) <=> \E x \in ToSet(v.store) : x.client = d /\ NameOf[x.target] = m
    BY DEF stored, ToSet
  <2>2. stored(w, d, m) <=> \E x \in ToSet(w.store) : x.client = d /\ NameOf[x.target] = m
    BY DEF stored, ToSet
  <2> QED
    BY <1>3, <2>1, <2>2
<1>8. ASSUME NEW d, NEW m PROVE queued(v, d, m) <=> queued(w, d, m) /\ d # c
  <2>1. queued(v, d, m) <=> \E k \in DOMAIN r : isRemoval(r[k], d, m)
    BY <1>5, <1>6 DEF queued
  <2>2. (\E k \in DOMAIN r : isRemoval(r[k], d, m)) <=> \E x \in kept : isRemoval(x, d, m)
    BY <1>4 DEF ToSet
  <2>3. queued(w, d, m) <=> \E x \in ToSet(w.posted) : isRemoval(x, d, m)
    BY DEF queued, ToSet
  <2>4. \A x \in ToSet(w.posted) : isRemoval(x, d, m) => (x \in kept <=> d # c)
    BY DEF isRemoval
  <2>5. kept \subseteq ToSet(w.posted)
    OBVIOUS
  <2> HIDE DEF kept
  <2> QED
    BY <2>1, <2>2, <2>3, <2>4, <2>5
<1>9. OnceStored(v)
  <2>1. OnceStored(w)
    BY <1>1 DEF Honest
  <2> HIDE DEF others
  <2> QED
    BY <1>3, <2>1, OnlyOnceStored
<1>10. OnceQueued(v)
  <2>1. PICK f \in [1..Len(r) -> 1..Len(w.posted)] :
          /\ \A i, j \in 1..Len(r) : i < j => f[i] < f[j]
          /\ \A i \in 1..Len(r) : r[i] = w.posted[f[i]]
    BY <1>4 DEF IsOnly
  <2> SUFFICES ASSUME NEW d \in Client, NEW m \in Name, NEW k \in DOMAIN v.posted,
                      NEW l \in DOMAIN v.posted,
                      isRemoval(v.posted[k], d, m), isRemoval(v.posted[l], d, m)
               PROVE  k = l
    BY DEF OnceQueued
  <2> DEFINE p == f[k]
             q == f[l]
  <2>2. k \in 1..Len(r) /\ l \in 1..Len(r)
    BY <1>4, <1>5
  <2>3. /\ p \in DOMAIN w.posted /\ isRemoval(w.posted[p], d, m)
        /\ q \in DOMAIN w.posted /\ isRemoval(w.posted[q], d, m)
    BY <1>4, <1>5, <1>6, <2>1, <2>2
  <2> HIDE DEF p, q
  <2>4. p = q
    BY <1>1, <2>3 DEF Honest, OnceQueued
  <2>5. p \in Nat
    BY <2>1, <2>2 DEF p
  <2>6. ~(k < l) /\ ~(l < k)
    BY <2>1, <2>2, <2>4, <2>5 DEF p, q
  <2> QED
    BY <1>4, <2>2, <2>6
<1>11. RpcsStored(v)
  <2>1. RpcsStored(w)
    BY <1>1 DEF Honest
  <2>2. ASSUME NEW i \in DOMAIN w.rpcs PROVE w.rpcs[i].client # c
    <3>1. "orphan" \notin v.met
      BY DEF Dishonest
    <3>2. w.rpcs[i] \in ToSet(w.rpcs)
      BY DEF ToSet
    <3> QED
      BY <3>1, <3>2
  <2>3. \A i \in DOMAIN w.rpcs : w.rpcs[i] \in ToSet(v.store)
    BY <1>3, <2>1, <2>2 DEF RpcsStored
  <2> QED
    BY <1>2, <2>1, <2>3 DEF RpcsStored
<1>12. ASSUME NEW d \in Client
       PROVE  /\ v.client[d].active # <<>> => v.client[d].pending # {}
              /\ d \notin v.connected => v.client[d].pending = {}
              /\ \A m \in Name :
                   /\ m \in v.client[d].pending <=> stored(v, d, m) \/ queued(v, d, m)
                   /\ ~(stored(v, d, m) /\ queued(v, d, m))
  <2>1. CASE d = c
    <3>1. v.client[d].active = <<>> /\ v.client[d].pending = {}
      BY <1>2, <2>1 DEF freshClient
    <3> QED
      BY <1>7, <1>8, <2>1, <3>1
  <2>2. CASE d # c
    <3>1. v.client[d] = w.client[d] /\ (d \in v.connected <=> d \in w.connected)
      BY <1>2, <2>2
    <3>2. /\ w.client[d].active # <<>> => w.client[d].pending # {}
          /\ d \notin w.connected => w.client[d].pending = {}
          /\ \A m \in Name :
               /\ m \in w.client[d].pending <=> stored(w, d, m) \/ queued(w, d, m)
               /\ ~(stored(w, d, m) /\ queued(w, d, m))
      BY <1>1 DEF Honest
    <3> QED
      BY <1>7, <1>8, <2>2, <3>1, <3>2
  <2> QED
    BY <2>1, <2>2
<1> QED
  BY <1>9, <1>10, <1>11, <1>12 DEF Honest

\* Only circumstances that are allowed are met.
LEMMA MetAllowed ==
  ASSUME Inv, scpi.met \subseteq Interference, [Next]_vars
  PROVE  scpi'.met \subseteq Interference
<1>0. scpi \in Good
  BY DEF Inv
<1>1. ASSUME NEW c \in Client, Connect(c) PROVE scpi'.met \subseteq Interference
  <2>1. scpi' = connecting(scpi, c)
    BY <1>1 DEF Connect, connecting
  <2> QED
    BY <1>0, <2>1, Connecting DEF AllBut
<1>2. ASSUME NEW c \in Client, Disconnect(c) PROVE scpi'.met \subseteq Interference
  <2>1. \E v : become(v)
    BY <1>2, Zenon DEF Disconnect
  <2> QED
    BY <2>1 DEF become
<1>3. ASSUME OwnStep PROVE scpi'.met \subseteq Interference
  <2>1. CASE \E c \in Client, line \in Line : Input(c, line)
    BY <2>1, Zenon DEF Input, become
  <2>2. CASE PostedEvent
    <3>1. \E v : become(v)
      BY <2>2, Zenon DEF PostedEvent, handleTransaction, notify, refuse
    <3> QED
      BY <3>1 DEF become
  <2>3. CASE \E t \in DOMAIN param : WorkDone(t)
    <3>1. \E v : become(v)
      BY <2>3, Zenon DEF WorkDone, notify, refuse
    <3> QED
      BY <3>1 DEF become
  <2>4. CASE \E i \in DOMAIN scpi.rpcs, ok \in BOOLEAN : RpcFinished(i, ok)
    <3>1. \E v : become(v)
      BY <2>4, Zenon DEF RpcFinished
    <3> QED
      BY <3>1 DEF become
  <2>5. CASE \E t \in DOMAIN param, v \in ParamValue : Changed(t, v)
    <3>1. \E v : become(v)
      BY <2>5, Zenon DEF Changed, notify
    <3> QED
      BY <3>1 DEF become
  <2>6. CASE \E comp \in Component : Value(comp)
    BY <2>6, Zenon DEF Value, become
  <2> QED
    BY <1>3, <2>1, <2>2, <2>3, <2>4, <2>5, <2>6, Zenon DEF OwnStep
<1>4. ASSUME NEW bit \in Bits, NEW on \in BOOLEAN, Signal(bit, on) PROVE scpi'.met \subseteq Interference
  BY <1>0, <1>4, SignalStep DEF AllBut
<1>5. CASE SortingChanged \/ UNCHANGED vars
  <2>1. scpi' = scpi
    BY <1>5 DEF SortingChanged, vars
  <2> QED
    BY <2>1
<1> QED
  BY <1>1, <1>2, <1>3, <1>4, <1>5, Kinds

LEMMA HonestNext ==
  ASSUME Inv, scpi \in HonestWith({}), [Next]_vars
  PROVE  scpi' \in HonestWith({})
<1> DEFINE W == HonestWith({})
<1>0. scpi \in Good /\ ParamOK /\ IsFiniteSet(scpi.connected)
  BY InvParts
<1>1. CASE OwnStep
  <2>1. W \in SUBSET Good /\ Handles(W, [c \in Client |-> HonestWith({c})])
    BY <1>0, HonestHandled DEF HonestWith
  <2> HIDE DEF W
  <2>2. scpi \in W
    BY DEF W
  <2>3. scpi' \in W
    BY <1>0, <1>1, <2>1, <2>2, OwnSteps
  <2> QED
    BY <2>3 DEF W
<1>2. ASSUME NEW c \in Client, Connect(c) PROVE scpi' \in W
  <2>1. scpi' = connecting(scpi, c) /\ c \notin scpi.connected
    BY <1>2 DEF Connect, connecting
  <2> QED
    BY <2>1, HonestConnecting
<1>3. ASSUME NEW c \in Client, Disconnect(c) PROVE scpi' \in W
  <2>1. /\ scpi' \in Good /\ AllBut(leaving(scpi, c), scpi', {"met"}) /\ scpi.met \subseteq scpi'.met
        /\ (\E r \in ToSet(scpi.rpcs) : r.client = c) => "orphan" \in scpi'.met
    BY <1>0, <1>3, DisconnectStep
  <2> QED
    BY <2>1, HonestLeaving
<1>4. ASSUME NEW bit \in Bits, NEW on \in BOOLEAN, Signal(bit, on) PROVE scpi' \in W
  <2>1. /\ scpi' \in Good /\ AllBut(scpi, scpi', {"client"})
        /\ \A c \in Client : OnlyStatus(scpi.client[c], scpi'.client[c])
    BY <1>0, <1>4, SignalStep
  <2>2. SamePending(scpi, scpi') /\ scpi.met = scpi'.met /\ scpi'.posted = scpi.posted
    BY <2>1 DEF AllBut, OnlyStatus, SamePending
  <2>3. SameRemoves(scpi, scpi')
    BY <1>0, <2>1, <2>2, RemovesStay
  <2> QED
    BY <2>1, <2>2, <2>3, HonestStays
<1>5. CASE SortingChanged \/ UNCHANGED vars
  <2>1. scpi' = scpi
    BY <1>5 DEF SortingChanged, vars
  <2> QED
    BY <2>1
<1> QED
  BY <1>1, <1>2, <1>3, <1>4, <1>5, Kinds

LEMMA HonestInit ==
  ASSUME Init
  PROVE  scpi \in HonestWith({}) /\ scpi.met \subseteq Interference
<1>1. /\ scpi.connected = {} /\ scpi.client = [c \in Client |-> freshClient]
      /\ scpi.store = <<>> /\ scpi.rpcs = <<>> /\ scpi.posted = <<>> /\ scpi.met = {}
  BY DEF Init
<1>2. scpi \in Good
  BY InitInv DEF Inv
<1>3. DOMAIN <<>> = {}
  BY EmptySeq
<1>4. \A c \in Client : scpi.client[c].pending = {} /\ scpi.client[c].active = <<>>
  BY <1>1 DEF freshClient
<1>5. \A c, m : ~stored(scpi, c, m) /\ ~queued(scpi, c, m)
  BY <1>1, <1>3 DEF stored, queued
<1>6. OnceStored(scpi) /\ OnceQueued(scpi) /\ RpcsStored(scpi)
  BY <1>1, <1>3 DEF OnceStored, OnceQueued, RpcsStored
<1> QED
  BY <1>1, <1>2, <1>4, <1>5, <1>6 DEF Honest, HonestWith

\* What a client believes to be pending is what the module holds for it, of everything clients
\* send: as long as no transaction begins while one of that name is under way, no error meets
\* several transactions of an entity, no RPC is sent without parameters and no client goes
\* before its RPC has ended (ScpiRpcTransactionStore, m_veinParamRpcTransactionHash, execCmd).
THEOREM PendingHonest ==
  ASSUME Interference \cap Dishonest = {}
  PROVE  Spec => []PendingIsHonest
<1> DEFINE HInv == scpi \in HonestWith({}) /\ scpi.met \subseteq Interference
<1>1. Init => HInv
  BY HonestInit
<1>2. Inv /\ HInv /\ [Next]_vars => HInv'
  BY MetAllowed, HonestNext
<1>3. Inv /\ HInv => PendingIsHonest
  <2> SUFFICES ASSUME Inv, HInv PROVE PendingIsHonest
    OBVIOUS
  <2>1. Honest(scpi) /\ scpi \in Good
    BY DEF HonestWith
  <2>2. scpi.store \in Seq(Transaction) /\ scpi.posted \in Seq(Event)
    BY <2>1, GoodParts
  <2>3. ASSUME NEW x \in ToSet(scpi.store)
        PROVE  x.client \in Client /\ NameOf[x.target] \in Name
    <3>1. PICK i \in DOMAIN scpi.store : x = scpi.store[i]
      BY DEF ToSet
    <3> QED
      BY <2>1, <3>1, Stored
  <2>4. \A x \in ToSet(scpi.posted) : x.call = "remove" => x.client \in Client /\ x.name \in Name
    BY <2>2, LenProperties, EventParts DEF ToSet
  <2>5. \A c, m : stored(scpi, c, m) <=> \E x \in ToSet(scpi.store) : x.client = c /\ NameOf[x.target] = m
    BY DEF stored, ToSet
  <2>6. \A c, m : queued(scpi, c, m) <=>
                    \E x \in ToSet(scpi.posted) : x.call = "remove" /\ x.client = c /\ x.name = m
    BY DEF queued, isRemoval, ToSet
  <2>7. ASSUME NEW c \in scpi.connected
        PROVE  /\ scpi.client[c].pending =
                    {NameOf[info.target] : info \in {x \in ToSet(scpi.store) : x.client = c}}
                      \cup {x.name : x \in {y \in ToSet(scpi.posted) : y.call = "remove" /\ y.client = c}}
               /\ scpi.client[c].active # <<>> => scpi.client[c].pending # {}
    <3> DEFINE pending == scpi.client[c].pending
               P == {NameOf[info.target] : info \in {x \in ToSet(scpi.store) : x.client = c}}
               Q == {x.name : x \in {y \in ToSet(scpi.posted) : y.call = "remove" /\ y.client = c}}
    <3>1. c \in Client /\ scpi.client[c] \in ClientState
      BY <2>1, GoodParts
    <3>2. pending \subseteq Name
      BY <3>1 DEF ClientState
    <3>3. P \subseteq Name /\ Q \subseteq Name
      BY <2>3, <2>4
    <3>4. \A m \in Name : (m \in P <=> stored(scpi, c, m)) /\ (m \in Q <=> queued(scpi, c, m))
      BY <2>5, <2>6
    <3>5. \A m \in Name : m \in pending <=> stored(scpi, c, m) \/ queued(scpi, c, m)
      BY <2>1, <3>1 DEF Honest
    <3>6. pending # {} \/ scpi.client[c].active = <<>>
      BY <2>1, <3>1 DEF Honest
    <3> HIDE DEF pending, P, Q
    <3>7. pending = P \cup Q
      BY <3>2, <3>3, <3>4, <3>5
    <3> QED
      BY <3>6, <3>7 DEF pending, P, Q
  <2>8. ASSUME NEW x \in ToSet(scpi.store) PROVE x.client \in scpi.connected
    <3>1. x.client \in Client /\ NameOf[x.target] \in Name /\ stored(scpi, x.client, NameOf[x.target])
      BY <2>3, <2>5
    <3>2. scpi.client[x.client].pending # {}
      BY <2>1, <3>1 DEF Honest
    <3> QED
      BY <2>1, <3>1, <3>2 DEF Honest
  <2> QED
    BY <2>7, <2>8 DEF PendingIsHonest
<1> HIDE DEF HInv
<1> QED
  BY <1>1, <1>2, <1>3, InvHolds, PTL DEF Spec

-----------------------------------------------------------------------------
(* What measuring queries get *)

\* The circumstances in which a measuring query does not get what it asked for
Careless == {"overlap", "overtaken", "drop"}

posts(w, c, comp, m) == \E k \in DOMAIN w.posted : w.posted[k] = start(c, comp, m)
runs(w, c, comp, m) == <<comp, m>> \in ToSet(w.client[c].running)
PostedOnce(w) ==
  \A k, l \in DOMAIN w.posted : w.posted[k].call = "start" /\ w.posted[l] = w.posted[k] => k = l
\* The machine of INIT runs or is to start; every machine of FETCH that is to start finds it running.
initComes(w, c, comp) == runs(w, c, comp, "INIT") \/ posts(w, c, comp, "INIT")
initFirst(w, c, comp) ==
  \A k \in DOMAIN w.posted : w.posted[k] = start(c, comp, "FETCH") =>
    \E l \in DOMAIN w.posted : l < k /\ w.posted[l] = start(c, comp, "INIT")

\* What FETCH waits for has a value by then unless it came early; only then an entry is empty.
Entries(w, c, t) ==
  /\ t.blank \subseteq t.early /\ ToSet(t.node.components) \subseteq w.client[c].sequences
  /\ t.node.model = "FETCH" =>
       \A comp \in ToSet(t.node.components) : comp \in w.client[c].valued \cup t.early \cup t.younger

\* A task has counted each component once, and waits for values that will come and that FETCH
\* will not overtake.
WholeTask(w, c, t) ==
  /\ Entries(w, c, t)
  /\ IsInjective(t.got) /\ ToSet(t.got) \subseteq ToSet(t.node.components) /\ ~t.stale
  /\ \A comp \in ToSet(t.got) : ~runs(w, c, comp, t.node.model) /\ ~posts(w, c, comp, t.node.model)
  /\ \A comp \in t.younger :
       /\ initComes(w, c, comp)
       /\ t.node.model = "FETCH" /\ comp \in ToSet(t.node.components) =>
            runs(w, c, comp, "INIT") \/ initFirst(w, c, comp)
Machines(w, c) ==
  /\ IsInjective(w.client[c].running)
  /\ \A comp \in Component, m \in MeasureModel : ~(posts(w, c, comp, m) /\ runs(w, c, comp, m))
  /\ \A t \in ToSet(w.client[c].executing) : WholeTask(w, c, t)
Awaits(w, c, S) == \A comp \in w.client[c].awaited : initComes(w, c, comp) \/ comp \in S
WholeFates(w) == \A i \in DOMAIN w.query : w.query[i].fate \notin {"torn", "stale", "dropped"}

\* Each machine of a component runs or is to start at most once; answers are whole.
Whole(w) ==
  /\ WholeFates(w) /\ PostedOnce(w)
  /\ \A c \in Client : Machines(w, c) /\ Awaits(w, c, {})
WholeWorlds == {v \in Good : v.met \cap Careless = {} => Whole(v)}

SameMeasuring(w, v, S) ==
  \A c \in S : /\ v.client[c].running = w.client[c].running
               /\ v.client[c].executing = w.client[c].executing
               /\ v.client[c].awaited = w.client[c].awaited
               /\ v.client[c].sequences = w.client[c].sequences
               /\ v.client[c].valued = w.client[c].valued
SameStarts(w, v, S) ==
  /\ \A c \in S : \A comp, m : posts(v, c, comp, m) <=> posts(w, c, comp, m)
  /\ \A c \in S : \A comp : initFirst(w, c, comp) => initFirst(v, c, comp)
  /\ PostedOnce(w) => PostedOnce(v)

LEMMA StartsDiffer ==
  ASSUME NEW c, NEW d, NEW comp, NEW k, NEW m, NEW l
  PROVE  /\ start(c, comp, m).call = "start"
         /\ start(c, comp, m) = start(d, k, l) <=> c = d /\ comp = k /\ m = l
BY DEF start

\* Machines and tasks depend on nothing else.
LEMMA MachinesStay ==
  ASSUME NEW w, NEW v, NEW S, NEW c \in S, SameMeasuring(w, v, S), SameStarts(w, v, S)
  PROVE  /\ Machines(w, c) => Machines(v, c)
         /\ \A T : Awaits(w, c, T) => Awaits(v, c, T)
<1>1. /\ v.client[c].running = w.client[c].running
      /\ v.client[c].executing = w.client[c].executing
      /\ v.client[c].awaited = w.client[c].awaited
      /\ \A t : Entries(w, c, t) => Entries(v, c, t)
  BY DEF SameMeasuring, Entries
<1>2. \A comp, m : /\ posts(v, c, comp, m) <=> posts(w, c, comp, m)
                   /\ runs(v, c, comp, m) <=> runs(w, c, comp, m)
  BY <1>1 DEF SameStarts, runs
<1>3. \A comp : /\ initComes(v, c, comp) <=> initComes(w, c, comp)
                /\ initFirst(w, c, comp) => initFirst(v, c, comp)
  BY <1>2 DEF SameStarts, initComes
<1>4. \A t : WholeTask(w, c, t) => WholeTask(v, c, t)
  BY <1>1, <1>2, <1>3, Zenon DEF WholeTask
<1>5. Machines(w, c) => Machines(v, c)
  BY <1>1, <1>2, <1>4, Zenon DEF Machines
<1>6. \A T : Awaits(w, c, T) => Awaits(v, c, T)
  BY <1>1, <1>3, Zenon DEF Awaits
<1> QED
  BY <1>5, <1>6

LEMMA WholeStays ==
  ASSUME NEW w \in WholeWorlds, NEW v \in Good, w.met \subseteq v.met,
         SameMeasuring(w, v, Client), SameStarts(w, v, Client),
         WholeFates(w) => WholeFates(v) \/ "drop" \in v.met
  PROVE  v \in WholeWorlds
<1> SUFFICES ASSUME v.met \cap Careless = {}
             PROVE  Whole(v)
  BY DEF WholeWorlds
<1>1. Whole(w) /\ "drop" \notin v.met
  BY DEF WholeWorlds, Careless
<1>2. WholeFates(v) /\ PostedOnce(v)
  BY <1>1 DEF Whole, SameStarts
<1>3. \A c \in Client : Machines(v, c) /\ Awaits(v, c, {})
  BY <1>1, MachinesStay DEF Whole
<1> QED
  BY <1>2, <1>3 DEF Whole

\* Events that start nothing do not matter.
LEMMA StartsStay ==
  ASSUME NEW w \in Good, NEW v \in Good, NEW S
  PROVE  /\ v.posted = w.posted => SameStarts(w, v, S)
         /\ \A e \in Event : v.posted = Append(w.posted, e) /\ e.call # "start" => SameStarts(w, v, S)
         /\ w.posted # <<>> /\ v.posted = Tail(w.posted) /\ Head(w.posted).call # "start"
              => SameStarts(w, v, S)
<1> DEFINE n == Len(w.posted)
<1>0. w.posted \in Seq(Event) /\ n \in Nat /\ DOMAIN w.posted = 1..n
  BY GoodParts, LenProperties
<1>1. ASSUME v.posted = w.posted PROVE SameStarts(w, v, S)
  BY <1>1, Zenon DEF SameStarts, posts, initFirst, PostedOnce
<1>2. ASSUME NEW e \in Event, v.posted = Append(w.posted, e), e.call # "start"
      PROVE  SameStarts(w, v, S)
  <2>1. /\ DOMAIN v.posted = 1..(n + 1) /\ \A k \in 1..n : v.posted[k] = w.posted[k]
        /\ v.posted[n + 1] = e
    BY <1>0, <1>2, Appended
  <2>2. \A c, comp, m : e # start(c, comp, m)
    BY <1>2, StartsDiffer
  <2>3. \A k \in DOMAIN w.posted : k \in DOMAIN v.posted /\ v.posted[k] = w.posted[k] /\ k # n + 1
    BY <1>0, <2>1
  <2>4. \A k \in DOMAIN v.posted : k = n + 1 \/ k \in DOMAIN w.posted
    BY <1>0, <2>1
  <2>5. \A c, comp, m : posts(v, c, comp, m) <=> posts(w, c, comp, m)
    BY <2>1, <2>2, <2>3, <2>4 DEF posts
  <2>6. ASSUME NEW c, NEW comp, initFirst(w, c, comp), NEW k \in DOMAIN v.posted,
               v.posted[k] = start(c, comp, "FETCH")
        PROVE  \E l \in DOMAIN v.posted : l < k /\ v.posted[l] = start(c, comp, "INIT")
    <3>1. k \in DOMAIN w.posted /\ w.posted[k] = start(c, comp, "FETCH")
      BY <2>1, <2>2, <2>3, <2>4, <2>6
    <3>2. PICK l \in DOMAIN w.posted : l < k /\ w.posted[l] = start(c, comp, "INIT")
      BY <2>6, <3>1 DEF initFirst
    <3> QED
      BY <2>3, <3>2
  <2>7. ASSUME PostedOnce(w), NEW k \in DOMAIN v.posted, NEW l \in DOMAIN v.posted,
               v.posted[k].call = "start", v.posted[l] = v.posted[k]
        PROVE  k = l
    <3>1. k \in DOMAIN w.posted /\ l \in DOMAIN w.posted
      BY <1>2, <2>1, <2>4, <2>7
    <3> QED
      BY <2>3, <2>7, <3>1 DEF PostedOnce
  <2> QED
    BY <2>5, <2>6, <2>7 DEF SameStarts, initFirst, PostedOnce
<1>3. ASSUME w.posted # <<>>, v.posted = Tail(w.posted), Head(w.posted).call # "start"
      PROVE  SameStarts(w, v, S)
  <2>1. /\ n \in Nat \ {0} /\ DOMAIN v.posted = 1..(n - 1) /\ Head(w.posted) = w.posted[1]
        /\ \A k \in 1..(n - 1) : v.posted[k] = w.posted[k + 1]
    BY <1>0, <1>3, HeadAndTail
  <2>2. \A c, comp, m : w.posted[1] # start(c, comp, m)
    BY <1>3, <2>1, StartsDiffer
  <2>3. \A k \in DOMAIN v.posted : k + 1 \in DOMAIN w.posted /\ v.posted[k] = w.posted[k + 1]
    BY <1>0, <2>1
  <2>4. \A k \in DOMAIN w.posted : k # 1 => k - 1 \in DOMAIN v.posted /\ v.posted[k - 1] = w.posted[k]
    BY <1>0, <2>1
  <2>5. \A c, comp, m : posts(v, c, comp, m) <=> posts(w, c, comp, m)
    <3> SUFFICES ASSUME NEW c, NEW comp, NEW m
                 PROVE  posts(v, c, comp, m) <=> posts(w, c, comp, m)
      OBVIOUS
    <3>1. posts(v, c, comp, m) => posts(w, c, comp, m)
      BY <2>3 DEF posts
    <3>2. posts(w, c, comp, m) => posts(v, c, comp, m)
      BY <2>2, <2>4 DEF posts
    <3> QED
      BY <3>1, <3>2
  <2>6. ASSUME NEW c, NEW comp, initFirst(w, c, comp), NEW k \in DOMAIN v.posted,
               v.posted[k] = start(c, comp, "FETCH")
        PROVE  \E l \in DOMAIN v.posted : l < k /\ v.posted[l] = start(c, comp, "INIT")
    <3>1. k + 1 \in DOMAIN w.posted /\ w.posted[k + 1] = start(c, comp, "FETCH")
      BY <2>3, <2>6
    <3> DEFINE j == k + 1
    <3> HIDE DEF j
    <3>2. j \in DOMAIN w.posted /\ w.posted[j] = start(c, comp, "FETCH")
      BY <3>1 DEF j
    <3>3. PICK l \in DOMAIN w.posted : l < j /\ w.posted[l] = start(c, comp, "INIT")
      BY <2>6, <3>2 DEF initFirst
    <3>4. l # 1
      BY <2>2, <3>3
    <3>5. l - 1 \in DOMAIN v.posted /\ v.posted[l - 1] = start(c, comp, "INIT")
      BY <2>4, <3>3, <3>4
    <3>6. l - 1 < k
      BY <1>0, <2>1, <3>3 DEF j
    <3> QED
      BY <3>5, <3>6
  <2>7. ASSUME PostedOnce(w), NEW k \in DOMAIN v.posted, NEW l \in DOMAIN v.posted,
               v.posted[k].call = "start", v.posted[l] = v.posted[k]
        PROVE  k = l
    <3> DEFINE i == k + 1
               j == l + 1
    <3>1. /\ i \in DOMAIN w.posted /\ j \in DOMAIN w.posted
          /\ v.posted[k] = w.posted[i] /\ v.posted[l] = w.posted[j]
      BY <2>3
    <3> HIDE DEF i, j
    <3>2. i = j
      BY <2>7, <3>1 DEF PostedOnce
    <3> QED
      BY <2>1, <3>2 DEF i, j
  <2> QED
    BY <2>5, <2>6, <2>7 DEF SameStarts, initFirst, PostedOnce
<1> QED
  BY <1>1, <1>2, <1>3

\* As many different components as the query has are all of them.
LEMMA GotAll ==
  ASSUME NEW t \in Task, IsInjective(t.got), ToSet(t.got) \subseteq ToSet(t.node.components),
         Len(t.got) = Len(t.node.components)
  PROVE  ToSet(t.got) = ToSet(t.node.components)
<1>1. /\ t.got \in Seq(Component) /\ t.node.components \in Seq(Component)
      /\ IsInjective(t.node.components)
  BY Nodes DEF Task
<1>2. ASSUME NEW s \in Seq(Component), IsInjective(s)
      PROVE  IsFiniteSet(ToSet(s)) /\ Cardinality(ToSet(s)) = Len(s)
  <2>1. Len(s) \in Nat /\ s \in [1..Len(s) -> ToSet(s)]
    <3>1. Len(s) \in Nat /\ DOMAIN s = 1..Len(s) /\ s = [k \in 1..Len(s) |-> s[k]]
      BY LenProperties
    <3> QED
      BY <3>1 DEF ToSet
  <2>2. s \in Bijection(1..Len(s), ToSet(s))
    <3>1. \A x \in ToSet(s) : \E k \in 1..Len(s) : s[k] = x
      BY <2>1 DEF ToSet
    <3>2. s \in Surjection(1..Len(s), ToSet(s))
      BY <2>1, <3>1, Zenon DEF Surjection
    <3>3. s \in Injection(1..Len(s), ToSet(s))
      <4>1. IsInjective(s)
        BY <1>2
      <4> QED
        BY <2>1, <4>1, Zenon DEF Injection
    <3> QED
      BY <3>2, <3>3 DEF Bijection
  <2>3. IsFiniteSet(1..Len(s)) /\ Cardinality(1..Len(s)) = Len(s)
    <3> DEFINE n == Len(s)
    <3>1. n \in Nat
      BY <2>1
    <3> HIDE DEF n
    <3>2. 1 \in Int /\ n \in Int
      BY <3>1
    <3>3. /\ IsFiniteSet(1..n)
          /\ Cardinality(1..n) = IF 1 > n THEN 0 ELSE n - 1 + 1
      BY <3>2, FS_Interval, Zenon
    <3>4. Cardinality(1..n) = n
      BY <3>1, <3>3
    <3> QED
      BY <3>3, <3>4 DEF n
  <2>4. ExistsBijection(1..Len(s), ToSet(s))
    BY <2>2 DEF ExistsBijection
  <2> QED
    BY <2>3, <2>4, FS_Bijection
<1>3. /\ IsFiniteSet(ToSet(t.node.components))
      /\ Cardinality(ToSet(t.node.components)) = Cardinality(ToSet(t.got))
  BY <1>1, <1>2
<1> QED
  BY <1>3, FS_Subset

\* Whether circumstances are met in which nothing is promised ...
CarelessWorlds == {v \in Good : v.met \cap Careless # {}}

LEMMA CarelessParts ==
  ASSUME NEW v \in Good
  PROVE  /\ v \in CarelessWorlds => v \in WholeWorlds
         /\ Whole(v) => v \in WholeWorlds
         /\ v \in WholeWorlds => v \in CarelessWorlds \/ Whole(v)
         /\ \A w \in CarelessWorlds : w.met \subseteq v.met => v \in CarelessWorlds
BY DEF CarelessWorlds, WholeWorlds

\* ... is not changed by what concerns no machine.
LEMMA WholePart ==
  ASSUME NEW w \in WholeWorlds, NEW v \in Good, NEW c \in Client,
         NEW F \in SUBSET {"active", "pending", "status"}, ClientBut(w, v, c, F)
  PROVE  v \in WholeWorlds
<1>0. w \in Good
  BY DEF WholeWorlds
<1>1. v.posted = w.posted /\ v.query = w.query /\ v.met = w.met
  BY DEF ClientBut, AllBut
<1>2. SameMeasuring(w, v, Client)
  <2> SUFFICES ASSUME NEW d \in Client
               PROVE  /\ v.client[d].running = w.client[d].running
                      /\ v.client[d].executing = w.client[d].executing
                      /\ v.client[d].awaited = w.client[d].awaited
                      /\ v.client[d].sequences = w.client[d].sequences
                      /\ v.client[d].valued = w.client[d].valued
    BY DEF SameMeasuring
  <2>1. /\ "running" \notin F /\ "executing" \notin F /\ "awaited" \notin F
        /\ "sequences" \notin F /\ "valued" \notin F
    OBVIOUS
  <2>2. CASE d = c
    BY <2>1, <2>2 DEF ClientBut, ClientsBut
  <2>3. CASE d # c
    BY <2>3 DEF ClientBut, ClientsBut
  <2> QED
    BY <2>2, <2>3
<1>3. SameStarts(w, v, Client)
  BY <1>0, <1>1, StartsStay
<1>4. WholeFates(w) => WholeFates(v)
  BY <1>1 DEF WholeFates
<1> QED
  BY <1>1, <1>2, <1>3, <1>4, WholeStays

LEMMA WholeAnswers ==
  ASSUME NEW w \in WholeWorlds, NEW c \in Client, NEW id, NEW answer \in {"answered", "partly", "failed"}
  PROVE  handleCmdFinish(w, c, id, answer) \in WholeWorlds
<1> DEFINE v == handleCmdFinish(w, c, id, answer)
<1>0. w \in Good /\ answer \in Fate \ {"open"}
  BY DEF WholeWorlds, Fate
<1>1. Finished(w, v, {answer})
  BY <1>0, Finishing
<1> HIDE DEF v
<1>2. /\ v \in Good /\ v.posted = w.posted /\ v.client = w.client /\ w.met \subseteq v.met
      /\ Len(v.query) = Len(w.query) /\ DOMAIN v.query = DOMAIN w.query
      /\ \A i \in DOMAIN w.query :
           \/ v.query[i].fate \in {w.query[i].fate} \cup {answer}
           \/ v.query[i].fate = "dropped" /\ "drop" \in v.met
  <2>1. v \in Good /\ Len(v.query) = Len(w.query)
    BY <1>1 DEF Finished
  <2>2. DOMAIN v.query = DOMAIN w.query
    BY <1>0, <2>1, GoodParts
  <2> QED
    BY <1>1, <2>1, <2>2 DEF Finished, AllBut
<1>3. SameMeasuring(w, v, Client) /\ SameStarts(w, v, Client)
  BY <1>0, <1>2, StartsStay DEF SameMeasuring
<1>4. WholeFates(w) => WholeFates(v) \/ "drop" \in v.met
  BY <1>2 DEF WholeFates
<1>5. v \in WholeWorlds
  BY <1>2, <1>3, <1>4, WholeStays
<1> QED
  BY <1>5 DEF v

LEMMA WholeMeets ==
  ASSUME NEW w \in WholeWorlds, NEW v \in Good,
         AllBut(w, v, {"connected", "store", "rpcs", "delayed", "met"}), w.met \subseteq v.met
  PROVE  v \in WholeWorlds
<1>1. w \in Good /\ v.posted = w.posted /\ v.client = w.client /\ v.query = w.query
  BY DEF AllBut, WholeWorlds
<1>2. SameMeasuring(w, v, Client) /\ SameStarts(w, v, Client)
  BY <1>1, StartsStay DEF SameMeasuring
<1>3. WholeFates(w) => WholeFates(v)
  BY <1>1 DEF WholeFates
<1> QED
  BY <1>2, <1>3, WholeStays

\* Neither is it by events that start nothing, whether they are put or taken.
LEMMA WholeMoves ==
  ASSUME NEW w \in WholeWorlds, NEW v \in Good,
         AllBut(w, v, {"connected", "store", "rpcs", "delayed", "met", "posted", "client"}),
         w.met \subseteq v.met, SameMeasuring(w, v, Client),
         \/ \E e \in Event : e.call # "start" /\ v.posted = Append(w.posted, e)
         \/ w.posted # <<>> /\ Head(w.posted).call # "start" /\ v.posted = Tail(w.posted)
  PROVE  v \in WholeWorlds
<1>1. w \in Good /\ v.query = w.query
  BY DEF AllBut, WholeWorlds
<1>2. SameStarts(w, v, Client)
  BY <1>1, StartsStay
<1>3. WholeFates(w) => WholeFates(v)
  BY <1>1 DEF WholeFates
<1> QED
  BY <1>2, <1>3, WholeStays

LEMMA WholeIssued ==
  ASSUME NEW w \in WholeWorlds, NEW c \in Client
  PROVE  issued(w, c) \in WholeWorlds
<1> DEFINE v == issued(w, c)
<1>0. w \in Good
  BY DEF WholeWorlds
<1>1. /\ v \in Good /\ AllBut(w, v, {"query"})
      /\ DOMAIN v.query = 1..(Len(w.query) + 1)
      /\ \A i \in DOMAIN w.query : v.query[i] = w.query[i]
      /\ v.query[Len(w.query) + 1] = [client |-> c, fate |-> "open"]
  BY <1>0, Issuing
<1> HIDE DEF v
<1>2. v.posted = w.posted /\ v.client = w.client /\ v.met = w.met
  BY <1>1 DEF AllBut
<1>3. SameMeasuring(w, v, Client) /\ SameStarts(w, v, Client)
  BY <1>0, <1>1, <1>2, StartsStay DEF SameMeasuring
<1>4. WholeFates(w) => WholeFates(v)
  <2>1. Len(w.query) \in Nat /\ DOMAIN w.query = 1..Len(w.query)
    BY <1>0, GoodParts
  <2>2. \A i \in DOMAIN v.query : i \in DOMAIN w.query \/ i = Len(w.query) + 1
    BY <1>1, <2>1
  <2> QED
    BY <1>1, <2>2 DEF WholeFates
<1>5. v \in WholeWorlds
  BY <1>1, <1>2, <1>3, <1>4, WholeStays
<1> QED
  BY <1>5 DEF v

-----------------------------------------------------------------------------
(* A measuring query starts the machines of its components *)

\* All is well except that machines of INIT are still to be started, for S.
WholeBut(w, c, S) ==
  /\ WholeFates(w) /\ PostedOnce(w)
  /\ \A d \in Client : Machines(w, d) /\ Awaits(w, d, IF d = c THEN S ELSE {})

LEMMA WholeButNone ==
  ASSUME NEW w, NEW c \in Client
  PROVE  Whole(w) <=> WholeBut(w, c, {})
BY DEF Whole, WholeBut

\* What is posted last comes after everything else.
LEMMA StartPosted ==
  ASSUME NEW w \in Good, NEW v \in Good, NEW c \in Client, NEW comp \in Component,
         NEW m \in MeasureModel, v.posted = Append(w.posted, start(c, comp, m))
  PROVE  /\ \A d, k, l : posts(v, d, k, l) <=> posts(w, d, k, l) \/ (d = c /\ k = comp /\ l = m)
         /\ PostedOnce(w) /\ ~posts(w, c, comp, m) => PostedOnce(v)
         /\ \A d, k : initFirst(w, d, k) /\ (posts(w, d, k, "INIT") \/ ~(d = c /\ k = comp /\ m = "FETCH"))
                        => initFirst(v, d, k)
<1> DEFINE e == start(c, comp, m)
           n == Len(w.posted)
<1>0. w.posted \in Seq(Event) /\ n \in Nat /\ DOMAIN w.posted = 1..n /\ e \in Event
  BY GoodParts, LenProperties, Starting
<1>1. \A d, k, l : start(d, k, l) = e <=> d = c /\ k = comp /\ l = m
  BY StartsDiffer
<1>2. e.call = "start"
  BY StartsDiffer
<1> HIDE DEF e
<1>3. /\ DOMAIN v.posted = 1..(n + 1) /\ \A i \in 1..n : v.posted[i] = w.posted[i]
      /\ v.posted[n + 1] = e
  BY <1>0, Appended DEF e
<1> HIDE DEF n
<1>4. /\ \A i \in DOMAIN w.posted : i \in DOMAIN v.posted /\ v.posted[i] = w.posted[i] /\ i < n + 1
      /\ \A i \in DOMAIN v.posted : i = n + 1 \/ i \in DOMAIN w.posted
      /\ n + 1 \in DOMAIN v.posted
  BY <1>0, <1>3
<1>5. \A d, k, l : posts(v, d, k, l) <=> posts(w, d, k, l) \/ (d = c /\ k = comp /\ l = m)
  BY <1>1, <1>3, <1>4 DEF posts
<1>6. ASSUME PostedOnce(w), ~posts(w, c, comp, m)
      PROVE  PostedOnce(v)
  <2> SUFFICES ASSUME NEW i \in DOMAIN v.posted, NEW j \in DOMAIN v.posted,
                      v.posted[i].call = "start", v.posted[j] = v.posted[i]
               PROVE  i = j
    BY DEF PostedOnce
  <2>1. \A l \in DOMAIN w.posted : w.posted[l] # e
    BY <1>6 DEF posts, e
  <2>2. CASE i \in DOMAIN w.posted /\ j \in DOMAIN w.posted
    BY <1>4, <1>6, <2>2 DEF PostedOnce
  <2>3. CASE i \notin DOMAIN w.posted \/ j \notin DOMAIN w.posted
    BY <1>3, <1>4, <2>1, <2>3
  <2> QED
    BY <2>2, <2>3
<1>7. ASSUME NEW d, NEW k, initFirst(w, d, k),
             posts(w, d, k, "INIT") \/ ~(d = c /\ k = comp /\ m = "FETCH")
      PROVE  initFirst(v, d, k)
  <2> SUFFICES ASSUME NEW i \in DOMAIN v.posted, v.posted[i] = start(d, k, "FETCH")
               PROVE  \E l \in DOMAIN v.posted : l < i /\ v.posted[l] = start(d, k, "INIT")
    BY DEF initFirst
  <2>1. CASE i \in DOMAIN w.posted
    <3>1. \E l \in DOMAIN w.posted : l < i /\ w.posted[l] = start(d, k, "INIT")
      BY <1>4, <1>7, <2>1 DEF initFirst
    <3> QED
      BY <1>4, <3>1
  <2>2. CASE i = n + 1
    <3>1. posts(w, d, k, "INIT")
      BY <1>1, <1>3, <1>7, <2>2
    <3>2. PICK l \in DOMAIN w.posted : w.posted[l] = start(d, k, "INIT")
      BY <3>1 DEF posts
    <3> QED
      BY <1>4, <2>2, <3>2
  <2> QED
    BY <1>4, <2>1, <2>2
<1> QED
  BY <1>5, <1>6, <1>7

\* One machine is started, unless it runs or is to start already.
LEMMA StartOne ==
  ASSUME NEW w \in Good, NEW c \in Client, NEW comp \in Component, NEW m \in MeasureModel,
         NEW S, WholeBut(w, c, S),
         \A t \in ToSet(w.client[c].executing) : t.node.model = m => comp \notin ToSet(t.got)
  PROVE  LET v == startSequence(w, c, comp, m)
         IN  /\ v \in Good /\ AllBut(w, v, {"posted"})
             /\ WholeBut(v, c, S)
             /\ m = "INIT" => WholeBut(v, c, S \ {comp})
<1> DEFINE v == startSequence(w, c, comp, m)
<1>1. posts(w, c, comp, m) <=> start(c, comp, m) \in ToSet(w.posted)
  BY DEF posts, ToSet
<1>2. v = IF posts(w, c, comp, m) \/ runs(w, c, comp, m) THEN w ELSE post(w, start(c, comp, m))
  BY <1>1 DEF startSequence, runs
<1> HIDE DEF v
<1>3. CASE posts(w, c, comp, m) \/ runs(w, c, comp, m)
  <2>1. v = w
    BY <1>2, <1>3
  <2>2. ASSUME m = "INIT" PROVE WholeBut(w, c, S \ {comp})
    <3>1. initComes(w, c, comp)
      BY <1>3, <2>2 DEF initComes
    <3>2. Awaits(w, c, S)
      BY DEF WholeBut
    <3>3. Awaits(w, c, S \ {comp})
      BY <3>1, <3>2 DEF Awaits
    <3> QED
      BY <3>3 DEF WholeBut
  <2> QED
    BY <2>1, <2>2 DEF AllBut, v
<1>4. CASE ~posts(w, c, comp, m) /\ ~runs(w, c, comp, m)
  <2>1. v \in Good /\ AllBut(w, v, {"posted"}) /\ v.posted = Append(w.posted, start(c, comp, m))
    BY <1>2, <1>4, Starting, Posting
  <2>2. /\ \A d, k, l : posts(v, d, k, l) <=> posts(w, d, k, l) \/ (d = c /\ k = comp /\ l = m)
        /\ PostedOnce(v)
        /\ \A d, k : initFirst(w, d, k) /\ (posts(w, d, k, "INIT") \/ ~(d = c /\ k = comp /\ m = "FETCH"))
                       => initFirst(v, d, k)
    BY <1>4, <2>1, StartPosted DEF WholeBut
  <2>3. v.client = w.client /\ v.query = w.query
    BY <2>1 DEF AllBut
  <2>4. \A d, k, l : runs(v, d, k, l) <=> runs(w, d, k, l)
    BY <2>3 DEF runs
  <2>5. \A d, k : initComes(w, d, k) => initComes(v, d, k)
    BY <2>2, <2>4 DEF initComes
  <2>6. ASSUME NEW d \in Client, NEW t \in ToSet(w.client[d].executing)
        PROVE  WholeTask(v, d, t)
    <3>1. WholeTask(w, d, t)
      BY DEF WholeBut, Machines
    <3>5. Entries(v, d, t)
      BY <2>3, <3>1 DEF WholeTask, Entries
    <3>2. \A k \in ToSet(t.got) : ~runs(v, d, k, t.node.model) /\ ~posts(v, d, k, t.node.model)
      BY <2>2, <2>4, <3>1 DEF WholeTask
    <3>3. ASSUME NEW k \in t.younger, t.node.model = "FETCH" /\ k \in ToSet(t.node.components)
          PROVE  runs(v, d, k, "INIT") \/ initFirst(v, d, k)
      <4>1. /\ runs(w, d, k, "INIT") \/ initFirst(w, d, k)
            /\ runs(w, d, k, "INIT") \/ posts(w, d, k, "INIT")
        BY <3>1, <3>3 DEF WholeTask, initComes
      <4> QED
        BY <2>2, <2>4, <4>1
    <3>4. \A k \in t.younger : initComes(v, d, k)
      BY <2>5, <3>1 DEF WholeTask
    <3> QED
      BY <3>1, <3>2, <3>3, <3>4, <3>5, Zenon DEF WholeTask
  <2>7. ASSUME NEW d \in Client PROVE Machines(v, d)
    <3>1. Machines(w, d)
      BY DEF WholeBut
    <3>2. IsInjective(v.client[d].running)
      BY <2>3, <3>1 DEF Machines
    <3>3. \A k \in Component, l \in MeasureModel : ~(posts(v, d, k, l) /\ runs(v, d, k, l))
      BY <1>4, <2>2, <2>4, <3>1 DEF Machines
    <3>4. \A t \in ToSet(v.client[d].executing) : WholeTask(v, d, t)
      BY <2>3, <2>6
    <3> QED
      BY <3>2, <3>3, <3>4 DEF Machines
  <2>8. ASSUME NEW d \in Client, NEW T, Awaits(w, d, T)
        PROVE  Awaits(v, d, T) /\ (d = c /\ m = "INIT" => Awaits(v, d, T \ {comp}))
    <3>1. d = c /\ m = "INIT" => initComes(v, d, comp)
      BY <2>2 DEF initComes
    <3>2. \A k \in v.client[d].awaited : initComes(v, d, k) \/ k \in T
      BY <2>3, <2>5, <2>8 DEF Awaits
    <3> QED
      BY <3>1, <3>2 DEF Awaits
  <2>9. \A d \in Client : Awaits(w, d, IF d = c THEN S ELSE {})
    BY DEF WholeBut
  <2>10. WholeFates(v)
    BY <2>3 DEF WholeFates, WholeBut
  <2>11. WholeBut(v, c, S)
    BY <2>2, <2>7, <2>8, <2>9, <2>10 DEF WholeBut
  <2>12. ASSUME m = "INIT" PROVE WholeBut(v, c, S \ {comp})
    <3>1. \A d \in Client : Awaits(v, d, IF d = c THEN S \ {comp} ELSE {})
      BY <2>8, <2>9, <2>12
    <3> QED
      BY <2>2, <2>7, <2>10, <3>1 DEF WholeBut
  <2> QED
    BY <2>1, <2>11, <2>12 DEF v
<1> QED
  BY <1>3, <1>4

LEMMA CarelessUnmeasured ==
  ASSUME NEW c \in Client
  PROVE  CarelessWorlds \in SUBSET Good /\ Unmeasured(CarelessWorlds, c)
<1> DEFINE W == CarelessWorlds
<1>0. \A w \in W : w \in Good
  BY DEF CarelessWorlds
<1> SUFFICES ASSUME NEW w \in W
             PROVE  /\ \A x \in SUBSET Component : /\ [w EXCEPT !.client[c].sequences = x] \in W
                                                  /\ [w EXCEPT !.client[c].valued = x] \in W
                                                  /\ [w EXCEPT !.client[c].awaited = x] \in W
                    /\ \A x \in Seq(Task) :
                         (\A t \in ToSet(x) : Given(w, t.id)) => [w EXCEPT !.client[c].executing = x] \in W
                    /\ \A x \in Seq(Component \X MeasureModel) : [w EXCEPT !.client[c].running = x] \in W
                    /\ \A x \in Circumstance : meet(w, x) \in W
                    /\ \A comp \in Component, model \in MeasureModel : post(w, start(c, comp, model)) \in W
                    /\ \A id : \A answer \in Fate \ {"open"} : handleCmdFinish(w, c, id, answer) \in W
  BY <1>0, Zenon DEF Unmeasured
<1>1. \A v \in Good : w.met \subseteq v.met => v \in W
  BY CarelessParts
<1>2. \A v \in Good : \A F : ClientBut(w, v, c, F) => v \in W
  BY <1>1 DEF ClientBut, AllBut
<1>3. ASSUME NEW x \in SUBSET Component
      PROVE  /\ [w EXCEPT !.client[c].sequences = x] \in W
             /\ [w EXCEPT !.client[c].valued = x] \in W
             /\ [w EXCEPT !.client[c].awaited = x] \in W
  <2>1. [w EXCEPT !.client[c].sequences = x] \in W
    BY <1>0, <1>2, PutSequences
  <2>2. [w EXCEPT !.client[c].valued = x] \in W
    BY <1>0, <1>2, PutValued
  <2>3. [w EXCEPT !.client[c].awaited = x] \in W
    BY <1>0, <1>2, PutAwaited
  <2> QED
    BY <2>1, <2>2, <2>3
<1>4. ASSUME NEW x \in Seq(Task), \A t \in ToSet(x) : Given(w, t.id)
      PROVE  [w EXCEPT !.client[c].executing = x] \in W
  BY <1>0, <1>2, <1>4, PutPart
<1>5. ASSUME NEW x \in Seq(Component \X MeasureModel)
      PROVE  [w EXCEPT !.client[c].running = x] \in W
  BY <1>0, <1>2, <1>5, PutPart
<1>6. ASSUME NEW x \in Circumstance PROVE meet(w, x) \in W
  BY <1>0, <1>1, Meeting
<1>7. ASSUME NEW comp \in Component, NEW model \in MeasureModel
      PROVE  post(w, start(c, comp, model)) \in W
  <2> DEFINE v == post(w, start(c, comp, model))
  <2>1. v \in Good /\ AllBut(w, v, {"posted"})
    BY <1>0, Starting, Posting
  <2> HIDE DEF v
  <2>2. v \in W
    BY <1>1, <2>1 DEF AllBut
  <2> QED
    BY <2>2 DEF v
<1>8. ASSUME NEW id, NEW answer \in Fate \ {"open"}
      PROVE  handleCmdFinish(w, c, id, answer) \in W
  <2> DEFINE v == handleCmdFinish(w, c, id, answer)
  <2>1. Finished(w, v, {answer})
    BY <1>0, Finishing
  <2> HIDE DEF v
  <2>2. v \in W
    BY <1>1, <2>1 DEF Finished
  <2> QED
    BY <2>2 DEF v
<1> QED
  BY <1>3, <1>4, <1>5, <1>6, <1>7, <1>8

\* What executeMeasure does before machines are started: INIT makes its components awaited, for
\* the others there is a new task, which waits for what INIT has asked for before.
begun(w, c, node, id) ==
  LET x == getComponentSequences(w, c, node)
  IN IF node.model = "INIT"
     THEN [x EXCEPT !.client[c].awaited = @ \cup ToSet(node.components)]
     ELSE [x EXCEPT !.client[c].executing = Append(@, newTask(w.client[c], node, id))]
restarted(w, c, node) ==
  \E t \in ToSet(w.client[c].executing) :
    t.node.model = node.model /\ ToSet(t.got) \cap ToSet(node.components) # {}
overtaken(w, c, node) ==
  \E comp \in ToSet(node.components), i, j \in DOMAIN w.posted :
    /\ node.model = "FETCH" /\ i < j
    /\ w.posted[i] = start(c, comp, "FETCH")
    /\ w.posted[j] = start(c, comp, "INIT")

LEMMA Beginning ==
  ASSUME NEW w \in Good, NEW c \in Client, NEW node \in Node, NEW id, Given(w, id)
  PROVE  LET v == begun(w, c, node, id)
             task == newTask(w.client[c], node, id)
             wait == node.model = "INIT"
         IN  /\ v \in Good
             /\ ClientBut(w, v, c, {"awaited", "executing", "sequences"})
             /\ v.client[c].awaited = w.client[c].awaited \cup (IF wait THEN ToSet(node.components) ELSE {})
             /\ v.client[c].sequences = w.client[c].sequences \cup ToSet(node.components)
             /\ ToSet(v.client[c].executing) = ToSet(w.client[c].executing) \cup (IF wait THEN {} ELSE {task})
<1> DEFINE task == newTask(w.client[c], node, id)
           u == getComponentSequences(w, c, node)
           v == begun(w, c, node, id)
<1>1. /\ node.components \in Seq(Component)
      /\ \A comp \in ToSet(node.components) : comp \in Component
  BY Nodes, LenProperties DEF ToSet
<1>2. v = IF node.model = "INIT"
          THEN [u EXCEPT !.client[c].awaited = @ \cup ToSet(node.components)]
          ELSE [u EXCEPT !.client[c].executing = Append(@, task)]
  BY DEF begun
<1>3. /\ u \in Good /\ ClientBut(w, u, c, {"sequences"})
      /\ u.client[c].sequences = w.client[c].sequences \cup ToSet(node.components)
  BY Sequences
<1>4. task \in Task /\ task.id = id
  BY NewTask DEF newTask
<1> HIDE DEF task, u, v
<1>5. u.query = w.query
  BY <1>3 DEF ClientBut, AllBut
<1>6. /\ u.client[c].awaited = w.client[c].awaited
      /\ u.client[c].executing = w.client[c].executing
  BY <1>3 DEF ClientBut, ClientsBut
<1>7. CASE node.model = "INIT"
  <2> DEFINE a == u.client[c].awaited \cup ToSet(node.components)
  <2>1. a \in SUBSET Component
    BY <1>1, <1>3, GoodParts DEF ClientState
  <2>2. v = [u EXCEPT !.client[c].awaited = a]
    BY <1>2, <1>3, <1>7, GoodParts
  <2> HIDE DEF a
  <2>3. v \in Good /\ ClientBut(u, v, c, {"awaited"}) /\ v.client[c].awaited = a
    BY <1>3, <2>1, <2>2, PutAwaited
  <2>4. /\ ClientBut(w, v, c, {"awaited", "executing", "sequences"})
        /\ v.client[c].executing = u.client[c].executing
        /\ v.client[c].sequences = u.client[c].sequences
    BY <1>3, <2>3 DEF ClientBut, ClientsBut, AllBut
  <2> QED
    BY <1>3, <1>6, <1>7, <2>3, <2>4 DEF a, v
<1>8. CASE node.model # "INIT"
  <2> DEFINE x == Append(u.client[c].executing, task)
  <2>1. u.client[c].executing \in Seq(Task)
    BY <1>3, GoodParts DEF ClientState
  <2>2. v = [u EXCEPT !.client[c].executing = x]
    BY <1>2, <1>3, <1>8, GoodParts
  <2>3. x \in Seq(Task) /\ ToSet(x) = ToSet(u.client[c].executing) \cup {task}
    BY <1>4, <2>1, Appended
  <2> HIDE DEF x
  <2>4. \A t \in ToSet(x) : Given(u, t.id)
    BY <1>3, <1>4, <1>5, <2>3, GoodParts DEF Given
  <2>5. v \in Good /\ ClientBut(u, v, c, {"executing"}) /\ v.client[c].executing = x
    BY <1>3, <2>2, <2>3, <2>4, PutPart
  <2>6. /\ ClientBut(w, v, c, {"awaited", "executing", "sequences"})
        /\ v.client[c].awaited = u.client[c].awaited
        /\ v.client[c].sequences = u.client[c].sequences
    BY <1>3, <2>5 DEF ClientBut, ClientsBut, AllBut
  <2> QED
    BY <1>3, <1>6, <1>8, <2>3, <2>5, <2>6 DEF task, v
<1> QED
  BY <1>7, <1>8

\* When nothing is overtaken, all is well but for what INIT has still to start.
LEMMA BegunWell ==
  ASSUME NEW w \in Good, NEW c \in Client, NEW node \in Node, NEW id, Given(w, id),
         Whole(w), ~overtaken(w, c, node)
  PROVE  WholeBut(begun(w, c, node, id), c,
                  IF node.model = "INIT" THEN ToSet(node.components) ELSE {})
<1> DEFINE v == begun(w, c, node, id)
           task == newTask(w.client[c], node, id)
           S == IF node.model = "INIT" THEN ToSet(node.components) ELSE {}
<1>1. /\ v \in Good /\ ClientBut(w, v, c, {"awaited", "executing", "sequences"})
      /\ v.client[c].awaited = w.client[c].awaited \cup S
      /\ v.client[c].sequences = w.client[c].sequences \cup ToSet(node.components)
      /\ ToSet(v.client[c].executing)
           = ToSet(w.client[c].executing) \cup (IF node.model = "INIT" THEN {} ELSE {task})
  BY Beginning
<1>2. /\ task.node = node /\ task.got = <<>> /\ task.younger = w.client[c].awaited /\ ~task.stale
      /\ task.blank = {}
      /\ \A k \in ToSet(node.components) :
           node.model = "FETCH" => k \in w.client[c].valued \cup task.early \cup task.younger
  BY DEF newTask
<1> HIDE DEF v, task, S
<1>3. v.posted = w.posted /\ v.query = w.query
  BY <1>1 DEF ClientBut, AllBut
<1>4. \A d, k, l : /\ posts(v, d, k, l) <=> posts(w, d, k, l)
                   /\ initFirst(v, d, k) <=> initFirst(w, d, k)
  BY <1>3 DEF posts, initFirst
<1>5. \A d \in Client : v.client[d].running = w.client[d].running
  BY <1>1 DEF ClientBut, ClientsBut
<1>6. \A d \in Client : \A k, l : /\ runs(v, d, k, l) <=> runs(w, d, k, l)
                                  /\ initComes(v, d, k) <=> initComes(w, d, k)
  BY <1>4, <1>5 DEF runs, initComes
<1>7. \A d \in Client : Machines(w, d) /\ Awaits(w, d, {})
  BY DEF Whole
<1>8. ASSUME NEW d \in Client, NEW t, WholeTask(w, d, t)
      PROVE  WholeTask(v, d, t)
  <2>1. w.client[d].sequences \subseteq v.client[d].sequences /\ v.client[d].valued = w.client[d].valued
    BY <1>1 DEF ClientBut, ClientsBut
  <2>2. Entries(v, d, t)
    BY <1>8, <2>1 DEF WholeTask, Entries
  <2> QED
    BY <1>4, <1>6, <1>8, <2>2, Zenon DEF WholeTask
<1>9. WholeTask(v, c, task)
  <2>1. IsInjective(task.got) /\ ToSet(task.got) = {}
    <3>1. DOMAIN <<>> = {}
      BY EmptySeq
    <3> QED
      BY <1>2, <3>1 DEF IsInjective, ToSet
  <2>2. \A k \in task.younger : initComes(v, c, k)
    BY <1>2, <1>6, <1>7 DEF Awaits
  <2>3. ASSUME NEW k \in task.younger, task.node.model = "FETCH" /\ k \in ToSet(task.node.components),
               ~runs(v, c, k, "INIT")
        PROVE  initFirst(v, c, k)
    <3>1. posts(w, c, k, "INIT")
      BY <1>6, <2>2, <2>3 DEF initComes, posts, runs
    <3>2. PICK l \in DOMAIN w.posted : w.posted[l] = start(c, k, "INIT")
      BY <3>1 DEF posts
    <3>3. ASSUME NEW i \in DOMAIN w.posted, w.posted[i] = start(c, k, "FETCH")
          PROVE  l < i
      <4>1. ~(i < l)
        BY <1>2, <2>3, <3>2, <3>3 DEF overtaken
      <4>2. start(c, k, "INIT") # start(c, k, "FETCH")
        BY StartsDiffer
      <4>3. i # l
        BY <3>2, <3>3, <4>2
      <4>4. i \in Nat /\ l \in Nat
        BY GoodParts, LenProperties
      <4> QED
        BY <4>1, <4>3, <4>4
    <3>4. initFirst(w, c, k)
      BY <3>2, <3>3 DEF initFirst
    <3> QED
      BY <1>4, <3>4
  <2>4. Entries(v, c, task)
    <3>1. v.client[c].valued = w.client[c].valued
      BY <1>1 DEF ClientBut, ClientsBut
    <3> QED
      BY <1>1, <1>2, <3>1 DEF Entries
  <2> QED
    BY <1>2, <2>1, <2>2, <2>3, <2>4 DEF WholeTask
<1>10. ASSUME NEW d \in Client PROVE Machines(v, d)
  <2>1. IsInjective(v.client[d].running)
    BY <1>5, <1>7 DEF Machines
  <2>2. \A k \in Component, l \in MeasureModel : ~(posts(v, d, k, l) /\ runs(v, d, k, l))
    BY <1>4, <1>6, <1>7 DEF Machines
  <2>3. ASSUME NEW t \in ToSet(v.client[d].executing) PROVE WholeTask(v, d, t)
    <3>1. CASE t \in ToSet(w.client[d].executing)
      BY <1>7, <1>8, <3>1 DEF Machines
    <3>2. CASE t \notin ToSet(w.client[d].executing)
      <4>1. d = c
        BY <1>1, <3>2 DEF ClientBut, ClientsBut
      <4>2. t = task
        BY <1>1, <3>2, <4>1
      <4> QED
        BY <1>9, <4>1, <4>2
    <3> QED
      BY <3>1, <3>2
  <2> QED
    BY <2>1, <2>2, <2>3 DEF Machines
<1>11. ASSUME NEW d \in Client PROVE Awaits(v, d, IF d = c THEN S ELSE {})
  <2>1. CASE d = c
    BY <1>1, <1>6, <1>7, <2>1 DEF Awaits
  <2>2. CASE d # c
    <3>1. v.client[d].awaited = w.client[d].awaited
      BY <1>1, <2>2 DEF ClientBut, ClientsBut
    <3> QED
      BY <1>6, <1>7, <2>2, <3>1 DEF Awaits
  <2> QED
    BY <2>1, <2>2
<1>12. WholeFates(v) /\ PostedOnce(v)
  BY <1>3 DEF Whole, WholeFates, PostedOnce
<1>13. WholeBut(v, c, S)
  BY <1>10, <1>11, <1>12 DEF WholeBut
<1> QED
  BY <1>13 DEF v, S

\* No machine is started whose value a task has got, or nothing is promised.
LEMMA WholeMeasuring ==
  ASSUME NEW w \in WholeWorlds, NEW c \in Client, NEW node \in Node, NEW id, Given(w, id)
  PROVE  executeMeasure(w, c, node, id) \in WholeWorlds
<1>0. w \in Good
  BY DEF WholeWorlds
<1>1. CASE w \in CarelessWorlds
  <2>1. executeMeasure(w, c, node, id) \in CarelessWorlds
    BY <1>1, CarelessUnmeasured, Measuring
  <2>2. executeMeasure(w, c, node, id) \in Good
    BY <2>1, CarelessUnmeasured
  <2> QED
    BY <2>1, <2>2, CarelessParts
<1>2. CASE Whole(w)
  <2> DEFINE s == node.components
             n == Len(s)
             b == begun(w, c, node, id)
             x == meetIf(b, restarted(w, c, node), "overlap")
             u == meetIf(x, overtaken(w, c, node), "overtaken")
             m == node.model
             rest(k) == {s[j] : j \in (k + 1)..n}
             V == [k \in 0..n |->
                     {v \in Good : /\ AllBut(u, v, {"posted"})
                                   /\ u \notin CarelessWorlds =>
                                        WholeBut(v, c, IF m = "INIT" THEN rest(k) ELSE {})}]
  <2>1. executeMeasure(w, c, node, id) = allStarted(u, c, s, m)
    BY Zenon DEF executeMeasure, allStarted, begun, restarted, overtaken
  <2>2. /\ b \in Good /\ ClientBut(w, b, c, {"awaited", "executing", "sequences"})
        /\ ToSet(b.client[c].executing) \subseteq
             ToSet(w.client[c].executing) \cup {newTask(w.client[c], node, id)}
    BY <1>0, Beginning
  <2> HIDE DEF b
  <2>3. /\ x \in Good /\ AllBut(b, x, {"met"})
        /\ restarted(w, c, node) => "overlap" \in x.met
    BY <2>2, Meeting DEF Circumstance
  <2> HIDE DEF x
  <2>4. /\ u \in Good /\ AllBut(x, u, {"met"}) /\ x.met \subseteq u.met
        /\ overtaken(w, c, node) => "overtaken" \in u.met
    BY <2>3, Meeting DEF Circumstance
  <2> HIDE DEF u
  <2>5. AllBut(b, u, {"met"})
    BY <2>3, <2>4 DEF AllBut
  <2>6. ASSUME u \notin CarelessWorlds
        PROVE  ~restarted(w, c, node) /\ ~overtaken(w, c, node)
    <3>1. u.met \cap Careless = {}
      BY <2>4, <2>6 DEF CarelessWorlds
    <3> QED
      BY <2>3, <2>4, <3>1 DEF Careless
  <2>7. /\ s \in Seq(Component) /\ n \in Nat /\ DOMAIN s = 1..n /\ m \in MeasureModel
        /\ \A k \in 1..n : s[k] \in Component
        /\ ToSet(s) = {s[k] : k \in 1..n}
    BY Nodes, LenProperties, ElementOfSeq DEF ToSet
  <2>8. ASSUME u \notin CarelessWorlds
        PROVE  WholeBut(u, c, IF m = "INIT" THEN ToSet(s) ELSE {})
    <3>1. WholeBut(b, c, IF m = "INIT" THEN ToSet(s) ELSE {})
      BY <1>0, <1>2, <2>6, <2>8, BegunWell DEF b
    <3>2. u.client = b.client /\ u.posted = b.posted /\ u.query = b.query
      BY <2>5 DEF AllBut
    <3>3. SameMeasuring(b, u, Client) /\ SameStarts(b, u, Client)
      BY <2>2, <2>4, <3>2, StartsStay DEF SameMeasuring
    <3>4. WholeFates(u) /\ PostedOnce(u)
      BY <3>1, <3>2, <3>3 DEF WholeBut, WholeFates, SameStarts
    <3> HIDE DEF s, m
    <3>5. \A d \in Client : Machines(u, d) /\ Awaits(u, d, IF d = c THEN (IF m = "INIT" THEN ToSet(s) ELSE {}) ELSE {})
      BY <3>1, <3>3, MachinesStay DEF WholeBut
    <3> QED
      BY <3>4, <3>5 DEF WholeBut
  <2>9. ASSUME u \notin CarelessWorlds, NEW t \in ToSet(u.client[c].executing), t.node.model = m
        PROVE  ToSet(t.got) \cap ToSet(s) = {}
    <3>1. t \in ToSet(b.client[c].executing)
      BY <2>5, <2>9 DEF AllBut
    <3>2. CASE t \in ToSet(w.client[c].executing)
      BY <2>6, <2>9, <3>2 DEF restarted
    <3>3. CASE t = newTask(w.client[c], node, id)
      <4>1. t.got = <<>>
        BY <3>3 DEF newTask
      <4>2. ToSet(t.got) = {}
        BY <4>1, EmptySeq DEF ToSet
      <4> QED
        BY <4>2
    <3> QED
      BY <2>2, <3>1, <3>2, <3>3
  <2>10. \A v \in Good : \A comp \in ToSet(s) : startSequence(v, c, comp, m) \in Good
    <3> SUFFICES ASSUME NEW v \in Good, NEW comp \in ToSet(s)
                 PROVE  startSequence(v, c, comp, m) \in Good
      OBVIOUS
    <3>1. comp \in Component
      BY <2>7
    <3>2. /\ start(c, comp, m) \in Event
          /\ startSequence(v, c, comp, m) \in {v, post(v, start(c, comp, m))}
      BY <2>7, <3>1, Starting
    <3> QED
      BY <3>2, Posting
  <2>11. PICK g \in [Good \X (1..n) -> Good] :
           /\ \A v \in Good : \A k \in 1..n : g[<<v, k>>] = startSequence(v, c, s[k], m)
           /\ Folds(allStarted(u, c, s, m), n, Good, u, g)
    BY <2>4, <2>7, <2>10, StartFold
  <2> HIDE DEF n, s, m
  <2>12. u \in V[0]
    <3>1. rest(0) = ToSet(s)
      BY <2>7
    <3>2. AllBut(u, u, {"posted"})
      BY DEF AllBut
    <3>3. 0 \in 0..n
      BY <2>7
    <3> HIDE DEF rest
    <3> QED
      BY <2>4, <2>8, <3>1, <3>2, <3>3
  <2>13. ASSUME NEW k \in 1..n, NEW v \in V[k - 1] PROVE g[<<v, k>>] \in V[k]
    <3> DEFINE y == startSequence(v, c, s[k], m)
               S == IF m = "INIT" THEN rest(k - 1) ELSE {}
    <3>1. k - 1 \in 0..n /\ k \in 0..n
      BY <2>7
    <3>2. v \in Good /\ AllBut(u, v, {"posted"}) /\ (u \notin CarelessWorlds => WholeBut(v, c, S))
      BY <2>13, <3>1
    <3>3. y \in Good /\ g[<<v, k>>] = y /\ s[k] \in Component /\ s[k] \in ToSet(s)
      BY <2>7, <2>10, <2>11, <3>2
    <3>4. rest(k) = rest(k - 1) \ {s[k]}
      <4>1. IsInjective(s) /\ DOMAIN s = 1..n
        BY <2>7, Nodes DEF s
      <4>2. \A j \in (k + 1)..n : s[j] # s[k]
        BY <2>7, <4>1 DEF IsInjective
      <4>3. \A j \in (k - 1 + 1)..n : j = k \/ j \in (k + 1)..n
        BY <2>7
      <4>4. \A j \in (k + 1)..n : j \in (k - 1 + 1)..n
        BY <2>7
      <4> QED
        BY <4>2, <4>3, <4>4
    <3>5. startSequence(v, c, s[k], m) \in {v, post(v, start(c, s[k], m))}
      BY <2>7, <3>2, <3>3, Starting
    <3>6. AllBut(v, y, {"posted"})
      <4>1. AllBut(v, v, {"posted"})
        BY DEF AllBut
      <4>2. AllBut(v, post(v, start(c, s[k], m)), {"posted"})
        BY <2>7, <3>2, <3>3, Starting, Posting
      <4> QED
        BY <3>5, <4>1, <4>2
    <3>7. AllBut(u, y, {"posted"})
      BY <3>2, <3>6 DEF AllBut
    <3> HIDE DEF rest
    <3>8. ASSUME u \notin CarelessWorlds
          PROVE  WholeBut(y, c, IF m = "INIT" THEN rest(k) ELSE {})
      <4>1. WholeBut(v, c, S)
        BY <3>2, <3>8
      <4>2. v.client = u.client
        BY <3>2 DEF AllBut
      <4>3. \A t \in ToSet(v.client[c].executing) : t.node.model = m => s[k] \notin ToSet(t.got)
        BY <2>9, <3>3, <3>8, <4>2
      <4> HIDE DEF S
      <4>4. WholeBut(y, c, S) /\ (m = "INIT" => WholeBut(y, c, S \ {s[k]}))
        BY <2>7, <3>2, <3>3, <4>1, <4>3, StartOne
      <4>5. CASE m = "INIT"
        BY <3>4, <4>4, <4>5 DEF S
      <4>6. CASE m # "INIT"
        BY <4>4, <4>6 DEF S
      <4> QED
        BY <4>5, <4>6
    <3> HIDE DEF y
    <3> QED
      BY <3>1, <3>3, <3>7, <3>8
  <2>14. V \in [0..n -> SUBSET Good]
    <3> HIDE DEF rest
    <3> QED
      OBVIOUS
  <2> HIDE DEF V
  <2>15. allStarted(u, c, s, m) \in V[n]
    BY <2>4, <2>7, <2>11, <2>12, <2>13, <2>14, FoldReaches
  <2> DEFINE v == allStarted(u, c, s, m)
  <2> HIDE DEF v
  <2>16. v \in Good /\ AllBut(u, v, {"posted"}) /\ (u \notin CarelessWorlds => Whole(v))
    <3>1. rest(n) = {}
      <4>1. (n + 1)..n = {}
        BY <2>7
      <4> QED
        BY <4>1
    <3>2. n \in 0..n
      BY <2>7
    <3> HIDE DEF rest
    <3>3. /\ v \in Good /\ AllBut(u, v, {"posted"})
          /\ u \notin CarelessWorlds => WholeBut(v, c, IF m = "INIT" THEN rest(n) ELSE {})
      BY <2>15, <3>2 DEF V, v
    <3>4. (IF m = "INIT" THEN rest(n) ELSE {}) = {}
      BY <3>1
    <3> QED
      BY <3>3, <3>4, WholeButNone
  <2>17. v \in WholeWorlds
    <3>1. u.met \subseteq v.met
      BY <2>16 DEF AllBut
    <3> QED
      BY <2>16, <3>1, CarelessParts
  <2> QED
    BY <2>1, <2>17 DEF v
<1> QED
  BY <1>0, <1>1, <1>2, CarelessParts

-----------------------------------------------------------------------------
(* A machine that is done tells the tasks that wait for its value *)

\* Those of the model m have not got it yet, it is not older than INIT for any of them, and it
\* is there unless it is for FETCH.
Freed(w, c, comp, m) ==
  /\ ~posts(w, c, comp, m) /\ ~runs(w, c, comp, m)
  /\ \A t \in ToSet(w.client[c].executing) :
       t.node.model = m =>
         /\ comp \notin ToSet(t.got)
         /\ comp \in ToSet(t.node.components) =>
              comp \notin t.younger /\ (m = "FETCH" \/ comp \in w.client[c].valued)

\* Counting such a value leaves a task whole.
LEMMA CountedWell ==
  ASSUME NEW w \in Good, NEW c \in Client, NEW comp \in Component, NEW m,
         Freed(w, c, comp, m), NEW t \in ToSet(w.client[c].executing), WholeTask(w, c, t)
  PROVE  WholeTask(w, c, countedTask(w, c, comp, m, t))
<1> DEFINE u == countedTask(w, c, comp, m, t)
<1>0. t \in Task /\ t.got \in Seq(Component)
  <2>1. w.client[c].executing \in Seq(Task)
    BY GoodParts DEF ClientState
  <2>2. t \in Task
    BY <2>1, LenProperties, ElementOfSeq DEF ToSet
  <2> QED
    BY <2>2 DEF Task
<1>1. CASE ~concerns(t, comp, m)
  <2>1. u = t
    BY <1>1 DEF countedTask
  <2> QED
    BY <2>1
<1>2. CASE concerns(t, comp, m)
  <2>1. /\ u.node = t.node /\ u.younger = t.younger /\ u.got = Append(t.got, comp)
        /\ u.early = t.early /\ u.blank = t.blank \cup ({comp} \ w.client[c].valued)
        /\ (u.stale <=> t.stale \/ comp \in t.younger)
    <3>1. u.node = t.node /\ u.younger = t.younger /\ u.early = t.early
      BY <1>0, <1>2 DEF countedTask, Task
    <3>2. u.got = Append(t.got, comp)
      BY <1>0, <1>2 DEF countedTask, Task
    <3>3. u.blank = t.blank \cup ({comp} \ w.client[c].valued)
      BY <1>0, <1>2 DEF countedTask, Task
    <3>4. u.stale <=> t.stale \/ comp \in t.younger
      BY <1>0, <1>2 DEF countedTask, Task
    <3> QED
      BY <3>1, <3>2, <3>3, <3>4, Zenon
  <2> HIDE DEF u
  <2>2. t.node.model = m /\ comp \in ToSet(t.node.components)
    BY <1>2 DEF concerns
  <2>3. /\ comp \notin ToSet(t.got) /\ comp \notin t.younger
        /\ m = "FETCH" \/ comp \in w.client[c].valued
    BY <2>2 DEF Freed
  <2>4. /\ IsInjective(t.got) /\ ToSet(t.got) \subseteq ToSet(t.node.components) /\ ~t.stale
        /\ \A k \in ToSet(t.got) : ~runs(w, c, k, m) /\ ~posts(w, c, k, m)
    BY <2>2 DEF WholeTask
  <2>5. /\ Len(t.got) \in Nat /\ DOMAIN t.got = 1..Len(t.got)
        /\ DOMAIN u.got = 1..(Len(t.got) + 1)
        /\ \A i \in 1..Len(t.got) : u.got[i] = t.got[i] /\ t.got[i] \in ToSet(t.got)
        /\ u.got[Len(t.got) + 1] = comp
        /\ ToSet(u.got) = ToSet(t.got) \cup {comp}
    BY <1>0, <2>1, Appended, LenProperties DEF ToSet
  <2>6. IsInjective(u.got)
    <3> DEFINE n == Len(t.got)
    <3> HIDE DEF n
    <3>1. \A i \in DOMAIN u.got : i \in 1..n \/ i = n + 1
      BY <2>5 DEF n
    <3> SUFFICES ASSUME NEW i \in DOMAIN u.got, NEW j \in DOMAIN u.got, u.got[i] = u.got[j]
                 PROVE  i = j
      BY DEF IsInjective
    <3>2. CASE i \in 1..n /\ j \in 1..n
      BY <2>4, <2>5, <3>2 DEF IsInjective, n
    <3>3. CASE i = n + 1 /\ j = n + 1
      BY <3>3
    <3>4. CASE (i \in 1..n /\ j = n + 1) \/ (i = n + 1 /\ j \in 1..n)
      BY <2>3, <2>5, <3>4 DEF n
    <3> QED
      BY <3>1, <3>2, <3>3, <3>4
  <2>7. \A k \in ToSet(u.got) : ~runs(w, c, k, u.node.model) /\ ~posts(w, c, k, u.node.model)
    BY <2>1, <2>2, <2>4, <2>5 DEF Freed
  <2>8. ToSet(u.got) \subseteq ToSet(u.node.components) /\ ~u.stale
    BY <2>1, <2>2, <2>3, <2>4, <2>5
  <2>9. \A k \in u.younger :
          /\ initComes(w, c, k)
          /\ u.node.model = "FETCH" /\ k \in ToSet(u.node.components) =>
               runs(w, c, k, "INIT") \/ initFirst(w, c, k)
    BY <2>1 DEF WholeTask
  <2>10. Entries(w, c, u)
    <3>1. Entries(w, c, t)
      BY DEF WholeTask
    <3>2. comp \in w.client[c].valued \cup t.early
      BY <2>2, <2>3, <3>1 DEF Entries
    <3> QED
      BY <2>1, <3>1, <3>2 DEF Entries
  <2>11. WholeTask(w, c, u)
    BY <2>6, <2>7, <2>8, <2>9, <2>10 DEF WholeTask
  <2> QED
    BY <2>11 DEF u
<1> QED
  BY <1>1, <1>2

\* What onSingleScpiQueryDone keeps then: answers are whole, and nothing else is changed.
LEMMA DoneOne ==
  ASSUME NEW w \in Good, NEW c \in Client, NEW comp \in Component, NEW m,
         Whole(w), Freed(w, c, comp, m)
  PROVE  LET v == onSingleScpiQueryDone(w, c, comp, m)
         IN  /\ v \in WholeWorlds
             /\ \A l : l # m /\ Freed(w, c, comp, l) => Freed(v, c, comp, l)
<1> DEFINE counted == countedTasks(w, c, comp, m)
           ended == Only(counted, completeTasks(w, c, comp, m))
           rest == Only(counted, ToSet(counted) \ completeTasks(w, c, comp, m))
           gone == goneOn(w, c, comp, m)
           v == onSingleScpiQueryDone(w, c, comp, m)
           old == w.client[c].executing
<1>1. /\ counted \in Seq(Task) /\ DOMAIN counted = DOMAIN old
      /\ ended \in Seq(Task) /\ ToSet(ended) = completeTasks(w, c, comp, m)
      /\ rest \in Seq(Task) /\ ToSet(rest) = ToSet(counted) \ completeTasks(w, c, comp, m)
      /\ \A t \in ToSet(rest) : Given(w, t.id)
      /\ v = allFinished(gone, c, ended)
  <2>1. /\ counted \in Seq(Task) /\ DOMAIN counted = DOMAIN old
        /\ ended \in Seq(Task) /\ ToSet(ended) = completeTasks(w, c, comp, m)
        /\ rest \in Seq(Task) /\ ToSet(rest) = ToSet(counted) \ completeTasks(w, c, comp, m)
    BY Counting, ZenonT(30)
  <2>2. \A t \in ToSet(rest) : Given(w, t.id)
    BY Counting
  <2>3. v = allFinished(gone, c, ended)
    BY Counting, ZenonT(30)
  <2> QED
    BY <2>1, <2>2, <2>3
<1>2. gone = [w EXCEPT !.client[c].executing = rest]
  BY DEF goneOn
<1>3. ASSUME NEW u \in ToSet(counted)
      PROVE  \E t \in ToSet(old) : /\ t \in Task /\ u = countedTask(w, c, comp, m, t)
                                   /\ u \in Task /\ WholeTask(w, c, u)
  <2>1. PICK i \in DOMAIN counted : u = counted[i]
    BY DEF ToSet
  <2>2. i \in DOMAIN old /\ u = countedTask(w, c, comp, m, old[i])
    BY <1>1, <2>1 DEF countedTasks
  <2>3. old[i] \in ToSet(old) /\ old[i] \in Task /\ u \in Task
    <3>1. old \in Seq(Task)
      BY GoodParts DEF ClientState
    <3> HIDE DEF old, counted
    <3> QED
      BY <1>1, <2>1, <2>2, <3>1, LenProperties, ElementOfSeq DEF ToSet
  <2>4. WholeTask(w, c, old[i])
    BY <2>3 DEF Whole, Machines
  <2>5. WholeTask(w, c, u)
    BY <2>2, <2>3, <2>4, CountedWell
  <2> QED
    BY <2>2, <2>3, <2>5
<1>4. completeTasks(w, c, comp, m) = {t \in ToSet(counted) : Len(t.got) = Len(t.node.components)}
  BY DEF completeTasks
<1>5. \A t \in ToSet(ended) : contents(t) \in {"answered", "partly"}
  <2> SUFFICES ASSUME NEW t \in ToSet(ended) PROVE contents(t) \in {"answered", "partly"}
    OBVIOUS
  <2>1. t \in ToSet(counted) /\ Len(t.got) = Len(t.node.components)
    BY <1>1, <1>4
  <2>2. t \in Task /\ WholeTask(w, c, t)
    BY <1>3, <2>1
  <2>3. ToSet(t.got) = ToSet(t.node.components)
    BY <2>1, <2>2, GotAll DEF WholeTask
  <2> QED
    BY <2>2, <2>3 DEF contents, WholeTask, Entries
<1> HIDE DEF counted, ended, rest, gone, v
<1>6. gone \in Good /\ ClientBut(w, gone, c, {"executing"}) /\ gone.client[c].executing = rest
  BY <1>1, <1>2, PutPart, SMTT(30)
<1>7. gone.posted = w.posted /\ gone.query = w.query /\ gone.met = w.met
  BY <1>6 DEF ClientBut, AllBut
<1>8. /\ \A d \in Client : /\ gone.client[d].running = w.client[d].running
                           /\ gone.client[d].awaited = w.client[d].awaited
                           /\ gone.client[d].sequences = w.client[d].sequences
                           /\ gone.client[d].valued = w.client[d].valued
      /\ \A d \in Client \ {c} : gone.client[d].executing = w.client[d].executing
  BY <1>6 DEF ClientBut, ClientsBut
<1>9. \A d \in Client : \A k, l : /\ posts(gone, d, k, l) <=> posts(w, d, k, l)
                                  /\ runs(gone, d, k, l) <=> runs(w, d, k, l)
                                  /\ initComes(gone, d, k) <=> initComes(w, d, k)
                                  /\ initFirst(gone, d, k) <=> initFirst(w, d, k)
  BY <1>7, <1>8 DEF posts, runs, initComes, initFirst
<1>10. \A d \in Client : \A t : WholeTask(w, d, t) => WholeTask(gone, d, t)
  <2>1. \A d \in Client : \A t : Entries(w, d, t) => Entries(gone, d, t)
    BY <1>8 DEF Entries
  <2> QED
    BY <1>9, <2>1, Zenon DEF WholeTask
<1>11. Whole(gone)
  <2>1. ASSUME NEW d \in Client, NEW t \in ToSet(gone.client[d].executing) PROVE WholeTask(gone, d, t)
    <3>1. CASE d = c
      BY <1>1, <1>3, <1>6, <1>10, <3>1
    <3>2. CASE d # c
      BY <1>8, <1>10, <3>2 DEF Whole, Machines
    <3> QED
      BY <3>1, <3>2
  <2>2. ASSUME NEW d \in Client PROVE Machines(gone, d) /\ Awaits(gone, d, {})
    <3>1. Machines(w, d) /\ Awaits(w, d, {})
      BY DEF Whole
    <3>2. IsInjective(gone.client[d].running)
      BY <1>8, <3>1 DEF Machines
    <3>3. \A k \in Component, l \in MeasureModel : ~(posts(gone, d, k, l) /\ runs(gone, d, k, l))
      BY <1>9, <3>1 DEF Machines
    <3>4. Awaits(gone, d, {})
      BY <1>8, <1>9, <3>1 DEF Awaits
    <3> QED
      BY <2>1, <3>2, <3>3, <3>4 DEF Machines
  <2>3. WholeFates(gone) /\ PostedOnce(gone)
    BY <1>7 DEF Whole, WholeFates, PostedOnce
  <2> QED
    BY <2>2, <2>3 DEF Whole
<1> DEFINE W == {u \in WholeWorlds : u.client = gone.client /\ u.posted = gone.posted}
<1>12. gone \in W
  BY <1>6, <1>11, CarelessParts
<1>13. \A u \in W : \A t \in ToSet(ended) : handleCmdFinish(u, c, t.id, contents(t)) \in W
  <2> SUFFICES ASSUME NEW u \in W, NEW t \in ToSet(ended)
               PROVE  handleCmdFinish(u, c, t.id, contents(t)) \in W
    OBVIOUS
  <2> DEFINE answer == contents(t)
             y == handleCmdFinish(u, c, t.id, answer)
  <2>0. answer \in {"answered", "partly", "failed"}
    BY <1>5
  <2> HIDE DEF answer
  <2>1. y \in WholeWorlds
    BY <2>0, WholeAnswers
  <2>2. Finished(u, y, {answer})
    <3>1. u \in Good /\ answer \in Fate \ {"open"}
      BY <2>0 DEF WholeWorlds, Fate
    <3> QED
      BY <3>1, Finishing
  <2> HIDE DEF y
  <2>3. y.client = u.client /\ y.posted = u.posted
    BY <2>2 DEF Finished, AllBut
  <2>4. y \in W
    BY <2>1, <2>3
  <2> QED
    BY <2>4 DEF answer, y
<1> HIDE DEF W
<1>14. \E g : Folds(allFinished(gone, c, ended), Len(ended), W, gone, g)
  BY <1>1, <1>12, <1>13, FinishFold
<1>15. Len(ended) \in Nat
  BY <1>1, LenProperties
<1>16. v \in W
  BY <1>1, <1>14, <1>15, FoldStays
<1>17. ASSUME NEW l, l # m, Freed(w, c, comp, l)
       PROVE  Freed(v, c, comp, l)
  <2>1. v.client = gone.client /\ v.posted = gone.posted
    BY <1>16 DEF W
  <2>2. ~posts(v, c, comp, l) /\ ~runs(v, c, comp, l)
    BY <1>9, <1>17, <2>1 DEF Freed, posts, runs
  <2>3. ASSUME NEW u \in ToSet(rest), u.node.model = l
        PROVE  /\ comp \notin ToSet(u.got)
               /\ comp \in ToSet(u.node.components) =>
                    comp \notin u.younger /\ (l = "FETCH" \/ comp \in w.client[c].valued)
    <3>1. PICK t \in ToSet(old) : t \in Task /\ u = countedTask(w, c, comp, m, t)
      BY <1>1, <1>3
    <3>2. u.node = t.node
      BY <3>1 DEF countedTask, Task
    <3>3. ~concerns(t, comp, m)
      BY <1>17, <2>3, <3>2 DEF concerns
    <3>4. u = t
      BY <3>1, <3>3 DEF countedTask
    <3> QED
      BY <1>17, <2>3, <3>4 DEF Freed
  <2>4. ToSet(v.client[c].executing) = ToSet(rest) /\ v.client[c].valued = w.client[c].valued
    BY <1>6, <1>8, <2>1
  <2> QED
    BY <2>2, <2>3, <2>4 DEF Freed
<1> QED
  BY <1>16, <1>17 DEF W, v

-----------------------------------------------------------------------------
(* A machine starts: it waits for a value or is done at once *)

\* What starts was to start once; FETCH that comes first is not behind INIT.
LEMMA TakenStart ==
  ASSUME NEW w \in Good, w.posted # <<>>, NEW c, NEW comp, NEW m,
         Head(w.posted) = start(c, comp, m), PostedOnce(w)
  PROVE  LET v == taken(w)
         IN  /\ \A d, k, l : posts(v, d, k, l) <=> posts(w, d, k, l) /\ ~(d = c /\ k = comp /\ l = m)
             /\ PostedOnce(v)
             /\ \A d, k : initFirst(w, d, k) /\ ~(d = c /\ k = comp /\ m = "INIT") => initFirst(v, d, k)
             /\ m = "FETCH" => ~initFirst(w, c, comp)
             /\ posts(w, c, comp, m)
<1> DEFINE v == taken(w)
           n == Len(w.posted)
<1>0. w.posted \in Seq(Event)
  BY GoodParts
<1>1. /\ n \in Nat \ {0} /\ DOMAIN w.posted = 1..n /\ DOMAIN v.posted = 1..(n - 1)
      /\ w.posted[1] = start(c, comp, m)
      /\ \A i \in 1..(n - 1) : v.posted[i] = w.posted[i + 1]
  <2>1. v.posted = Tail(w.posted)
    BY Taking
  <2> QED
    BY <1>0, <2>1, HeadAndTail, LenProperties
<1> HIDE DEF v, n
<1>2. \A i \in DOMAIN v.posted : i + 1 \in DOMAIN w.posted /\ v.posted[i] = w.posted[i + 1] /\ i + 1 > 1
  BY <1>1
<1>3. \A i \in DOMAIN w.posted : i # 1 => i - 1 \in DOMAIN v.posted /\ v.posted[i - 1] = w.posted[i]
  BY <1>1
<1>4. 1 \in DOMAIN w.posted /\ \A i \in DOMAIN w.posted : i \in Nat /\ i >= 1
  BY <1>1
<1>5. \A i \in DOMAIN w.posted : w.posted[i] = start(c, comp, m) => i = 1
  <2>1. w.posted[1].call = "start"
    BY <1>1, StartsDiffer
  <2> QED
    BY <1>1, <1>4, <2>1 DEF PostedOnce
<1>6. ASSUME NEW d, NEW k, NEW l
      PROVE  posts(v, d, k, l) <=> posts(w, d, k, l) /\ ~(d = c /\ k = comp /\ l = m)
  <2>1. ASSUME posts(v, d, k, l)
        PROVE  posts(w, d, k, l) /\ ~(d = c /\ k = comp /\ l = m)
    <3>1. PICK i \in DOMAIN v.posted : v.posted[i] = start(d, k, l)
      BY <2>1 DEF posts
    <3> DEFINE j == i + 1
    <3>2. j \in DOMAIN w.posted /\ w.posted[j] = start(d, k, l) /\ j # 1
      BY <1>2, <3>1
    <3> HIDE DEF j
    <3>3. w.posted[j] # start(c, comp, m)
      BY <1>5, <3>2
    <3> QED
      BY <3>2, <3>3 DEF posts
  <2>2. ASSUME posts(w, d, k, l), ~(d = c /\ k = comp /\ l = m)
        PROVE  posts(v, d, k, l)
    <3>1. PICK i \in DOMAIN w.posted : w.posted[i] = start(d, k, l)
      BY <2>2 DEF posts
    <3>2. i # 1
      BY <1>1, <2>2, <3>1, StartsDiffer
    <3> QED
      BY <1>3, <3>1, <3>2 DEF posts
  <2> QED
    BY <2>1, <2>2
<1>7. PostedOnce(v)
  <2> SUFFICES ASSUME NEW i \in DOMAIN v.posted, NEW j \in DOMAIN v.posted,
                      v.posted[i].call = "start", v.posted[j] = v.posted[i]
               PROVE  i = j
    BY DEF PostedOnce
  <2> DEFINE a == i + 1
             b == j + 1
  <2>1. /\ a \in DOMAIN w.posted /\ b \in DOMAIN w.posted
        /\ v.posted[i] = w.posted[a] /\ v.posted[j] = w.posted[b]
    BY <1>2
  <2> HIDE DEF a, b
  <2>2. a = b
    BY <2>1 DEF PostedOnce
  <2> QED
    BY <1>1, <2>2 DEF a, b
<1>8. ASSUME NEW d, NEW k, initFirst(w, d, k), ~(d = c /\ k = comp /\ m = "INIT"),
             NEW i \in DOMAIN v.posted, v.posted[i] = start(d, k, "FETCH")
      PROVE  \E l \in DOMAIN v.posted : l < i /\ v.posted[l] = start(d, k, "INIT")
  <2> DEFINE a == i + 1
  <2>1. a \in DOMAIN w.posted /\ w.posted[a] = start(d, k, "FETCH")
    BY <1>2, <1>8
  <2> HIDE DEF a
  <2>2. PICK l \in DOMAIN w.posted : l < a /\ w.posted[l] = start(d, k, "INIT")
    BY <1>8, <2>1 DEF initFirst
  <2>3. l # 1
    BY <1>1, <1>8, <2>2, StartsDiffer
  <2>4. l - 1 \in DOMAIN v.posted /\ v.posted[l - 1] = start(d, k, "INIT")
    BY <1>3, <2>2, <2>3
  <2>5. l - 1 < i
    BY <1>1, <1>4, <2>2 DEF a
  <2> QED
    BY <2>4, <2>5
<1>9. ASSUME m = "FETCH", initFirst(w, c, comp)
      PROVE  FALSE
  <2>1. \E l \in DOMAIN w.posted : l < 1
    BY <1>1, <1>4, <1>9 DEF initFirst
  <2> QED
    BY <1>4, <2>1
<1>10. posts(w, c, comp, m)
  BY <1>1, <1>4 DEF posts
<1>11. \A d, k : initFirst(w, d, k) /\ ~(d = c /\ k = comp /\ m = "INIT") => initFirst(v, d, k)
  BY <1>8 DEF initFirst
<1> QED
  BY <1>6, <1>7, <1>9, <1>10, <1>11 DEF v

\* What was to start runs.
LEMMA WholeWaiting ==
  ASSUME NEW w \in Good, Whole(w), w.posted # <<>>,
         NEW c \in Client, NEW comp \in Component, NEW m \in MeasureModel,
         Head(w.posted) = start(c, comp, m)
  PROVE  LET u == taken(w)
         IN  Whole([u EXCEPT !.client[c].running = Append(u.client[c].running, <<comp, m>>)])
<1> DEFINE u == taken(w)
           r == u.client[c].running
           n == Len(r)
           e == <<comp, m>>
           x == Append(r, e)
           v == [u EXCEPT !.client[c].running = x]
<1>1. u \in Good /\ AllBut(w, u, {"posted"})
  BY Taking
<1>2. /\ \A d, k, l : posts(u, d, k, l) <=> posts(w, d, k, l) /\ ~(d = c /\ k = comp /\ l = m)
      /\ PostedOnce(u)
      /\ \A d, k : initFirst(w, d, k) /\ ~(d = c /\ k = comp /\ m = "INIT") => initFirst(u, d, k)
      /\ posts(w, c, comp, m)
  BY TakenStart DEF Whole
<1> HIDE DEF u
<1>3. u.client = w.client /\ u.query = w.query
  BY <1>1 DEF AllBut
<1>4. r \in Seq(Component \X MeasureModel) /\ e \in Component \X MeasureModel
  BY <1>1, GoodParts DEF ClientState
<1> HIDE DEF r, e
<1>5. /\ x \in Seq(Component \X MeasureModel) /\ n \in Nat /\ DOMAIN r = 1..n
      /\ DOMAIN x = 1..(n + 1) /\ ToSet(x) = ToSet(r) \cup {e}
      /\ x[n + 1] = e /\ \A i \in 1..n : x[i] = r[i] /\ r[i] \in ToSet(r)
  <2>1. n \in Nat /\ DOMAIN r = 1..n
    BY <1>4, LenProperties
  <2>2. /\ x \in Seq(Component \X MeasureModel) /\ DOMAIN x = 1..(n + 1)
        /\ ToSet(x) = ToSet(r) \cup {e}
        /\ x[n + 1] = e /\ \A i \in 1..n : x[i] = r[i]
    BY <1>4, Appended
  <2> QED
    BY <2>1, <2>2 DEF ToSet
<1> HIDE DEF x
<1>6. v \in Good /\ ClientBut(u, v, c, {"running"}) /\ v.client[c].running = x
  <2>1. u \in Good /\ x \in Seq(Component \X MeasureModel)
    BY <1>1, <1>5
  <2> QED
    BY <2>1, PutPart
<1> HIDE DEF v
<1>7. v.posted = u.posted /\ v.query = w.query
  BY <1>3, <1>6 DEF ClientBut, AllBut
<1>8. \A d \in Client : /\ d # c => v.client[d].running = w.client[d].running
                        /\ v.client[d].executing = w.client[d].executing
                        /\ v.client[d].awaited = w.client[d].awaited
                        /\ v.client[d].sequences = w.client[d].sequences
                        /\ v.client[d].valued = w.client[d].valued
  BY <1>3, <1>6 DEF ClientBut, ClientsBut
<1>9. \A d, k, l : posts(v, d, k, l) <=> posts(w, d, k, l) /\ ~(d = c /\ k = comp /\ l = m)
  BY <1>2, <1>7 DEF posts
<1>10. \A d \in Client : \A k, l : runs(v, d, k, l) <=> runs(w, d, k, l) \/ (d = c /\ k = comp /\ l = m)
  <2> SUFFICES ASSUME NEW d \in Client, NEW k, NEW l
               PROVE  runs(v, d, k, l) <=> runs(w, d, k, l) \/ (d = c /\ k = comp /\ l = m)
    OBVIOUS
  <2>1. CASE d = c
    BY <1>3, <1>5, <1>6, <2>1 DEF runs, r, e
  <2>2. CASE d # c
    BY <1>8, <2>2 DEF runs
  <2> QED
    BY <2>1, <2>2
<1>11. \A d \in Client : \A k : initComes(v, d, k) <=> initComes(w, d, k)
  BY <1>2, <1>9, <1>10 DEF initComes
<1>12. \A d \in Client : \A k : initFirst(w, d, k) => initFirst(v, d, k) \/ runs(v, d, k, "INIT")
  <2>1. \A d, k : initFirst(u, d, k) => initFirst(v, d, k)
    BY <1>7 DEF initFirst
  <2> QED
    BY <1>2, <1>10, <2>1
<1>13. ASSUME NEW d \in Client, NEW t, WholeTask(w, d, t)
       PROVE  WholeTask(v, d, t)
  <2>1. \A k \in ToSet(t.got) : ~runs(v, d, k, t.node.model) /\ ~posts(v, d, k, t.node.model)
    BY <1>2, <1>9, <1>10, <1>13 DEF WholeTask
  <2>2. \A k \in t.younger :
          /\ initComes(v, d, k)
          /\ t.node.model = "FETCH" /\ k \in ToSet(t.node.components) =>
               runs(v, d, k, "INIT") \/ initFirst(v, d, k)
    BY <1>10, <1>11, <1>12, <1>13 DEF WholeTask
  <2>3. Entries(v, d, t)
    BY <1>8, <1>13 DEF WholeTask, Entries
  <2> QED
    BY <1>13, <2>1, <2>2, <2>3, Zenon DEF WholeTask
<1>14. ASSUME NEW d \in Client PROVE Machines(v, d)
  <2>1. Machines(w, d)
    BY DEF Whole
  <2>2. IsInjective(v.client[d].running)
    <3>1. CASE d # c
      BY <1>8, <2>1, <3>1 DEF Machines
    <3>2. CASE d = c
      <4>1. e \notin ToSet(r)
        BY <1>2, <1>3, <2>1, <3>2 DEF Machines, runs, r, e
      <4>2. IsInjective(r)
        BY <1>3, <2>1, <3>2 DEF Machines, r
      <4> HIDE DEF n
      <4>3. \A i \in DOMAIN x : i \in 1..n \/ i = n + 1
        BY <1>5
      <4>4. IsInjective(x)
        <5> SUFFICES ASSUME NEW i \in DOMAIN x, NEW j \in DOMAIN x, x[i] = x[j]
                     PROVE  i = j
          BY DEF IsInjective
        <5>1. CASE i \in 1..n /\ j \in 1..n
          BY <1>5, <4>2, <5>1 DEF IsInjective
        <5>2. CASE (i \in 1..n /\ j = n + 1) \/ (i = n + 1 /\ j \in 1..n)
          BY <1>5, <4>1, <5>2
        <5> QED
          BY <4>3, <5>1, <5>2
      <4> QED
        BY <1>6, <3>2, <4>4
    <3> QED
      BY <3>1, <3>2
  <2>3. \A k \in Component, l \in MeasureModel : ~(posts(v, d, k, l) /\ runs(v, d, k, l))
    BY <1>9, <1>10, <2>1 DEF Machines
  <2>4. \A t \in ToSet(v.client[d].executing) : WholeTask(v, d, t)
    BY <1>8, <1>13, <2>1 DEF Machines
  <2> QED
    BY <2>2, <2>3, <2>4 DEF Machines
<1>15. \A d \in Client : Awaits(v, d, {})
  BY <1>8, <1>11 DEF Whole, Awaits
<1>16. WholeFates(v) /\ PostedOnce(v)
  BY <1>2, <1>7 DEF Whole, WholeFates, PostedOnce
<1>17. Whole(v)
  BY <1>14, <1>15, <1>16 DEF Whole
<1> QED
  BY <1>17 DEF v, x, r, e, u

\* FETCH that needs not wait is done, for tasks that have not got its value.
LEMMA WholeAtOnce ==
  ASSUME NEW w \in Good, Whole(w), w.posted # <<>>, NEW c \in Client, NEW comp \in Component,
         Head(w.posted) = start(c, comp, "FETCH"), ~runs(w, c, comp, "INIT")
  PROVE  Whole(taken(w)) /\ Freed(taken(w), c, comp, "FETCH")
<1> DEFINE v == taken(w)
<1>1. v \in Good /\ AllBut(w, v, {"posted"})
  BY Taking
<1>2. /\ \A d, k, l : posts(v, d, k, l) <=> posts(w, d, k, l) /\ ~(d = c /\ k = comp /\ l = "FETCH")
      /\ PostedOnce(v)
      /\ \A d, k : initFirst(w, d, k) => initFirst(v, d, k)
      /\ ~initFirst(w, c, comp)
      /\ posts(w, c, comp, "FETCH")
  BY TakenStart DEF Whole
<1> HIDE DEF v
<1>3. v.client = w.client /\ v.query = w.query
  BY <1>1 DEF AllBut
<1>4. \A d, k, l : runs(v, d, k, l) <=> runs(w, d, k, l)
  BY <1>3 DEF runs
<1>5. \A d, k : initComes(v, d, k) <=> initComes(w, d, k)
  BY <1>2, <1>4 DEF initComes
<1>6. \A d \in Client : Machines(w, d) /\ Awaits(w, d, {})
  BY DEF Whole
<1>7. ASSUME NEW d, NEW t, WholeTask(w, d, t)
      PROVE  WholeTask(v, d, t)
  <2>1. \A k \in ToSet(t.got) : ~runs(v, d, k, t.node.model) /\ ~posts(v, d, k, t.node.model)
    BY <1>2, <1>4, <1>7 DEF WholeTask
  <2>2. \A k \in t.younger :
          /\ initComes(v, d, k)
          /\ t.node.model = "FETCH" /\ k \in ToSet(t.node.components) =>
               runs(v, d, k, "INIT") \/ initFirst(v, d, k)
    BY <1>2, <1>4, <1>5, <1>7 DEF WholeTask
  <2>3. Entries(v, d, t)
    BY <1>3, <1>7 DEF WholeTask, Entries
  <2> QED
    BY <1>7, <2>1, <2>2, <2>3, Zenon DEF WholeTask
<1>8. ASSUME NEW d \in Client PROVE Machines(v, d) /\ Awaits(v, d, {})
  <2>1. IsInjective(v.client[d].running) /\ \A t \in ToSet(v.client[d].executing) : WholeTask(v, d, t)
    BY <1>3, <1>6, <1>7 DEF Machines
  <2>2. \A k \in Component, l \in MeasureModel : ~(posts(v, d, k, l) /\ runs(v, d, k, l))
    BY <1>2, <1>4, <1>6 DEF Machines
  <2>3. Awaits(v, d, {})
    BY <1>3, <1>5, <1>6 DEF Awaits
  <2> QED
    BY <2>1, <2>2, <2>3 DEF Machines
<1>9. WholeFates(v)
  BY <1>3 DEF Whole, WholeFates
<1>10. Whole(v)
  BY <1>2, <1>8, <1>9 DEF Whole
<1>11. ~posts(v, c, comp, "FETCH") /\ ~runs(v, c, comp, "FETCH")
  <2>1. "FETCH" \in MeasureModel
    BY DEF MeasureModel
  <2> QED
    BY <1>2, <1>4, <1>6, <2>1 DEF Machines
<1>12. ASSUME NEW t \in ToSet(v.client[c].executing), t.node.model = "FETCH"
       PROVE  /\ comp \notin ToSet(t.got)
              /\ comp \in ToSet(t.node.components) => comp \notin t.younger
  <2>1. WholeTask(w, c, t)
    BY <1>3, <1>6 DEF Machines
  <2> QED
    BY <1>2, <1>12, <2>1 DEF WholeTask
<1>13. Freed(v, c, comp, "FETCH")
  BY <1>11, <1>12 DEF Freed
<1> QED
  BY <1>10, <1>13 DEF v

LEMMA WholeEntering ==
  ASSUME NEW w \in WholeWorlds, w.posted # <<>>,
         NEW c \in Client, NEW comp \in Component, NEW m \in MeasureModel,
         Head(w.posted) = start(c, comp, m)
  PROVE  enterInitialState(taken(w), c, comp, m) \in WholeWorlds
<1> DEFINE u == taken(w)
           v == enterInitialState(u, c, comp, m)
<1>0. w \in Good
  BY DEF WholeWorlds
<1>1. u \in Good /\ AllBut(w, u, {"posted"})
  BY <1>0, Taking
<1>2. CASE w \in CarelessWorlds
  <2>1. u \in CarelessWorlds
    BY <1>1, <1>2 DEF AllBut, CarelessWorlds
  <2> HIDE DEF u
  <2>2. v \in CarelessWorlds
    BY <2>1, CarelessUnmeasured, Entering
  <2> HIDE DEF v
  <2>3. v \in Good
    BY <2>2, CarelessUnmeasured
  <2>4. v \in WholeWorlds
    BY <2>2, <2>3, CarelessParts
  <2> QED
    BY <2>4 DEF u, v
<1>3. CASE Whole(w)
  <2> DEFINE x == Append(u.client[c].running, <<comp, m>>)
             y == [u EXCEPT !.client[c].running = x]
  <2>1. CASE m = "FETCH" /\ <<comp, "INIT">> \notin ToSet(u.client[c].running)
    <3>1. ~runs(w, c, comp, "INIT")
      BY <1>1, <2>1 DEF runs, AllBut
    <3>2. Whole(u) /\ Freed(u, c, comp, "FETCH")
      BY <1>0, <1>3, <2>1, <3>1, WholeAtOnce
    <3> HIDE DEF u
    <3>3. onSingleScpiQueryDone(u, c, comp, "FETCH") \in WholeWorlds
      BY <1>1, <3>2, DoneOne
    <3> QED
      BY <2>1, <3>3 DEF enterInitialState, u
  <2>2. CASE ~(m = "FETCH" /\ <<comp, "INIT">> \notin ToSet(u.client[c].running))
    <3>1. v = y
      BY <1>1, <2>2, GoodParts DEF enterInitialState
    <3>2. Whole(y)
      BY <1>0, <1>3, WholeWaiting
    <3> HIDE DEF u, v
    <3>3. y \in Good
      <4>1. x \in Seq(Component \X MeasureModel)
        BY <1>1, GoodParts, AppendProperties DEF ClientState
      <4> HIDE DEF x
      <4> QED
        BY <1>1, <4>1, PutPart
    <3> HIDE DEF y
    <3>4. v \in WholeWorlds
      BY <3>1, <3>2, <3>3, CarelessParts
    <3> QED
      BY <3>4 DEF u, v
  <2> QED
    BY <2>1, <2>2
<1> QED
  BY <1>0, <1>2, <1>3, CarelessParts

-----------------------------------------------------------------------------
(* A value ends the machines that wait for it *)

LEMMA OnlyInjective ==
  ASSUME NEW E, NEW s \in Seq(E), NEW S, IsInjective(s)
  PROVE  IsInjective(Only(s, S))
<1> DEFINE v == Only(s, S)
           n == Len(v)
<1>1. v \in Seq(E) /\ IsOnly(v, s, S, 1..Len(s))
  BY OnlyKeeps
<1> HIDE DEF v
<1>2. n \in Nat /\ DOMAIN v = 1..n /\ DOMAIN s = 1..Len(s)
  BY <1>1, LenProperties
<1>3. PICK f \in [1..n -> 1..Len(s)] :
        /\ \A i, j \in 1..n : i < j => f[i] < f[j]
        /\ \A i \in 1..n : v[i] = s[f[i]]
  BY <1>1 DEF IsOnly
<1> HIDE DEF n
<1>4. ASSUME NEW i \in 1..n, NEW j \in 1..n, v[i] = v[j]
      PROVE  i = j
  <2>1. f[i] = f[j] /\ f[i] \in Int
    BY <1>2, <1>3, <1>4 DEF IsInjective
  <2>2. ~(i < j) /\ ~(j < i)
    BY <1>3, <2>1
  <2> QED
    BY <1>2, <2>2
<1> QED
  BY <1>2, <1>4 DEF IsInjective, v

\* What receiveMeasureValue does first: no machine of the component runs any more, and nothing
\* waits for a value of it that INIT has asked for.
LEMMA ReceivedParts ==
  ASSUME NEW w \in Good, NEW c \in Client, NEW comp \in Component
  PROVE  LET v == received(w, c, comp)
         IN  /\ v \in Good /\ ClientBut(w, v, c, {"awaited", "valued", "running", "executing"})
             /\ v.client[c].awaited = w.client[c].awaited \ {comp}
             /\ v.client[c].valued = nowValued(w, c, comp)
             /\ v.client[c].running = othersThan(w, c, comp)
             /\ v.client[c].executing = suppliedTasks(w, c, comp)
<1> DEFINE a == w.client[c].awaited \ {comp}
           b == nowValued(w, c, comp)
           r == othersThan(w, c, comp)
           tasks == suppliedTasks(w, c, comp)
           x == [w EXCEPT !.client[c].awaited = a]
           z == [x EXCEPT !.client[c].valued = b]
           y == [z EXCEPT !.client[c].running = r]
           v == [y EXCEPT !.client[c].executing = tasks]
<1>1. received(w, c, comp) = v
  BY DEF received
<1>2. a \in SUBSET Component /\ b \in SUBSET Component
  BY GoodParts DEF ClientState, nowValued
<1>3. r \in Seq(Component \X MeasureModel)
  BY ReceivingSteps
<1>4. tasks \in Seq(Task) /\ \A t \in ToSet(tasks) : Given(w, t.id)
  BY Supplied
<1> HIDE DEF a, b, r, tasks
<1>5. x \in Good /\ ClientBut(w, x, c, {"awaited"}) /\ x.client[c].awaited = a
  BY <1>2, PutAwaited
<1> HIDE DEF x
<1>6. z \in Good /\ ClientBut(x, z, c, {"valued"}) /\ z.client[c].valued = b
  <2>1. x \in Good
    BY <1>5
  <2> QED
    BY <1>2, <2>1, PutValued
<1> HIDE DEF z
<1>7. y \in Good /\ ClientBut(z, y, c, {"running"}) /\ y.client[c].running = r
  <2>1. z \in Good
    BY <1>6
  <2> QED
    BY <1>3, <2>1, PutPart
<1> HIDE DEF y
<1>8. \A t \in ToSet(tasks) : Given(y, t.id)
  BY <1>4, <1>5, <1>6, <1>7 DEF Given, ClientBut, AllBut
<1>9. v \in Good /\ ClientBut(y, v, c, {"executing"}) /\ v.client[c].executing = tasks
  BY <1>4, <1>7, <1>8, PutPart
<1> HIDE DEF v
<1>10. AllBut(w, v, {"client"})
  BY <1>5, <1>6, <1>7, <1>9 DEF ClientBut, AllBut
<1>11. ClientsBut(w, v, c, {"awaited", "valued", "running", "executing"})
  BY <1>5, <1>6, <1>7, <1>9 DEF ClientBut, ClientsBut
<1>12. v.client[c].awaited = a /\ v.client[c].valued = b /\ v.client[c].running = r
  BY <1>5, <1>6, <1>7, <1>9 DEF ClientBut, ClientsBut
<1> QED
  BY <1>1, <1>9, <1>10, <1>11, <1>12 DEF ClientBut, a, b, r, tasks

LEMMA WholeReceived ==
  ASSUME NEW w \in Good, Whole(w), NEW c \in Client, NEW comp \in Component
  PROVE  LET v == received(w, c, comp)
         IN  /\ Whole(v)
             /\ \A m \in MeasureModel : runs(w, c, comp, m) => Freed(v, c, comp, m)
<1> DEFINE v == received(w, c, comp)
           old == w.client[c].executing
<1>1. /\ v \in Good /\ ClientBut(w, v, c, {"awaited", "valued", "running", "executing"})
      /\ v.client[c].awaited = w.client[c].awaited \ {comp}
      /\ v.client[c].valued = nowValued(w, c, comp)
      /\ v.client[c].running = othersThan(w, c, comp)
      /\ v.client[c].executing = suppliedTasks(w, c, comp)
  BY ReceivedParts
<1> HIDE DEF v
<1>2. v.posted = w.posted /\ v.query = w.query
  BY <1>1 DEF ClientBut, AllBut
<1>3. \A d \in Client \ {c} : v.client[d] = w.client[d]
  BY <1>1 DEF ClientBut, ClientsBut
<1>4. \A d, k, l : /\ posts(v, d, k, l) <=> posts(w, d, k, l)
                   /\ initFirst(v, d, k) <=> initFirst(w, d, k)
  BY <1>2 DEF posts, initFirst
<1>5. \A k, l : runs(v, c, k, l) <=> runs(w, c, k, l) /\ k # comp
  <2>1. ToSet(othersThan(w, c, comp)) = {m \in ToSet(w.client[c].running) : m[1] # comp}
    BY ReceivingSteps
  <2>2. \A k, l : <<k, l>>[1] = k
    OBVIOUS
  <2> QED
    BY <1>1, <2>1, <2>2 DEF runs
<1>6. \A d \in Client \ {c} : \A k, l : runs(v, d, k, l) <=> runs(w, d, k, l)
  BY <1>3 DEF runs
<1>7. Machines(w, c) /\ Awaits(w, c, {})
  BY DEF Whole
<1>8. ASSUME NEW u \in ToSet(v.client[c].executing)
      PROVE  \E t \in ToSet(old) : /\ u.node = t.node /\ u.got = t.got /\ u.stale = t.stale
                                   /\ u.blank = t.blank /\ u.early = t.early
                                   /\ u.younger = t.younger \ {comp}
  <2> DEFINE tasks == suppliedTasks(w, c, comp)
  <2>1. PICK i \in DOMAIN tasks : u = tasks[i]
    BY <1>1, <1>8 DEF ToSet
  <2>2. /\ DOMAIN tasks = DOMAIN old
        /\ \A k \in DOMAIN tasks :
             /\ tasks[k].node = old[k].node /\ tasks[k].got = old[k].got /\ tasks[k].stale = old[k].stale
             /\ tasks[k].blank = old[k].blank /\ tasks[k].early = old[k].early
             /\ tasks[k].younger = old[k].younger \ {comp}
    BY Supplied
  <2>3. old[i] \in ToSet(old)
    BY <2>2 DEF ToSet
  <2> QED
    BY <2>1, <2>2, <2>3
<1>9. ASSUME NEW u \in ToSet(v.client[c].executing)
      PROVE  WholeTask(v, c, u)
  <2>1. PICK t \in ToSet(old) : /\ u.node = t.node /\ u.got = t.got /\ u.stale = t.stale
                                /\ u.blank = t.blank /\ u.early = t.early
                                /\ u.younger = t.younger \ {comp}
    BY <1>8, <1>9
  <2>2. WholeTask(w, c, t)
    BY <1>7 DEF Machines
  <2>3. \A k \in ToSet(u.got) : ~runs(v, c, k, u.node.model) /\ ~posts(v, c, k, u.node.model)
    BY <1>4, <1>5, <2>1, <2>2 DEF WholeTask
  <2>4. \A k \in u.younger :
          /\ initComes(v, c, k)
          /\ u.node.model = "FETCH" /\ k \in ToSet(u.node.components) =>
               runs(v, c, k, "INIT") \/ initFirst(v, c, k)
    BY <1>4, <1>5, <2>1, <2>2 DEF WholeTask, initComes
  <2>5. Entries(v, c, u)
    <3>1. Entries(w, c, t)
      BY <2>2 DEF WholeTask
    <3>2. /\ v.client[c].valued = w.client[c].valued \cup ({comp} \cap w.client[c].sequences)
          /\ v.client[c].sequences = w.client[c].sequences
      BY <1>1 DEF nowValued, ClientBut, ClientsBut
    <3> QED
      BY <2>1, <3>1, <3>2 DEF Entries
  <2> QED
    BY <2>1, <2>2, <2>3, <2>4, <2>5, Zenon DEF WholeTask
<1>10. Machines(v, c) /\ Awaits(v, c, {})
  <2>1. w.client[c].running \in Seq(Component \X MeasureModel)
    BY GoodParts DEF ClientState
  <2>2. IsInjective(v.client[c].running)
    BY <1>1, <1>7, <2>1, OnlyInjective DEF othersThan, Machines
  <2>3. \A k \in Component, l \in MeasureModel : ~(posts(v, c, k, l) /\ runs(v, c, k, l))
    BY <1>4, <1>5, <1>7 DEF Machines
  <2>4. Awaits(v, c, {})
    BY <1>1, <1>4, <1>5, <1>7 DEF Awaits, initComes
  <2> QED
    BY <1>9, <2>2, <2>3, <2>4 DEF Machines
<1>11. ASSUME NEW d \in Client \ {c} PROVE Machines(v, d) /\ Awaits(v, d, {})
  <2>1. Machines(w, d) /\ Awaits(w, d, {})
    BY DEF Whole
  <2>2. SameMeasuring(w, v, {d}) /\ SameStarts(w, v, {d})
    BY <1>1, <1>2, <1>3, StartsStay DEF SameMeasuring
  <2> QED
    BY <2>1, <2>2, MachinesStay
<1>12. WholeFates(v) /\ PostedOnce(v)
  BY <1>2 DEF Whole, WholeFates, PostedOnce
<1>13. Whole(v)
  BY <1>10, <1>11, <1>12 DEF Whole
<1>14. ASSUME NEW m \in MeasureModel, runs(w, c, comp, m) PROVE Freed(v, c, comp, m)
  <2>1. ~posts(v, c, comp, m) /\ ~runs(v, c, comp, m)
    BY <1>4, <1>5, <1>7, <1>14 DEF Machines
  <2>2. ASSUME NEW u \in ToSet(v.client[c].executing), u.node.model = m
        PROVE  /\ comp \notin ToSet(u.got) /\ comp \notin u.younger
               /\ comp \in ToSet(u.node.components) => comp \in v.client[c].valued
    <3>1. PICK t \in ToSet(old) : u.node = t.node /\ u.got = t.got /\ u.younger = t.younger \ {comp}
      BY <1>8, <2>2
    <3>2. WholeTask(w, c, t)
      BY <1>7 DEF Machines
    <3>3. comp \in ToSet(u.node.components) => comp \in v.client[c].valued
      BY <1>1, <3>1, <3>2 DEF WholeTask, Entries, nowValued
    <3> QED
      BY <1>14, <2>2, <3>1, <3>2, <3>3 DEF WholeTask
  <2> QED
    BY <2>1, <2>2 DEF Freed
<1> QED
  BY <1>13, <1>14 DEF v

LEMMA WholeReceiving ==
  ASSUME NEW w \in WholeWorlds, NEW c \in Client, NEW comp \in Component
  PROVE  receiveMeasureValue(w, c, comp) \in WholeWorlds
<1>0. w \in Good
  BY DEF WholeWorlds
<1>1. CASE w \in CarelessWorlds
  <2> DEFINE v == receiveMeasureValue(w, c, comp)
  <2>1. v \in CarelessWorlds
    BY <1>1, CarelessUnmeasured, Receiving
  <2> HIDE DEF v
  <2>2. v \in Good
    BY <2>1, CarelessUnmeasured
  <2>3. v \in WholeWorlds
    BY <2>1, <2>2, CarelessParts
  <2> QED
    BY <2>3 DEF v
<1>2. CASE Whole(w)
  <2> DEFINE r == received(w, c, comp)
             s == waitingFor(w, c, comp)
             n == Len(s)
             V == [k \in 0..n |->
                     {v \in WholeWorlds :
                        v \in CarelessWorlds \/ \A j \in (k + 1)..n : Freed(v, c, comp, s[j][2])}]
  <2>1. /\ s \in Seq(Component \X MeasureModel)
        /\ ToSet(s) = {m \in ToSet(w.client[c].running) : m[1] = comp /\ m[2] # "INIT"}
        /\ receiveMeasureValue(w, c, comp) = allDone(r, c, s, comp)
    <3>1. /\ s \in Seq(Component \X MeasureModel)
          /\ ToSet(s) = {m \in ToSet(w.client[c].running) : m[1] = comp /\ m[2] # "INIT"}
      BY <1>0, ReceivingSteps
    <3>2. receiveMeasureValue(w, c, comp) = allDone(r, c, s, comp)
      BY <1>0, ReceivingSteps
    <3> QED
      BY <3>1, <3>2
  <2>2. IsInjective(s)
    <3>1. w.client[c].running \in Seq(Component \X MeasureModel) /\ IsInjective(w.client[c].running)
      BY <1>0, <1>2, GoodParts DEF ClientState, Whole, Machines
    <3> QED
      BY <3>1, OnlyInjective DEF waitingFor
  <2>3. r \in Good
    BY <1>0, ReceivedParts
  <2>4. Whole(r) /\ \A m \in MeasureModel : runs(w, c, comp, m) => Freed(r, c, comp, m)
    BY <1>0, <1>2, WholeReceived
  <2> HIDE DEF r, s
  <2>5. n \in Nat /\ DOMAIN s = 1..n /\ \A k \in 1..n : s[k] \in Component \X MeasureModel /\ s[k] \in ToSet(s)
    BY <2>1, LenProperties, ElementOfSeq DEF ToSet
  <2>6. \A k \in 1..n : /\ s[k][2] \in MeasureModel /\ s[k] = <<comp, s[k][2]>>
                        /\ runs(w, c, comp, s[k][2])
    <3> SUFFICES ASSUME NEW k \in 1..n
                 PROVE  /\ s[k][2] \in MeasureModel /\ s[k] = <<comp, s[k][2]>>
                        /\ runs(w, c, comp, s[k][2])
      OBVIOUS
    <3>1. s[k] \in Component \X MeasureModel /\ s[k] \in ToSet(s)
      BY <2>5
    <3>2. s[k] \in ToSet(w.client[c].running) /\ s[k][1] = comp
      BY <2>1, <3>1
    <3>3. \A p \in Component \X MeasureModel : p[2] \in MeasureModel /\ p = <<p[1], p[2]>>
      OBVIOUS
    <3> QED
      BY <3>1, <3>2, <3>3 DEF runs
  <2>7. \A v \in Good : \A x \in ToSet(s) : onSingleScpiQueryDone(v, c, comp, x[2]) \in Good
    <3> SUFFICES ASSUME NEW v \in Good, NEW x
                 PROVE  onSingleScpiQueryDone(v, c, comp, x[2]) \in Good
      OBVIOUS
    <3> DEFINE W == {y \in Good : y.connected = v.connected}
    <3>1. OfQueries(W)
      BY GoodOfQueries
    <3>2. W \in SUBSET Good /\ v \in W
      OBVIOUS
    <3> HIDE DEF W
    <3>3. Unmeasured(W, c)
      BY <3>1, <3>2, QueriesUnmeasured
    <3>4. onSingleScpiQueryDone(v, c, comp, x[2]) \in W
      BY <3>2, <3>3, Done
    <3> QED
      BY <3>2, <3>4
  <2>8. PICK g \in [Good \X (1..n) -> Good] :
          /\ \A v \in Good : \A k \in 1..n : g[<<v, k>>] = onSingleScpiQueryDone(v, c, comp, s[k][2])
          /\ Folds(allDone(r, c, s, comp), n, Good, r, g)
    BY <2>1, <2>3, <2>7, DoneFold
  <2> HIDE DEF n
  <2>9. r \in V[0]
    <3>1. r \in WholeWorlds
      BY <2>3, <2>4, CarelessParts
    <3>2. \A j \in (0 + 1)..n : Freed(r, c, comp, s[j][2])
      BY <2>4, <2>5, <2>6
    <3>3. 0 \in 0..n
      BY <2>5
    <3> QED
      BY <3>1, <3>2, <3>3
  <2>10. ASSUME NEW k \in 1..n, NEW v \in V[k - 1] PROVE g[<<v, k>>] \in V[k]
    <3> DEFINE m == s[k][2]
               y == onSingleScpiQueryDone(v, c, comp, m)
    <3>1. k - 1 \in 0..n /\ k \in 0..n /\ k \in (k - 1 + 1)..n
      BY <2>5
    <3>2. v \in WholeWorlds /\ (v \in CarelessWorlds \/ \A j \in (k - 1 + 1)..n : Freed(v, c, comp, s[j][2]))
      BY <2>10, <3>1
    <3>3. v \in Good
      BY <3>2 DEF WholeWorlds
    <3>4. g[<<v, k>>] = y
      BY <2>8, <3>3
    <3>5. CASE v \in CarelessWorlds
      <4>1. y \in CarelessWorlds
        BY <3>5, CarelessUnmeasured, Done
      <4> HIDE DEF y
      <4>2. y \in Good
        BY <4>1, CarelessUnmeasured
      <4>3. y \in WholeWorlds
        BY <4>1, <4>2, CarelessParts
      <4> QED
        BY <3>1, <3>4, <4>1, <4>3
    <3>6. CASE v \notin CarelessWorlds
      <4>1. Whole(v) /\ \A j \in (k - 1 + 1)..n : Freed(v, c, comp, s[j][2])
        BY <3>2, <3>3, <3>6, CarelessParts
      <4>2. Freed(v, c, comp, m)
        BY <3>1, <4>1
      <4>3. /\ y \in WholeWorlds
            /\ \A l : l # m /\ Freed(v, c, comp, l) => Freed(y, c, comp, l)
        BY <3>3, <4>1, <4>2, DoneOne
      <4> HIDE DEF y
      <4>4. \A j \in (k + 1)..n : s[j][2] # m /\ j \in (k - 1 + 1)..n
        <5> SUFFICES ASSUME NEW j \in (k + 1)..n
                     PROVE  s[j][2] # m /\ j \in (k - 1 + 1)..n
          OBVIOUS
        <5>1. j \in 1..n /\ j # k /\ j \in (k - 1 + 1)..n
          BY <2>5
        <5>2. s[j] # s[k]
          BY <2>2, <2>5, <5>1 DEF IsInjective
        <5> QED
          BY <2>6, <5>1, <5>2
      <4>5. \A j \in (k + 1)..n : Freed(y, c, comp, s[j][2])
        BY <4>1, <4>3, <4>4
      <4> QED
        BY <3>1, <3>4, <4>3, <4>5
    <3> QED
      BY <3>5, <3>6
  <2>11. V \in [0..n -> SUBSET Good]
    <3>1. \A v \in WholeWorlds : v \in Good
      BY DEF WholeWorlds
    <3> QED
      BY <3>1
  <2> HIDE DEF V
  <2>12. allDone(r, c, s, comp) \in V[n]
    BY <2>3, <2>5, <2>8, <2>9, <2>10, <2>11, FoldReaches
  <2>13. n \in 0..n
    BY <2>5
  <2>14. allDone(r, c, s, comp) \in WholeWorlds
    BY <2>12, <2>13 DEF V
  <2> QED
    BY <2>1, <2>14
<1> QED
  BY <1>0, <1>1, <1>2, CarelessParts

-----------------------------------------------------------------------------
(* Commands, events and steps keep answers whole *)

LEMMA WholeCommanded ==
  ASSUME NEW c \in Client, ParamOK
  PROVE  Commanded(WholeWorlds, c)
<1> DEFINE W == WholeWorlds
<1> SUFFICES ASSUME NEW w \in W
             PROVE  /\ issued(w, c) \in W
                    /\ \A st \in HonestStatus : [w EXCEPT !.client[c].status = st] \in W
                    /\ \A id : \A answer \in {"answered", "failed"} : handleCmdFinish(w, c, id, answer) \in W
                    /\ \A cmd \in Command : \A id : Given(w, id) =>
                         /\ cmd.kind = "parameter" /\ cmd.target \notin Future =>
                              executeParameter(w, c, cmd, id) \in W
                         /\ cmd.kind = "rpc" => executeScpiRpc(w, c, cmd, id) \in W
                         /\ cmd.kind = "measure" => executeMeasure(w, c, cmd.node, id) \in W
                    /\ [w EXCEPT !.client[c].active = <<>>] \in W
                    /\ w.client[c].pending # {} => \A cmd \in Command :
                         [w EXCEPT !.client[c].active = Append(w.client[c].active, cmd)] \in W
  BY Zenon DEF Commanded
<1>0. w \in Good
  BY DEF WholeWorlds
<1>1. issued(w, c) \in W
  BY WholeIssued
<1>2. ASSUME NEW st \in HonestStatus
      PROVE  [w EXCEPT !.client[c].status = st] \in W
  <2> DEFINE v == [w EXCEPT !.client[c].status = st]
  <2>1. v \in Good /\ ClientBut(w, v, c, {"status"})
    BY <1>0, PutPart
  <2> HIDE DEF v
  <2>2. {"status"} \in SUBSET {"active", "pending", "status"}
    OBVIOUS
  <2>3. v \in W
    BY <2>1, <2>2, WholePart
  <2> QED
    BY <2>3 DEF v
<1>3. \A id : \A answer \in {"answered", "failed"} : handleCmdFinish(w, c, id, answer) \in W
  BY WholeAnswers
<1>4. ASSUME NEW cmd \in Command, NEW id, Given(w, id), cmd.kind = "parameter", cmd.target \notin Future
      PROVE  executeParameter(w, c, cmd, id) \in W
  <2> DEFINE v == executeParameter(w, c, cmd, id)
  <2>0. /\ v \in Good /\ AllBut(w, v, {"store", "client", "posted", "met"})
        /\ v.store = <<[client |-> c, target |-> cmd.target, id |-> id]>> \o w.store
        /\ ClientsBut(w, v, c, {"pending"})
        /\ v.client[c].pending = w.client[c].pending \cup {NameOf[cmd.target]}
        /\ \E e \in Event : e.call = "transaction" /\ v.posted = Append(w.posted, e)
        /\ w.met \subseteq v.met
        /\ NameOf[cmd.target] \in w.client[c].pending => "repeat" \in v.met
    BY <1>0, <1>4, Sending
  <2>1. /\ v \in Good /\ AllBut(w, v, {"store", "client", "posted", "met"})
        /\ ClientsBut(w, v, c, {"pending"})
        /\ \E e \in Event : e.call = "transaction" /\ v.posted = Append(w.posted, e)
        /\ w.met \subseteq v.met
    BY <2>0
  <2> HIDE DEF v
  <2>2. SameMeasuring(w, v, Client)
    BY <2>1 DEF ClientsBut, SameMeasuring
  <2>3. AllBut(w, v, {"connected", "store", "rpcs", "delayed", "met", "posted", "client"})
    BY <2>1 DEF AllBut
  <2>4. \E e \in Event : e.call # "start" /\ v.posted = Append(w.posted, e)
    BY <2>1
  <2>5. v \in W
    BY <2>1, <2>2, <2>3, <2>4, WholeMoves
  <2> QED
    BY <2>5 DEF v
<1>5. ASSUME NEW cmd \in Command, NEW id, Given(w, id), cmd.kind = "rpc"
      PROVE  executeScpiRpc(w, c, cmd, id) \in W
  <2> DEFINE v == executeScpiRpc(w, c, cmd, id)
  <2>1. /\ v \in Good /\ w.met \subseteq v.met
        /\ \/ /\ AllBut(w, v, {"store", "rpcs", "client", "met"})
              /\ ClientsBut(w, v, c, {"pending"})
           \/ AllBut(w, v, {"rpcs", "met"})
           \/ AllBut(w, v, {"met"})
    BY <1>0, <1>5, Invoking
  <2> HIDE DEF v
  <2>2. SameMeasuring(w, v, Client)
    BY <2>1 DEF ClientsBut, SameMeasuring, AllBut
  <2>3. v.posted = w.posted /\ v.query = w.query
    BY <2>1 DEF AllBut
  <2>4. SameStarts(w, v, Client)
    BY <1>0, <2>1, <2>3, StartsStay
  <2>5. WholeFates(w) => WholeFates(v)
    BY <2>3 DEF WholeFates
  <2>6. v \in W
    BY <2>1, <2>2, <2>4, <2>5, WholeStays
  <2> QED
    BY <2>6 DEF v
<1>6. ASSUME NEW cmd \in Command, NEW id, Given(w, id), cmd.kind = "measure"
      PROVE  executeMeasure(w, c, cmd.node, id) \in W
  <2>1. cmd.node \in Node
    BY <1>6, Commands
  <2> QED
    BY <1>6, <2>1, WholeMeasuring
<1>7. ASSUME NEW x \in Seq(Command)
      PROVE  [w EXCEPT !.client[c].active = x] \in W
  <2> DEFINE v == [w EXCEPT !.client[c].active = x]
  <2>1. v \in Good /\ ClientBut(w, v, c, {"active"})
    BY <1>0, PutPart
  <2> HIDE DEF v
  <2>2. {"active"} \in SUBSET {"active", "pending", "status"}
    OBVIOUS
  <2>3. v \in W
    BY <2>1, <2>2, WholePart
  <2> QED
    BY <2>3 DEF v
<1>8. [w EXCEPT !.client[c].active = <<>>] \in W
  <2>1. <<>> \in Seq(Command)
    BY EmptySeq
  <2> QED
    BY <1>7, <2>1
<1>9. ASSUME NEW cmd \in Command
      PROVE  [w EXCEPT !.client[c].active = Append(w.client[c].active, cmd)] \in W
  <2>1. Append(w.client[c].active, cmd) \in Seq(Command)
    BY <1>0, GoodParts, AppendProperties DEF ClientState
  <2> QED
    BY <1>7, <2>1
<1> QED
  BY <1>1, <1>2, <1>3, <1>4, <1>5, <1>6, <1>8, <1>9

\* An event that starts nothing is put behind the others.
LEMMA WholePosted ==
  ASSUME NEW w \in WholeWorlds, NEW v \in Good, NEW e \in Event, e.call # "start",
         AllBut(w, v, {"store", "rpcs", "posted"}), v.posted = Append(w.posted, e)
  PROVE  v \in WholeWorlds
<1>1. AllBut(w, v, {"connected", "store", "rpcs", "delayed", "met", "posted", "client"})
      /\ v.client = w.client /\ v.met = w.met
  BY DEF AllBut
<1>2. SameMeasuring(w, v, Client)
  BY <1>1 DEF SameMeasuring
<1> QED
  BY <1>1, <1>2, WholeMoves

LEMMA WholeHandled ==
  ASSUME ParamOK
  PROVE  Handles(WholeWorlds, [c \in Client |-> WholeWorlds])
<1> DEFINE W == WholeWorlds
           Wc == [c \in Client |-> WholeWorlds]
<1>1. \A c \in Client : Wc[c] = W /\ Wc[c] \in SUBSET W /\ Commanded(Wc[c], c)
  BY WholeCommanded
<1>2. \A w \in W : w \in Good
  BY DEF WholeWorlds
<1>3. ASSUME NEW w \in W, NEW e \in Event, e.call \in {"notification", "error"} PROVE post(w, e) \in W
  <2> DEFINE v == post(w, e)
  <2>1. v \in Good /\ AllBut(w, v, {"posted"}) /\ v.posted = Append(w.posted, e)
    BY <1>2, Posting
  <2> HIDE DEF v
  <2>2. AllBut(w, v, {"store", "rpcs", "posted"}) /\ e.call # "start"
    BY <1>3, <2>1 DEF AllBut
  <2>3. v \in W
    BY <2>1, <2>2, WholePosted
  <2> QED
    BY <2>3 DEF v
<1>4. ASSUME NEW w \in W, NEW x \in Circumstance PROVE meet(w, x) \in W
  <2> DEFINE v == meet(w, x)
  <2>1. v \in Good /\ AllBut(w, v, {"met"}) /\ v.met = w.met \cup {x}
    BY <1>2, Meeting
  <2> HIDE DEF v
  <2>2. AllBut(w, v, {"connected", "store", "rpcs", "delayed", "met"})
    BY <2>1 DEF AllBut
  <2>3. v \in W
    BY <2>1, <2>2, WholeMeets
  <2> QED
    BY <2>3 DEF v
<1>5. \A w \in W : \A c \in Client : \A st \in HonestStatus : [w EXCEPT !.client[c].status = st] \in W
  BY <1>1 DEF Commanded
<1>6. \A w \in W : \A c \in Client : \A id : \A answer \in {"answered", "failed"} :
        handleCmdFinish(w, c, id, answer) \in W
  BY WholeAnswers
<1>7. \A w \in W : \A c \in Client : \A comp \in Component : receiveMeasureValue(w, c, comp) \in W
  BY WholeReceiving
<1>8. ASSUME NEW w \in W, NEW c \in Client, NEW name \in Name
      PROVE  postRemove(w, c, name) \in W
  <2> DEFINE v == postRemove(w, c, name)
             e == removal(c, name)
  <2>1. e \in Event /\ v \in Good /\ AllBut(w, v, {"posted"}) /\ v.posted = Append(w.posted, e)
    BY <1>2, Removing
  <2> HIDE DEF v
  <2>2. AllBut(w, v, {"store", "rpcs", "posted"}) /\ e.call # "start"
    BY <2>1 DEF AllBut, removal
  <2> HIDE DEF e
  <2>3. v \in W
    BY <2>1, <2>2, WholePosted
  <2> QED
    BY <2>3 DEF v
<1>9. ASSUME NEW w \in W, NEW i \in DOMAIN w.store
      PROVE  transactionEnded(w, i) \in W
  <2> DEFINE v == transactionEnded(w, i)
             e == removal(w.store[i].client, NameOf[w.store[i].target])
  <2>1. v \in Good /\ AllBut(w, v, {"store", "posted"}) /\ v.posted = Append(w.posted, e)
    BY <1>2, EndingTransaction
  <2>2. e \in Event /\ e.call # "start"
    <3>1. w.store[i].client \in Client /\ NameOf[w.store[i].target] \in Name
      BY <1>2, Stored
    <3> QED
      BY <1>2, <3>1, Removing DEF removal
  <2> HIDE DEF v, e
  <2>3. AllBut(w, v, {"store", "rpcs", "posted"})
    BY <2>1 DEF AllBut
  <2>4. v \in W
    BY <2>1, <2>2, <2>3, WholePosted
  <2> QED
    BY <2>4 DEF v
<1>10. ASSUME NEW w \in W, NEW i \in DOMAIN w.rpcs
       PROVE  rpcEnded(w, i) \in W
  <2> DEFINE v == rpcEnded(w, i)
             e == removal(w.rpcs[i].client, NameOf[w.rpcs[i].target])
  <2>1. /\ w.rpcs[i] \in Transaction
        /\ v \in Good /\ AllBut(w, v, {"rpcs", "store", "posted"}) /\ v.posted = Append(w.posted, e)
    BY <1>2, EndingRpc
  <2>2. e \in Event /\ e.call # "start"
    <3>1. w.rpcs[i].client \in Client /\ NameOf[w.rpcs[i].target] \in Name
      BY <2>1 DEF Transaction, Name
    <3> QED
      BY <1>2, <3>1, Removing DEF removal
  <2> HIDE DEF v, e
  <2>3. AllBut(w, v, {"store", "rpcs", "posted"})
    BY <2>1 DEF AllBut
  <2>4. v \in W
    BY <2>1, <2>2, <2>3, WholePosted
  <2> QED
    BY <2>4 DEF v
<1>11. ASSUME NEW w \in W, NEW i \in DOMAIN w.store
       PROVE  /\ w.store[i].target \notin Rpc => transactionEnded(w, i) \in W
              /\ meet(transactionEnded(w, i), "crosstalk") \in W
              /\ \A name \in Name : meet(postRemove(w, w.store[i].client, name), "crosstalk") \in W
  <2>1. "crosstalk" \in Circumstance
    BY DEF Circumstance
  <2>2. w.store[i].client \in Client
    BY <1>2, Stored
  <2> HIDE DEF W
  <2>3. meet(transactionEnded(w, i), "crosstalk") \in W
    BY <1>4, <1>9, <2>1
  <2>4. \A name \in Name : meet(postRemove(w, w.store[i].client, name), "crosstalk") \in W
    BY <1>4, <1>8, <2>1, <2>2
  <2> QED
    BY <1>9, <2>3, <2>4
<1>12. ASSUME NEW w \in W, w.posted # <<>>
       PROVE  LET e == Head(w.posted)
              IN  /\ e.call = "start" => enterInitialState(taken(w), e.client, e.component, e.model) \in W
                  /\ e.call = "remove" =>
                       LET u == known(taken(w), e.client, e.name)
                       IN  /\ [u EXCEPT !.client[e.client].active = <<>>] \in Wc[e.client]
                           /\ u.client[e.client].active = <<>> => u \in Wc[e.client]
                  /\ e.call \notin {"start", "remove"} => taken(w) \in W
  <2> DEFINE e == Head(w.posted)
             v == taken(w)
  <2>1. w \in Good /\ e \in Event /\ v \in Good /\ AllBut(w, v, {"posted"}) /\ v.posted = Tail(w.posted)
    BY <1>2, <1>12, Taking
  <2>2. ASSUME e.call = "start"
        PROVE  enterInitialState(v, e.client, e.component, e.model) \in W
    <3>1. \A x \in Event : x.call = "start" => x = start(x.client, x.component, x.model)
      BY DEF Event, start
    <3>2. e = start(e.client, e.component, e.model)
      BY <2>1, <2>2, <3>1
    <3>3. e.client \in Client /\ e.component \in Component /\ e.model \in MeasureModel
      BY <2>1, <2>2, EventParts
    <3> QED
      BY <1>12, <3>2, <3>3, WholeEntering
  <2> HIDE DEF v
  <2>3. ASSUME e.call # "start" PROVE v \in W
    <3>1. AllBut(w, v, {"connected", "store", "rpcs", "delayed", "met", "posted", "client"})
          /\ v.client = w.client /\ v.met = w.met
      BY <2>1 DEF AllBut
    <3>2. SameMeasuring(w, v, Client)
      BY <3>1 DEF SameMeasuring
    <3> QED
      BY <1>12, <2>1, <2>3, <3>1, <3>2, WholeMoves
  <2>4. ASSUME e.call = "remove"
        PROVE  LET u == known(v, e.client, e.name)
               IN  /\ [u EXCEPT !.client[e.client].active = <<>>] \in Wc[e.client]
                   /\ u.client[e.client].active = <<>> => u \in Wc[e.client]
    <3> DEFINE c == e.client
               u == known(v, c, e.name)
               y == [u EXCEPT !.client[c].active = <<>>]
    <3>1. c \in Client /\ v \in W
      BY <2>1, <2>3, <2>4, EventParts
    <3> HIDE DEF c
    <3>2. u \in Good /\ ClientBut(v, u, c, {"pending"})
      BY <2>1, <3>1, Knowing
    <3> HIDE DEF u
    <3>3. {"pending"} \in SUBSET {"active", "pending", "status"}
      OBVIOUS
    <3>4. u \in W
      BY <3>1, <3>2, <3>3, WholePart
    <3>5. y \in W
      BY <1>1, <3>1, <3>4 DEF Commanded
    <3> QED
      BY <1>1, <3>1, <3>4, <3>5 DEF u, c
  <2> QED
    BY <2>2, <2>3, <2>4 DEF v
<1>13. \A c \in Client : Wc[c] \in SUBSET W /\ Commanded(Wc[c], c)
  BY <1>1
<1>14. \A w \in W, c \in Client : c \in w.connected => w \in Wc[c]
  BY <1>1
<1>15. \A w \in W : meet(w, "outdated") \in W
  BY <1>4 DEF Circumstance
<1>16. \A w \in W, e \in Event : e.call \in {"notification", "error"} => post(w, e) \in W
  BY <1>3
<1> HIDE DEF W, Wc
<1>17. Handles(W, Wc)
  BY <1>5, <1>6, <1>7, <1>10, <1>11, <1>12, <1>13, <1>14, <1>15, <1>16, Zenon DEF Handles
<1> QED
  BY <1>17 DEF W, Wc

\* A client that comes or goes measures nothing.
LEMMA WholeFresh ==
  ASSUME NEW w \in WholeWorlds, NEW v \in Good, NEW c \in Client, v.client[c] = freshClient,
         \A d \in Client \ {c} : v.client[d] = w.client[d], SameStarts(w, v, Client \ {c}),
         WholeFates(w) => WholeFates(v), w.met \subseteq v.met
  PROVE  v \in WholeWorlds
<1> SUFFICES ASSUME v.met \cap Careless = {}
             PROVE  Whole(v)
  BY DEF WholeWorlds
<1>1. Whole(w)
  BY DEF WholeWorlds
<1>2. SameMeasuring(w, v, Client \ {c})
  BY DEF SameMeasuring
<1>3. \A d \in Client \ {c} : Machines(v, d) /\ Awaits(v, d, {})
  BY <1>1, <1>2, MachinesStay DEF Whole
<1>4. Machines(v, c) /\ Awaits(v, c, {})
  <2>1. v.client[c].running = <<>> /\ v.client[c].executing = <<>> /\ v.client[c].awaited = {}
    BY DEF freshClient
  <2>2. DOMAIN <<>> = {}
    BY EmptySeq
  <2>3. ToSet(v.client[c].running) = {} /\ ToSet(v.client[c].executing) = {}
    BY <2>1, <2>2 DEF ToSet
  <2>4. IsInjective(v.client[c].running)
    BY <2>1, <2>2 DEF IsInjective
  <2> QED
    BY <2>1, <2>3, <2>4 DEF Machines, Awaits, runs
<1>5. WholeFates(v) /\ PostedOnce(v)
  BY <1>1 DEF Whole, SameStarts
<1> QED
  BY <1>3, <1>4, <1>5 DEF Whole

LEMMA WholeConnecting ==
  ASSUME NEW w \in WholeWorlds, NEW c \in Client
  PROVE  connecting(w, c) \in WholeWorlds
<1> DEFINE v == connecting(w, c)
<1>0. w \in Good
  BY DEF WholeWorlds
<1>1. /\ v \in Good /\ AllBut(w, v, {"connected", "client"}) /\ v.client[c] = freshClient
      /\ \A d \in Client \ {c} : v.client[d] = w.client[d]
  BY <1>0, Connecting
<1> HIDE DEF v
<1>2. v.posted = w.posted /\ v.query = w.query /\ v.met = w.met
  BY <1>1 DEF AllBut
<1>3. SameStarts(w, v, Client \ {c})
  BY <1>0, <1>1, <1>2, StartsStay
<1>4. WholeFates(w) => WholeFates(v)
  BY <1>2 DEF WholeFates
<1>5. v \in WholeWorlds
  BY <1>1, <1>2, <1>3, <1>4, WholeFresh
<1> QED
  BY <1>5 DEF v

\* With a client go the starts of its machines; those of the others keep their order.
LEMMA WholeLeaving ==
  ASSUME NEW w \in WholeWorlds, NEW c \in Client, NEW v \in Good,
         AllBut(leaving(w, c), v, {"met"}), w.met \subseteq v.met
  PROVE  v \in WholeWorlds
<1> DEFINE r == remainingEvents(w, c)
           kept == {e \in ToSet(w.posted) : e.call \in {"start", "remove"} => e.client # c}
<1>0. w \in Good
  BY DEF WholeWorlds
<1>1. w.posted \in Seq(Event)
  BY <1>0, GoodParts
<1>2. /\ v.client[c] = freshClient /\ \A d \in Client \ {c} : v.client[d] = w.client[d]
      /\ v.posted = nobodysEvents(w, c) /\ r \in Seq(Event) /\ v.query = endedQueries(w, c)
  <2> DEFINE x == leaving(w, c)
  <2>1. /\ x \in Good /\ x.client[c] = freshClient
        /\ \A d \in Client \ {c} : x.client[d] = w.client[d]
        /\ x.posted = nobodysEvents(w, c) /\ r \in Seq(Event) /\ x.query = endedQueries(w, c)
    BY <1>0, Leaving
  <2>2. AllBut(x, v, {"met"})
    OBVIOUS
  <2> HIDE DEF x, r
  <2>3. v.client = x.client /\ v.posted = x.posted /\ v.query = x.query
    BY <2>2 DEF AllBut
  <2> QED
    BY <2>1, <2>3
<1>3. /\ ToSet(r) = kept /\ IsOnly(r, w.posted, kept, 1..Len(w.posted))
      /\ DOMAIN r = 1..Len(r) /\ DOMAIN w.posted = 1..Len(w.posted) /\ Len(r) \in Nat
      /\ \A k \in DOMAIN r : r[k] \in Event
  BY <1>1, <1>2, OnlyElements, OnlyKeeps, LenProperties, ElementOfSeq DEF remainingEvents
<1>4. DOMAIN v.posted = DOMAIN r /\ \A k \in DOMAIN r : v.posted[k] = nobodysEvent(c, r[k])
  BY <1>2 DEF nobodysEvents
<1> HIDE DEF r
<1>5. PICK f \in [1..Len(r) -> 1..Len(w.posted)] :
        /\ \A i, j \in 1..Len(r) : i < j => f[i] < f[j]
        /\ \A i \in 1..Len(r) : r[i] = w.posted[f[i]] /\ r[i] \in kept
        /\ \A k \in 1..Len(w.posted) : w.posted[k] \in kept => \E i \in 1..Len(r) : f[i] = k
  BY <1>3 DEF IsOnly
<1>6. \A k \in DOMAIN v.posted :
        /\ k \in 1..Len(r) /\ k \in Nat /\ f[k] \in DOMAIN w.posted /\ f[k] \in Nat
        /\ v.posted[k].call = w.posted[f[k]].call
        /\ v.posted[k].call = "start" => v.posted[k] = w.posted[f[k]]
  <2> SUFFICES ASSUME NEW k \in DOMAIN v.posted
               PROVE  /\ k \in 1..Len(r) /\ k \in Nat /\ f[k] \in DOMAIN w.posted /\ f[k] \in Nat
                      /\ v.posted[k].call = w.posted[f[k]].call
                      /\ v.posted[k].call = "start" => v.posted[k] = w.posted[f[k]]
    OBVIOUS
  <2>1. k \in 1..Len(r) /\ v.posted[k] = nobodysEvent(c, r[k]) /\ r[k] \in Event
    BY <1>3, <1>4
  <2>2. /\ v.posted[k].call = r[k].call
        /\ r[k].call \in {"start", "remove"} => v.posted[k] = r[k]
    BY <2>1, NobodysEvent
  <2> QED
    BY <1>3, <1>5, <2>1, <2>2
\* The machines of the others that are to start are to start still.
<1>7. \A i \in DOMAIN w.posted : w.posted[i].call = "start" /\ w.posted[i].client # c =>
        \E j \in DOMAIN v.posted : f[j] = i /\ v.posted[j] = w.posted[i]
  <2>1. ASSUME NEW i \in DOMAIN w.posted, w.posted[i].call = "start", w.posted[i].client # c
        PROVE  \E j \in DOMAIN v.posted : f[j] = i /\ v.posted[j] = w.posted[i]
    <3>1. w.posted[i] \in kept
      BY <2>1 DEF ToSet
    <3>2. PICK j \in 1..Len(r) : f[j] = i
      BY <1>3, <1>5, <3>1
    <3>3. j \in DOMAIN v.posted /\ v.posted[j].call = "start"
      BY <1>3, <1>4, <1>6, <2>1, <3>2
    <3> QED
      BY <1>6, <3>2, <3>3
  <2> QED
    BY <2>1
<1>8. \A d, k, l : \A j \in DOMAIN v.posted : v.posted[j] = start(d, k, l) =>
        f[j] \in DOMAIN w.posted /\ w.posted[f[j]] = start(d, k, l)
  BY <1>6, StartsDiffer
<1>9. SameStarts(w, v, Client \ {c})
  <2>1. \A d \in Client \ {c} : \A k, l : posts(v, d, k, l) <=> posts(w, d, k, l)
    <3> SUFFICES ASSUME NEW d \in Client \ {c}, NEW k, NEW l
                 PROVE  posts(v, d, k, l) <=> posts(w, d, k, l)
      OBVIOUS
    <3>1. posts(v, d, k, l) => posts(w, d, k, l)
      BY <1>8 DEF posts
    <3>2. ASSUME posts(w, d, k, l) PROVE posts(v, d, k, l)
      <4>1. PICK i \in DOMAIN w.posted : w.posted[i] = start(d, k, l)
        BY <3>2 DEF posts
      <4>2. d # c
        OBVIOUS
      <4>3. w.posted[i].call = "start" /\ w.posted[i].client # c
        BY <4>1, <4>2 DEF start
      <4> QED
        BY <1>7, <4>1, <4>3 DEF posts
    <3> QED
      BY <3>1, <3>2
  <2>2. ASSUME NEW d \in Client \ {c}, NEW k, initFirst(w, d, k),
               NEW i \in DOMAIN v.posted, v.posted[i] = start(d, k, "FETCH")
        PROVE  \E l \in DOMAIN v.posted : l < i /\ v.posted[l] = start(d, k, "INIT")
    <3> DEFINE a == f[i]
    <3>1. a \in DOMAIN w.posted /\ w.posted[a] = start(d, k, "FETCH")
      BY <1>8, <2>2
    <3> HIDE DEF a
    <3>2. PICK b \in DOMAIN w.posted : b < a /\ w.posted[b] = start(d, k, "INIT")
      BY <2>2, <3>1 DEF initFirst
    <3>3. PICK l \in DOMAIN v.posted : f[l] = b /\ v.posted[l] = start(d, k, "INIT")
      <4>1. d # c
        OBVIOUS
      <4>2. w.posted[b].call = "start" /\ w.posted[b].client # c
        BY <3>2, <4>1 DEF start
      <4> QED
        BY <1>7, <3>2, <4>2
    <3>4. i \in 1..Len(r) /\ l \in 1..Len(r) /\ i \in Nat /\ l \in Nat /\ f[i] \in Nat /\ f[l] \in Nat
      BY <1>6, <3>3
    <3>5. f[l] < f[i]
      BY <3>2, <3>3 DEF a
    <3>6. ~(i < l) /\ i # l
      BY <1>5, <3>4, <3>5
    <3> QED
      BY <3>3, <3>4, <3>6
  <2>3. ASSUME PostedOnce(w), NEW i \in DOMAIN v.posted, NEW j \in DOMAIN v.posted,
               v.posted[i].call = "start", v.posted[j] = v.posted[i]
        PROVE  i = j
    <3> DEFINE a == f[i]
               b == f[j]
    <3>1. /\ a \in DOMAIN w.posted /\ b \in DOMAIN w.posted
          /\ w.posted[a].call = "start" /\ w.posted[b] = w.posted[a]
      BY <1>6, <2>3
    <3> HIDE DEF a, b
    <3>2. a = b
      BY <2>3, <3>1 DEF PostedOnce
    <3>3. i \in 1..Len(r) /\ j \in 1..Len(r) /\ i \in Nat /\ j \in Nat /\ f[i] \in Nat /\ f[j] \in Nat
      BY <1>6
    <3>4. ~(i < j) /\ ~(j < i)
      BY <1>5, <3>2, <3>3 DEF a, b
    <3> QED
      BY <3>3, <3>4
  <2> QED
    BY <2>1, <2>2, <2>3 DEF SameStarts, initFirst, PostedOnce
<1>10. WholeFates(w) => WholeFates(v)
  <2>1. DOMAIN v.query = DOMAIN w.query /\ \A k \in DOMAIN w.query : v.query[k] = endedQuery(c, w.query[k])
    BY <1>2 DEF endedQueries
  <2>2. \A k \in DOMAIN w.query : w.query[k] \in [client : Client, fate : Fate]
    BY <1>0, GoodParts, ElementOfSeq
  <2>3. \A q \in [client : Client, fate : Fate] : endedQuery(c, q).fate \in {q.fate, "gone"}
    BY DEF endedQuery
  <2> QED
    BY <2>1, <2>2, <2>3 DEF WholeFates
<1> QED
  BY <1>2, <1>9, <1>10, WholeFresh

LEMMA WholeNext ==
  ASSUME Inv, scpi \in WholeWorlds, [Next]_vars
  PROVE  scpi' \in WholeWorlds
<1> DEFINE W == WholeWorlds
<1>0. scpi \in Good /\ ParamOK /\ IsFiniteSet(scpi.connected)
  BY InvParts
<1>1. CASE OwnStep
  <2>1. W \in SUBSET Good /\ Handles(W, [c \in Client |-> W])
    BY <1>0, WholeHandled DEF WholeWorlds
  <2> HIDE DEF W
  <2>2. scpi \in W
    BY DEF W
  <2>3. scpi' \in W
    BY <1>0, <1>1, <2>1, <2>2, OwnSteps
  <2> QED
    BY <2>3 DEF W
<1>2. ASSUME NEW c \in Client, Connect(c) PROVE scpi' \in W
  <2>1. scpi' = connecting(scpi, c)
    BY <1>2 DEF Connect, connecting
  <2> QED
    BY <2>1, WholeConnecting
<1>3. ASSUME NEW c \in Client, Disconnect(c) PROVE scpi' \in W
  <2>1. scpi' \in Good /\ AllBut(leaving(scpi, c), scpi', {"met"}) /\ scpi.met \subseteq scpi'.met
    BY <1>0, <1>3, DisconnectStep
  <2> QED
    BY <2>1, WholeLeaving
<1>4. ASSUME NEW bit \in Bits, NEW on \in BOOLEAN, Signal(bit, on) PROVE scpi' \in W
  <2>1. /\ scpi' \in Good /\ AllBut(scpi, scpi', {"client"})
        /\ \A c \in Client : OnlyStatus(scpi.client[c], scpi'.client[c])
    BY <1>0, <1>4, SignalStep
  <2>2. SameMeasuring(scpi, scpi', Client)
    BY <2>1 DEF OnlyStatus, SameMeasuring
  <2>3. scpi.met = scpi'.met /\ scpi'.posted = scpi.posted /\ scpi'.query = scpi.query
    BY <2>1 DEF AllBut
  <2>4. SameStarts(scpi, scpi', Client)
    BY <1>0, <2>1, <2>3, StartsStay
  <2>5. WholeFates(scpi) => WholeFates(scpi')
    BY <2>3 DEF WholeFates
  <2> QED
    BY <2>1, <2>2, <2>3, <2>4, <2>5, WholeStays
<1>5. CASE SortingChanged \/ UNCHANGED vars
  <2>1. scpi' = scpi
    BY <1>5 DEF SortingChanged, vars
  <2> QED
    BY <2>1
<1> QED
  BY <1>1, <1>2, <1>3, <1>4, <1>5, Kinds

LEMMA WholeInit ==
  ASSUME Init
  PROVE  scpi \in WholeWorlds
<1>1. /\ scpi.client = [c \in Client |-> freshClient] /\ scpi.posted = <<>> /\ scpi.query = <<>>
  BY DEF Init
<1>2. scpi \in Good
  BY InitInv DEF Inv
<1>3. DOMAIN <<>> = {}
  BY EmptySeq
<1>4. \A c \in Client : /\ scpi.client[c].running = <<>> /\ scpi.client[c].executing = <<>>
                        /\ scpi.client[c].awaited = {}
  BY <1>1 DEF freshClient
<1>5. \A c \in Client : ToSet(scpi.client[c].running) = {} /\ ToSet(scpi.client[c].executing) = {}
  BY <1>3, <1>4 DEF ToSet
<1>6. \A c \in Client : Machines(scpi, c) /\ Awaits(scpi, c, {})
  BY <1>3, <1>4, <1>5 DEF Machines, Awaits, IsInjective, runs
<1>7. WholeFates(scpi) /\ PostedOnce(scpi)
  BY <1>1, <1>3 DEF WholeFates, PostedOnce
<1> QED
  BY <1>2, <1>6, <1>7 DEF Whole, WholeWorlds

\* An answer to a measuring query has an entry for each component it asks for, each once, and to
\* FETCH none older than the INIT before it, however machines are shared by the queries of a
\* client; an entry is empty only where FETCH was sent while there was no value of the component
\* yet and INIT had asked for none; and no answer is dropped: as long as no query restarts a
\* machine an earlier one has its value from, FETCH shares no machine that is to start before
\* that of INIT, and no failed query has answers behind it held back from a serial client
\* (executors, component sequences, sorter).
THEOREM AnswersWhole ==
  ASSUME Interference \cap Careless = {}
  PROVE  Spec => []AnswersAreWhole
<1> DEFINE WInv == scpi \in WholeWorlds /\ scpi.met \subseteq Interference
<1>1. Init => WInv
  BY WholeInit, HonestInit
<1>2. Inv /\ WInv /\ [Next]_vars => WInv'
  BY MetAllowed, WholeNext
<1>3. WInv => AnswersAreWhole
  <2> SUFFICES ASSUME WInv PROVE AnswersAreWhole
    OBVIOUS
  <2>1. Whole(scpi)
    BY DEF WholeWorlds
  <2> QED
    BY <2>1 DEF Whole, WholeFates, AnswersAreWhole
<1> HIDE DEF WInv
<1> QED
  BY <1>1, <1>2, <1>3, InvHolds, PTL DEF Spec
=============================================================================
