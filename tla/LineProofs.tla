----------------------------- MODULE LineProofs -----------------------------
(***************************************************************************)
(* Lemmas about a line of requests that are answered in order, as the      *)
(* modules have it on their connections (m_MsgNrCmdList): what is in it,   *)
(* in which order, and what becomes of it when the oldest request is       *)
(* answered or new ones are sent.  Checked by TLAPS.                       *)
(***************************************************************************)
EXTENDS Naturals, Sequences, SequenceTheorems, TLAPS

\* What is under way
Elems(l) == {l[i] : i \in 1 .. Len(l)}

\* No request is followed by one that must not come after it: wrong is a set of pairs.
InOrder(l, wrong) == \A i, j \in 1 .. Len(l) : i < j => <<l[i], l[j]>> \notin wrong

\* A request last is under way, and none of first after it.
EndsWith(l, last, first) ==
  \E i \in 1 .. Len(l) : l[i] = last /\ \A j \in 1 .. Len(l) : i < j => l[j] # first

\* An answer takes the head off.
LEMMA Answered ==
  ASSUME NEW S, NEW l \in Seq(S), l # <<>>
  PROVE  /\ Head(l) \in S /\ Tail(l) \in Seq(S) /\ Head(l) \in Elems(l)
         /\ Elems(l) = {Head(l)} \cup Elems(Tail(l))
         /\ \A wrong : InOrder(l, wrong) =>
              /\ InOrder(Tail(l), wrong)
              /\ \A x \in Elems(Tail(l)) : <<Head(l), x>> \notin wrong
         /\ \A last, first : EndsWith(l, last, first) =>
              EndsWith(Tail(l), last, first) \/ (Head(l) = last /\ first \notin Elems(Tail(l)))
<1>1. /\ Len(l) \in Nat \ {0}
      /\ Head(l) = l[1] /\ Head(l) \in S
      /\ Tail(l) \in Seq(S)
      /\ Len(Tail(l)) = Len(l) - 1
      /\ \A i \in 1 .. Len(l) - 1 : Tail(l)[i] = l[i + 1]
  <2>1. Len(l) \in Nat /\ Len(l) # 0
    BY EmptySeq, LenProperties
  <2> QED
    BY <2>1, HeadTailProperties
<1> DEFINE t == Tail(l)
           n == Len(l)
<1> HIDE DEF t, n
<1>2. n \in Nat \ {0} /\ Len(l) = n /\ Len(t) = n - 1 /\ \A i \in 1 .. n - 1 : t[i] = l[i + 1]
  BY <1>1 DEF t, n
<1>3. \A i \in 1 .. n : i = 1 \/ (i - 1 \in 1 .. n - 1 /\ t[i - 1] = l[i])
  <2> SUFFICES ASSUME NEW i \in 1 .. n, i # 1
               PROVE  i - 1 \in 1 .. n - 1 /\ t[i - 1] = l[i]
    OBVIOUS
  <2>1. i - 1 \in 1 .. n - 1 /\ i - 1 + 1 = i
    BY <1>2
  <2> QED
    BY <1>2, <2>1
<1>4. \A i \in 1 .. n - 1 : i + 1 \in 1 .. n /\ i \in Int
  BY <1>2
<1>5. Elems(l) = {l[1]} \cup Elems(t)
  <2>1. \A x \in Elems(l) : x = l[1] \/ x \in Elems(t)
    BY <1>2, <1>3 DEF Elems
  <2>2. \A x \in Elems(t) : x \in Elems(l)
    BY <1>2, <1>4 DEF Elems
  <2>3. l[1] \in Elems(l)
    BY <1>2 DEF Elems
  <2> QED
    BY <2>1, <2>2, <2>3
<1>6. ASSUME NEW wrong, InOrder(l, wrong)
      PROVE  InOrder(t, wrong) /\ \A x \in Elems(t) : <<l[1], x>> \notin wrong
  <2>1. ASSUME NEW i \in 1 .. n - 1, NEW j \in 1 .. n - 1, i < j
        PROVE  <<t[i], t[j]>> \notin wrong
    <3>1. i + 1 < j + 1
      BY <1>4, <2>1
    <3> QED
      BY <1>2, <1>4, <1>6, <3>1 DEF InOrder
  <2>2. ASSUME NEW j \in 1 .. n - 1
        PROVE  <<l[1], t[j]>> \notin wrong
    <3>1. 1 < j + 1 /\ 1 \in 1 .. n
      BY <1>2
    <3> QED
      BY <1>2, <1>4, <1>6, <3>1 DEF InOrder
  <2> QED
    BY <1>2, <2>1, <2>2 DEF InOrder, Elems
<1>7. ASSUME NEW last, NEW first, EndsWith(l, last, first)
      PROVE  EndsWith(t, last, first) \/ (l[1] = last /\ first \notin Elems(t))
  <2>1. PICK i \in 1 .. n : l[i] = last /\ \A j \in 1 .. n : i < j => l[j] # first
    BY <1>2, <1>7 DEF EndsWith
  <2>2. CASE i = 1
    <3>1. \A j \in 1 .. n - 1 : t[j] # first
      <4> SUFFICES ASSUME NEW j \in 1 .. n - 1
                   PROVE  t[j] # first
        OBVIOUS
      <4>1. 1 < j + 1
        BY <1>4
      <4> QED
        BY <1>2, <1>4, <2>1, <2>2, <4>1
    <3> QED
      BY <1>2, <2>1, <2>2, <3>1 DEF Elems
  <2>3. CASE i # 1
    <3>1. i - 1 \in 1 .. n - 1 /\ t[i - 1] = last
      BY <1>3, <2>1, <2>3
    <3>2. ASSUME NEW j \in 1 .. n - 1, i - 1 < j
          PROVE  t[j] # first
      <4>1. i < j + 1
        BY <3>2
      <4> QED
        BY <1>2, <1>4, <2>1, <4>1
    <3> QED
      BY <1>2, <3>1, <3>2 DEF EndsWith
  <2> QED
    BY <2>2, <2>3
<1>8. Head(l) \in Elems(l)
  BY <1>1, <1>5
<1> QED
  BY <1>1, <1>5, <1>6, <1>7, <1>8 DEF t

\* Requests are sent.
LEMMA Sent ==
  ASSUME NEW S, NEW l \in Seq(S), NEW m \in Seq(S)
  PROVE  /\ l \o m \in Seq(S)
         /\ Elems(l \o m) = Elems(l) \cup Elems(m)
         /\ \A wrong : InOrder(l, wrong) /\ InOrder(m, wrong)
              /\ (\A x \in Elems(l), y \in Elems(m) : <<x, y>> \notin wrong) => InOrder(l \o m, wrong)
         /\ \A last, first : EndsWith(l, last, first) /\ first \notin Elems(m) => EndsWith(l \o m, last, first)
         /\ \A last, first : EndsWith(m, last, first) => EndsWith(l \o m, last, first)
<1> DEFINE t == l \o m
           a == Len(l)
           b == Len(m)
<1>1. /\ t \in Seq(S) /\ a \in Nat /\ b \in Nat /\ Len(t) = a + b
      /\ \A i \in 1 .. a + b : t[i] = IF i <= a THEN l[i] ELSE m[i - a]
  BY ConcatProperties, LenProperties
<1> HIDE DEF t
<1>2. /\ Len(l) = a /\ Len(m) = b
      /\ \A i \in 1 .. a : i \in 1 .. a + b /\ t[i] = l[i]
      /\ \A i \in 1 .. b : a + i \in 1 .. a + b /\ t[a + i] = m[i]
  <2>1. ASSUME NEW i \in 1 .. b
        PROVE  a + i \in 1 .. a + b /\ t[a + i] = m[i]
    <3>1. a + i \in 1 .. a + b /\ ~(a + i <= a) /\ a + i - a = i
      BY <1>1
    <3> QED
      BY <1>1, <3>1
  <2> QED
    BY <1>1, <2>1
<1> HIDE DEF a, b
<1>3. \A i \in 1 .. a + b : i \in 1 .. a \/ (i - a \in 1 .. b /\ t[i] = m[i - a])
  BY <1>1
<1>4. Elems(t) = Elems(l) \cup Elems(m)
  <2>1. Elems(t) = {t[i] : i \in 1 .. a + b} /\ Elems(l) = {l[i] : i \in 1 .. a} /\ Elems(m) = {m[i] : i \in 1 .. b}
    BY <1>1, <1>2 DEF Elems
  <2>2. \A i \in 1 .. a + b : t[i] \in Elems(l) \cup Elems(m)
    BY <1>2, <1>3, <2>1
  <2>3. \A x \in Elems(t) : x \in Elems(l) \cup Elems(m)
    BY <2>1, <2>2
  <2>4. \A x \in Elems(l) : x \in Elems(t)
    BY <1>2, <2>1
  <2>5. \A x \in Elems(m) : x \in Elems(t)
    BY <1>2, <2>1
  <2> QED
    BY <2>3, <2>4, <2>5
<1>5. ASSUME NEW wrong, InOrder(l, wrong), InOrder(m, wrong),
             \A x \in Elems(l), y \in Elems(m) : <<x, y>> \notin wrong
      PROVE  InOrder(t, wrong)
  <2> SUFFICES ASSUME NEW i \in 1 .. a + b, NEW j \in 1 .. a + b, i < j
               PROVE  <<t[i], t[j]>> \notin wrong
    BY <1>1 DEF InOrder
  <2>1. CASE j \in 1 .. a
    <3>1. i \in 1 .. a
      BY <1>1, <2>1
    <3> QED
      BY <1>2, <1>5, <2>1, <3>1 DEF InOrder
  <2>2. CASE j \notin 1 .. a
    <3>1. j - a \in 1 .. b /\ t[j] = m[j - a]
      BY <1>3, <2>2
    <3>2. CASE i \in 1 .. a
      BY <1>2, <1>5, <3>1, <3>2 DEF Elems
    <3>3. CASE i \notin 1 .. a
      <4>1. i - a \in 1 .. b /\ t[i] = m[i - a] /\ i - a < j - a
        BY <1>1, <1>3, <3>3
      <4> QED
        BY <1>2, <1>5, <3>1, <4>1 DEF InOrder
    <3> QED
      BY <3>2, <3>3
  <2> QED
    BY <2>1, <2>2
<1>6. ASSUME NEW last, NEW first, EndsWith(l, last, first), first \notin Elems(m)
      PROVE  EndsWith(t, last, first)
  <2>1. PICK i \in 1 .. a : l[i] = last /\ \A j \in 1 .. a : i < j => l[j] # first
    BY <1>2, <1>6 DEF EndsWith
  <2>2. \A j \in 1 .. b : m[j] # first
    BY <1>2, <1>6 DEF Elems
  <2>3. \A j \in 1 .. a + b : i < j => t[j] # first
    BY <1>2, <1>3, <2>1, <2>2
  <2> QED
    BY <1>1, <1>2, <2>1, <2>3 DEF EndsWith
<1>7. ASSUME NEW last, NEW first, EndsWith(m, last, first)
      PROVE  EndsWith(t, last, first)
  <2>1. PICK i \in 1 .. b : m[i] = last /\ \A j \in 1 .. b : i < j => m[j] # first
    BY <1>2, <1>7 DEF EndsWith
  <2>2. ASSUME NEW j \in 1 .. a + b, a + i < j
        PROVE  t[j] # first
    <3>1. j - a \in 1 .. b /\ t[j] = m[j - a] /\ i < j - a
      BY <1>1, <1>3, <2>2
    <3> QED
      BY <2>1, <3>1
  <2> QED
    BY <1>1, <1>2, <2>1, <2>2 DEF EndsWith
<1> QED
  BY <1>1, <1>4, <1>5, <1>6, <1>7 DEF t

\* No request, or one
LEMMA Few ==
  /\ Elems(<<>>) = {} /\ \A wrong : InOrder(<<>>, wrong)
  /\ \A x : Elems(<<x>>) = {x} /\ \A wrong : InOrder(<<x>>, wrong)
  /\ \A x, first : x # first => EndsWith(<<x>>, x, first)
<1>1. \A i : i \in 1 .. 1 <=> i = 1
  OBVIOUS
<1>2. 1 .. 0 = {} /\ Len(<<>>) = 0
  OBVIOUS
<1>3. \A x : Len(<<x>>) = 1 /\ <<x>>[1] = x
  OBVIOUS
<1>4. ASSUME NEW x
      PROVE  Elems(<<x>>) = {x} /\ \A wrong : InOrder(<<x>>, wrong)
  BY <1>1, <1>3 DEF Elems, InOrder
<1>5. ASSUME NEW x, NEW first
      PROVE  EndsWith(<<x>>, x, first)
  BY <1>1, <1>3 DEF EndsWith
<1> QED
  BY <1>2, <1>4, <1>5 DEF Elems, InOrder
=============================================================================
