--------------------------- MODULE IoQueueProofs ---------------------------
(***************************************************************************)
(* What holds of IoQueue for any groups, transfer counts, error behaviours *)
(* and any limit of the line, checked by TLAPS.                            *)
(***************************************************************************)
EXTENDS IoQueue, SequenceTheorems, TLAPS

\* Groups that were let into the line have transfers (canEnqueue).
NoEmptyGroupPending == \A g \in ToSet(pendingGroups) : TransferCount[g] > 0

\* The inductive invariant: NeverStalls alone is not, because finishing a group
\* starts the next one only if that one has a transfer.
IInv == TypeOK /\ NeverStalls /\ NoEmptyGroupPending /\ FinishedOnce

-----------------------------------------------------------------------------
(* Sequences *)

LEMMA HeadIsElement ==
  ASSUME NEW S, NEW s \in Seq(S), s # <<>>
  PROVE  /\ Head(s) \in S
         /\ Head(s) \in ToSet(s)
         /\ Tail(s) \in Seq(S)
         /\ Len(Tail(s)) = Len(s) - 1
         /\ \A i \in 1 .. Len(s) - 1 : Tail(s)[i] = s[i + 1]
         /\ Head(s) = s[1]
         /\ ToSet(s) = {Head(s)} \cup ToSet(Tail(s))
<1>1. /\ Len(s) \in Nat
      /\ Len(s) >= 1
      /\ DOMAIN s = 1 .. Len(s)
  BY EmptySeq, LenProperties
<1>2. /\ Head(s) \in S
      /\ Head(s) = s[1]
      /\ Tail(s) \in Seq(S)
      /\ Len(Tail(s)) = Len(s) - 1
      /\ \A i \in 1 .. Len(Tail(s)) : Tail(s)[i] = s[i + 1]
  BY HeadTailProperties
<1>3. DOMAIN Tail(s) = 1 .. Len(s) - 1
  BY <1>2, LenProperties
<1>4. ASSUME NEW x \in ToSet(s), x # Head(s)
      PROVE  x \in ToSet(Tail(s))
  <2>1. PICK i \in 1 .. Len(s) : x = s[i]
    BY <1>1, <1>4 DEF ToSet
  <2>2. i # 1
    BY <2>1, <1>2, <1>4
  <2>3. i - 1 \in 1 .. Len(s) - 1 /\ Tail(s)[i - 1] = s[i]
    BY <2>1, <2>2, <1>1, <1>2
  <2> QED
    BY <2>1, <2>3, <1>3 DEF ToSet
<1>5. ToSet(Tail(s)) \subseteq ToSet(s)
  <2> SUFFICES ASSUME NEW i \in 1 .. Len(s) - 1
               PROVE  Tail(s)[i] \in ToSet(s)
    BY <1>3 DEF ToSet
  <2>1. i + 1 \in 1 .. Len(s) /\ Tail(s)[i] = s[i + 1]
    BY <1>1, <1>2
  <2> QED
    BY <2>1, <1>1 DEF ToSet
<1>6. Head(s) \in ToSet(s)
  BY <1>1, <1>2 DEF ToSet
<1> QED
  BY <1>2, <1>4, <1>5, <1>6

LEMMA AppendElements ==
  ASSUME NEW S, NEW s \in Seq(S), NEW e \in S
  PROVE  /\ Append(s, e) \in Seq(S)
         /\ Append(s, e) # <<>>
         /\ ToSet(Append(s, e)) = ToSet(s) \cup {e}
<1>1. /\ Append(s, e) \in Seq(S)
      /\ Len(Append(s, e)) = Len(s) + 1
      /\ \A i \in 1 .. Len(s) : Append(s, e)[i] = s[i]
      /\ Append(s, e)[Len(s) + 1] = e
  BY AppendProperties
<1>2. /\ Len(s) \in Nat
      /\ DOMAIN s = 1 .. Len(s)
      /\ DOMAIN Append(s, e) = 1 .. Len(s) + 1
  BY <1>1, LenProperties
<1>3. ToSet(Append(s, e)) \subseteq ToSet(s) \cup {e}
  BY <1>1, <1>2 DEF ToSet
<1>4. ToSet(s) \cup {e} \subseteq ToSet(Append(s, e))
  <2>1. \A i \in 1 .. Len(s) : i \in 1 .. Len(s) + 1
    BY <1>2
  <2>2. Len(s) + 1 \in 1 .. Len(s) + 1
    BY <1>2
  <2> QED
    BY <1>1, <1>2, <2>1, <2>2 DEF ToSet
<1> QED
  BY <1>1, <1>2, <1>3, <1>4, EmptySeq

\* Finishing the oldest group keeps a line and its reports free of repetitions.
LEMMA MoveHead ==
  ASSUME NEW S, NEW s \in Seq(S), NEW t \in Seq(S), s # <<>>, IsInjective(s \o t)
  PROVE  IsInjective(Tail(s) \o Append(t, Head(s)))
<1> DEFINE n == Len(s) + Len(t)
           r == Tail(s) \o Append(t, Head(s))
<1>1. /\ Len(s) \in Nat
      /\ Len(t) \in Nat
      /\ Len(s) >= 1
  BY EmptySeq, LenProperties
<1>2. /\ Head(s) = s[1]
      /\ Head(s) \in S
      /\ Tail(s) \in Seq(S)
      /\ Len(Tail(s)) = Len(s) - 1
      /\ \A i \in 1 .. Len(s) - 1 : Tail(s)[i] = s[i + 1]
  BY HeadIsElement
<1>3. /\ Append(t, Head(s)) \in Seq(S)
      /\ Len(Append(t, Head(s))) = Len(t) + 1
      /\ \A i \in 1 .. Len(t) : Append(t, Head(s))[i] = t[i]
      /\ Append(t, Head(s))[Len(t) + 1] = s[1]
  BY <1>2, AppendProperties
<1>4. /\ DOMAIN (s \o t) = 1 .. n
      /\ \A i \in 1 .. n : (s \o t)[i] = IF i <= Len(s) THEN s[i] ELSE t[i - Len(s)]
  BY ConcatProperties, LenProperties
<1>5. /\ DOMAIN r = 1 .. n
      /\ \A i \in 1 .. n : r[i] = IF i <= Len(s) - 1
                                  THEN Tail(s)[i]
                                  ELSE Append(t, Head(s))[i - (Len(s) - 1)]
  <2>1. Len(s) - 1 + (Len(t) + 1) = n
    BY <1>1
  <2> QED
    BY <2>1, <1>2, <1>3, ConcatProperties, LenProperties
<1>6. ASSUME NEW i \in 1 .. n
      PROVE  r[i] = (s \o t)[IF i < n THEN i + 1 ELSE 1]
  <2>1. CASE i <= Len(s) - 1
    BY <2>1, <1>1, <1>2, <1>4, <1>5
  <2>2. CASE i > Len(s) - 1 /\ i < n
    <3>1. i - (Len(s) - 1) \in 1 .. Len(t)
      BY <2>2, <1>1
    <3>2. r[i] = t[i - (Len(s) - 1)]
      BY <3>1, <2>2, <1>1, <1>3, <1>5
    <3> QED
      BY <3>2, <2>2, <1>1, <1>4
  <2>3. CASE i = n
    BY <2>3, <1>1, <1>3, <1>4, <1>5
  <2> QED
    BY <2>1, <2>2, <2>3, <1>1
<1>7. ASSUME NEW i \in 1 .. n, NEW j \in 1 .. n, r[i] = r[j]
      PROVE  i = j
  <2> DEFINE a == IF i < n THEN i + 1 ELSE 1
             b == IF j < n THEN j + 1 ELSE 1
  <2>1. a \in 1 .. n /\ b \in 1 .. n
    BY <1>1
  <2>2. (s \o t)[a] = (s \o t)[b]
    BY <1>6, <1>7
  <2>3. a = b
    BY <2>1, <2>2, <1>4 DEF IsInjective
  <2> QED
    BY <2>3, <1>1
<1> QED
  BY <1>5, <1>7 DEF IsInjective

\* So does finishing the whole line.
LEMMA MoveAll ==
  ASSUME NEW S, NEW s \in Seq(S), NEW t \in Seq(S), IsInjective(s \o t)
  PROVE  IsInjective(<<>> \o (t \o s))
<1> DEFINE n == Len(s) + Len(t)
           r == t \o s
           source(i) == IF i <= Len(t) THEN Len(s) + i ELSE i - Len(t)
<1>1. /\ Len(s) \in Nat
      /\ Len(t) \in Nat
  BY LenProperties
<1>2. /\ DOMAIN (s \o t) = 1 .. n
      /\ \A i \in 1 .. n : (s \o t)[i] = IF i <= Len(s) THEN s[i] ELSE t[i - Len(s)]
  BY ConcatProperties, LenProperties
<1>3. /\ r \in Seq(S)
      /\ DOMAIN r = 1 .. n
      /\ \A i \in 1 .. n : r[i] = IF i <= Len(t) THEN t[i] ELSE s[i - Len(t)]
  <2>1. Len(t) + Len(s) = n
    BY <1>1
  <2> QED
    BY <2>1, ConcatProperties, LenProperties
<1>4. ASSUME NEW i \in 1 .. n
      PROVE  source(i) \in 1 .. n /\ r[i] = (s \o t)[source(i)]
  <2>1. CASE i <= Len(t)
    <3>1. source(i) \in 1 .. n /\ (Len(s) + i) - Len(s) = i /\ ~(source(i) <= Len(s))
      BY <2>1, <1>1
    <3> QED
      BY <3>1, <2>1, <1>2, <1>3
  <2>2. CASE i > Len(t)
    <3>1. source(i) \in 1 .. n /\ source(i) <= Len(s) /\ source(i) = i - Len(t)
      BY <2>2, <1>1
    <3> QED
      BY <3>1, <2>2, <1>1, <1>2, <1>3
  <2> QED
    BY <2>1, <2>2, <1>1
<1>5. ASSUME NEW i \in 1 .. n, NEW j \in 1 .. n, r[i] = r[j]
      PROVE  i = j
  <2>1. source(i) = source(j)
    BY <1>2, <1>4, <1>5, ZenonT(30) DEF IsInjective
  <2> QED
    BY <2>1, <1>1
<1>6. <<>> \o r = r
  BY <1>3, ConcatEmptySeq
<1> QED
  BY <1>3, <1>5, <1>6 DEF IsInjective

\* So does a new group, at the end of the line or refused.
LEMMA NewElement ==
  ASSUME NEW S, NEW s \in Seq(S), NEW t \in Seq(S), NEW e \in S,
         IsInjective(s \o t), e \notin ToSet(s) \cup ToSet(t)
  PROVE  /\ IsInjective(Append(s, e) \o t)
         /\ IsInjective(s \o Append(t, e))
<1> DEFINE n == Len(s) + Len(t)
<1>1. /\ Len(s) \in Nat
      /\ Len(t) \in Nat
      /\ DOMAIN s = 1 .. Len(s)
      /\ DOMAIN t = 1 .. Len(t)
  BY LenProperties
<1>2. /\ DOMAIN (s \o t) = 1 .. n
      /\ \A i \in 1 .. n : (s \o t)[i] = IF i <= Len(s) THEN s[i] ELSE t[i - Len(s)]
  BY ConcatProperties, LenProperties
<1>3. ASSUME NEW i \in 1 .. n
      PROVE  (s \o t)[i] # e
  <2>1. CASE i <= Len(s)
    BY <2>1, <1>1, <1>2 DEF ToSet
  <2>2. CASE i > Len(s)
    <3>1. i - Len(s) \in 1 .. Len(t)
      BY <2>2, <1>1
    <3> QED
      BY <3>1, <2>2, <1>1, <1>2 DEF ToSet
  <2> QED
    BY <2>1, <2>2, <1>1
<1>4. IsInjective(Append(s, e) \o t)
  <2> DEFINE r == Append(s, e) \o t
             p == Len(s) + 1
             source(i) == IF i < p THEN i ELSE i - 1
  <2>1. /\ Append(s, e) \in Seq(S)
        /\ Len(Append(s, e)) = Len(s) + 1
        /\ \A i \in 1 .. Len(s) : Append(s, e)[i] = s[i]
        /\ Append(s, e)[Len(s) + 1] = e
    BY AppendProperties
  <2>2. /\ DOMAIN r = 1 .. n + 1
        /\ \A i \in 1 .. n + 1 : r[i] = IF i <= p THEN Append(s, e)[i] ELSE t[i - p]
    <3>1. Len(s) + 1 + Len(t) = n + 1
      BY <1>1
    <3> QED
      BY <3>1, <2>1, ConcatProperties, LenProperties
  <2>3. r[p] = e
    BY <2>1, <2>2, <1>1
  <2>4. ASSUME NEW i \in 1 .. n + 1, i # p
        PROVE  source(i) \in 1 .. n /\ r[i] = (s \o t)[source(i)]
    <3>1. CASE i < p
      BY <3>1, <2>1, <2>2, <1>1, <1>2
    <3>2. CASE i > p
      <4>1. source(i) \in 1 .. n /\ ~(source(i) <= Len(s)) /\ source(i) - Len(s) = i - p
        BY <3>2, <1>1
      <4> QED
        BY <4>1, <3>2, <2>2, <1>1, <1>2
    <3> QED
      BY <3>1, <3>2, <2>4, <1>1
  <2>5. ASSUME NEW i \in 1 .. n + 1, NEW j \in 1 .. n + 1, r[i] = r[j]
        PROVE  i = j
    <3>1. CASE i = p \/ j = p
      BY <3>1, <2>3, <2>4, <2>5, <1>3
    <3>2. CASE i # p /\ j # p
      <4> HIDE DEF source, r
      <4>1. /\ source(i) \in 1 .. n
            /\ source(j) \in 1 .. n
            /\ (s \o t)[source(i)] = (s \o t)[source(j)]
        BY <3>2, <2>4, <2>5
      <4>2. source(i) = source(j)
        BY <4>1, <1>2 DEF IsInjective
      <4> QED
        BY <4>2, <3>2, <1>1 DEF source
    <3> QED
      BY <3>1, <3>2
  <2> QED
    BY <2>2, <2>5 DEF IsInjective
<1>5. IsInjective(s \o Append(t, e))
  <2> DEFINE r == s \o Append(t, e)
  <2>1. /\ Append(t, e) \in Seq(S)
        /\ Len(Append(t, e)) = Len(t) + 1
        /\ \A i \in 1 .. Len(t) : Append(t, e)[i] = t[i]
        /\ Append(t, e)[Len(t) + 1] = e
    BY AppendProperties
  <2>2. /\ DOMAIN r = 1 .. n + 1
        /\ \A i \in 1 .. n + 1 : r[i] = IF i <= Len(s) THEN s[i] ELSE Append(t, e)[i - Len(s)]
    <3>1. Len(s) + (Len(t) + 1) = n + 1
      BY <1>1
    <3> QED
      BY <3>1, <2>1, ConcatProperties, LenProperties
  <2>3. r[n + 1] = e
    BY <2>1, <2>2, <1>1
  <2>4. ASSUME NEW i \in 1 .. n
        PROVE  r[i] = (s \o t)[i]
    <3>1. CASE i <= Len(s)
      BY <3>1, <2>2, <1>1, <1>2
    <3>2. CASE i > Len(s)
      <4>1. i - Len(s) \in 1 .. Len(t)
        BY <3>2, <1>1
      <4> QED
        BY <4>1, <3>2, <2>1, <2>2, <1>1, <1>2
    <3> QED
      BY <3>1, <3>2, <1>1
  <2>5. ASSUME NEW i \in 1 .. n + 1, NEW j \in 1 .. n + 1, r[i] = r[j]
        PROVE  i = j
    <3>1. CASE i = n + 1 \/ j = n + 1
      BY <3>1, <2>3, <2>4, <2>5, <1>1, <1>3
    <3>2. CASE i # n + 1 /\ j # n + 1
      <4>1. i \in 1 .. n /\ j \in 1 .. n
        BY <3>2, <1>1
      <4> QED
        BY <4>1, <2>4, <2>5, <1>2 DEF IsInjective
    <3> QED
      BY <3>1, <3>2
  <2> QED
    BY <2>2, <2>5 DEF IsInjective
<1> QED
  BY <1>4, <1>5

LEMMA ConcatElements ==
  ASSUME NEW S, NEW s \in Seq(S), NEW t \in Seq(S)
  PROVE  ToSet(s \o t) = ToSet(s) \cup ToSet(t)
<1> DEFINE n == Len(s) + Len(t)
<1>1. /\ Len(s) \in Nat /\ Len(t) \in Nat
      /\ DOMAIN s = 1 .. Len(s) /\ DOMAIN t = 1 .. Len(t)
      /\ DOMAIN (s \o t) = 1 .. n
      /\ \A i \in 1 .. n : (s \o t)[i] = IF i <= Len(s) THEN s[i] ELSE t[i - Len(s)]
  BY ConcatProperties, LenProperties
<1>2. ToSet(s \o t) \subseteq ToSet(s) \cup ToSet(t)
  <2> SUFFICES ASSUME NEW i \in 1 .. n
               PROVE  (s \o t)[i] \in ToSet(s) \cup ToSet(t)
    BY <1>1 DEF ToSet
  <2>1. CASE i <= Len(s)
    BY <2>1, <1>1 DEF ToSet
  <2>2. CASE ~(i <= Len(s))
    <3>1. i - Len(s) \in 1 .. Len(t)
      BY <2>2, <1>1
    <3> QED
      BY <3>1, <2>2, <1>1 DEF ToSet
  <2> QED
    BY <2>1, <2>2
<1>3. ToSet(s) \subseteq ToSet(s \o t)
  <2> SUFFICES ASSUME NEW i \in 1 .. Len(s)
               PROVE  s[i] \in ToSet(s \o t)
    BY <1>1 DEF ToSet
  <2>1. i \in 1 .. n /\ (s \o t)[i] = s[i]
    BY <1>1
  <2> QED
    BY <2>1, <1>1 DEF ToSet
<1>4. ToSet(t) \subseteq ToSet(s \o t)
  <2> SUFFICES ASSUME NEW i \in 1 .. Len(t)
               PROVE  t[i] \in ToSet(s \o t)
    BY <1>1 DEF ToSet
  <2>1. Len(s) + i \in 1 .. n /\ ~(Len(s) + i <= Len(s)) /\ Len(s) + i - Len(s) = i
    BY <1>1
  <2>2. (s \o t)[Len(s) + i] = t[i]
    BY <2>1, <1>1
  <2> QED
    BY <2>1, <2>2, <1>1 DEF ToSet
<1> QED
  BY <1>2, <1>3, <1>4

\* What is in a line is not in the reports, if line and reports are free of repetitions.
LEMMA NoCommonElement ==
  ASSUME NEW S, NEW s \in Seq(S), NEW t \in Seq(S), IsInjective(s \o t)
  PROVE  \A e \in ToSet(s) : e \notin ToSet(t)
<1> DEFINE n == Len(s) + Len(t)
<1>1. /\ Len(s) \in Nat /\ Len(t) \in Nat
      /\ DOMAIN s = 1 .. Len(s) /\ DOMAIN t = 1 .. Len(t)
      /\ DOMAIN (s \o t) = 1 .. n
      /\ \A i \in 1 .. n : (s \o t)[i] = IF i <= Len(s) THEN s[i] ELSE t[i - Len(s)]
  BY ConcatProperties, LenProperties
<1> SUFFICES ASSUME NEW i \in 1 .. Len(s), NEW j \in 1 .. Len(t), s[i] = t[j]
             PROVE  FALSE
  BY <1>1 DEF ToSet
<1>2. i \in 1 .. n /\ (s \o t)[i] = s[i]
  BY <1>1
<1>3. Len(s) + j \in 1 .. n /\ ~(Len(s) + j <= Len(s)) /\ Len(s) + j - Len(s) = j /\ Len(s) + j # i
  BY <1>1
<1>4. (s \o t)[Len(s) + j] = t[j]
  BY <1>1, <1>3
<1>5. i = Len(s) + j
  BY <1>1, <1>2, <1>3, <1>4 DEF IsInjective
<1> QED
  BY <1>3, <1>5

\* The second of a line is neither its first nor in the reports.
LEMMA SecondIsNew ==
  ASSUME NEW S, NEW s \in Seq(S), NEW t \in Seq(S), IsInjective(s \o t),
         s # <<>>, Tail(s) # <<>>
  PROVE  /\ Head(Tail(s)) \in ToSet(s)
         /\ Head(Tail(s)) # Head(s)
         /\ Head(Tail(s)) \notin ToSet(t)
<1> DEFINE n == Len(s) + Len(t)
<1>1. /\ Tail(s) \in Seq(S)
      /\ Len(Tail(s)) = Len(s) - 1
      /\ \A i \in 1 .. Len(s) - 1 : Tail(s)[i] = s[i + 1]
      /\ Head(s) = s[1]
      /\ ToSet(s) = {Head(s)} \cup ToSet(Tail(s))
  BY HeadIsElement
<1>2. Head(Tail(s)) = Tail(s)[1] /\ Head(Tail(s)) \in ToSet(Tail(s))
  BY <1>1, HeadIsElement
<1>3. Len(s) \in Nat /\ Len(Tail(s)) \in Nat \ {0} /\ Len(t) \in Nat
  BY <1>1, EmptySeq, LenProperties
<1>4. 1 \in 1 .. Len(s) - 1 /\ 1 \in 1 .. n /\ 2 \in 1 .. n /\ 2 <= Len(s)
  BY <1>1, <1>3
<1>5. Head(Tail(s)) = s[2]
  BY <1>1, <1>2, <1>4
<1>6. /\ DOMAIN (s \o t) = 1 .. n
      /\ \A i \in 1 .. n : (s \o t)[i] = IF i <= Len(s) THEN s[i] ELSE t[i - Len(s)]
  BY ConcatProperties, LenProperties
<1>7. (s \o t)[1] = s[1] /\ (s \o t)[2] = s[2]
  BY <1>3, <1>4, <1>6
<1>8. s[1] # s[2]
  BY <1>4, <1>6, <1>7 DEF IsInjective
<1> QED
  BY <1>1, <1>2, <1>5, <1>8, NoCommonElement

-----------------------------------------------------------------------------
(* The steps *)

\* tryStartNextIo leaves the line as it is or finishes the first group, and then
\* waits for an I/O exactly if a group is left.
LEMMA StartNext ==
  ASSUME NEW gs \in Seq(Group), NEW pos \in Nat, NEW fin \in Seq(Group),
         NEW posts \in Seq(Report),
         lastId \in Nat, working \in SUBSET Work, \A v, w \in working : v = w,
         \A g \in ToSet(gs) : TransferCount[g] > 0,
         tryStartNextIo(gs, pos, fin, posts)
  PROVE  /\ nextPosInCurrGroup' \in Nat
         /\ currIoId' \in Nat \cup {NoIo}
         /\ lastId' \in Nat
         /\ working' \in SUBSET Work
         /\ \A v, w \in working' : v = w
         /\ posted' \in Seq(Report)
         /\ isIoBusy' <=> pendingGroups' # <<>>
         /\ isIoBusy' => Awaited(currIoId)'
         /\ \/ pendingGroups' = gs /\ finished' = fin
            \/ /\ gs # <<>>
               /\ pendingGroups' = Tail(gs)
               /\ finished' = Append(fin, Head(gs))
<1> DEFINE over == exhausted(gs, pos)
           rest == IF over THEN Tail(gs) ELSE gs
           next == IF over THEN 0 ELSE pos
<1>1. /\ pendingGroups' = rest
      /\ finished' = IF over THEN Append(fin, Head(gs)) ELSE fin
      /\ \/ /\ rest # <<>>
            /\ nextPosInCurrGroup' = next + 1
            /\ sendAndReceive(Head(rest), posts)
         \/ /\ rest = <<>>
            /\ nextPosInCurrGroup' = next
            /\ currIoId' = NoIo
            /\ posted' = posts
            /\ UNCHANGED <<lastId, working>>
  BY DEF tryStartNextIo
<1>2. over => gs # <<>>
  BY DEF exhausted
<1>3. next \in Nat
  OBVIOUS
<1>4. CASE rest = <<>>
  <2>1. ~isIoBusy'
    BY <1>1, <1>4 DEF isIoBusy
  <2> QED
    BY <1>1, <1>2, <1>3, <1>4, <2>1
<1>5. CASE rest # <<>>
  <2> DEFINE id == lastId + 1
  <2>1. sendAndReceive(Head(rest), posts) /\ nextPosInCurrGroup' = next + 1
    BY <1>1, <1>5
  <2>2. Head(rest) \in Group
    <3>1. rest \in Seq(Group)
      BY <1>2, HeadIsElement
    <3> QED
      BY <3>1, <1>5, HeadIsElement
  <2>3. id \in Nat /\ id # NoIo
    BY QueueAssumption
  <2>4. lastId' = id /\ currIoId' = id
    BY <2>1 DEF sendAndReceive
  <2>5. CASE working' = {[id |-> id, group |-> Head(rest)]} /\ posted' = posts
    <3>1. Awaited(currIoId)'
      BY <2>4, <2>5 DEF Awaited
    <3> QED
      BY <1>1, <1>2, <1>3, <1>5, <2>1, <2>2, <2>3, <2>4, <2>5, <3>1 DEF isIoBusy, Work
  <2>6. CASE working' = {} /\ posted' = Append(posts, [id |-> id, error |-> TRUE])
    <3>1. [id |-> id, error |-> TRUE] \in Report
      BY <2>3 DEF Report
    <3>2. /\ posted' \in Seq(Report)
          /\ [id |-> id, error |-> TRUE] \in ToSet(posted')
      BY <2>6, <3>1, AppendElements
    <3>3. Awaited(currIoId)'
      BY <2>4, <3>2 DEF Awaited
    <3> QED
      BY <1>1, <1>2, <1>3, <1>5, <2>1, <2>3, <2>4, <2>6, <3>2, <3>3 DEF isIoBusy, Work
  <2> QED
    BY <2>1, <2>5, <2>6 DEF sendAndReceive
<1> QED
  BY <1>4, <1>5

\* The line and the reports after tryStartNextIo, from those before.
LEMMA StartNextLine ==
  ASSUME NEW gs \in Seq(Group), NEW fin \in Seq(Group),
         \A g \in ToSet(gs) : TransferCount[g] > 0,
         IsInjective(gs \o fin),
         \/ pendingGroups' = gs /\ finished' = fin
         \/ /\ gs # <<>>
            /\ pendingGroups' = Tail(gs)
            /\ finished' = Append(fin, Head(gs))
  PROVE  /\ pendingGroups' \in Seq(Group)
         /\ finished' \in Seq(Group)
         /\ NoEmptyGroupPending'
         /\ FinishedOnce'
<1>1. CASE pendingGroups' = gs /\ finished' = fin
  BY <1>1 DEF NoEmptyGroupPending, FinishedOnce
<1>2. CASE gs # <<>> /\ pendingGroups' = Tail(gs) /\ finished' = Append(fin, Head(gs))
  <2>1. /\ Tail(gs) \in Seq(Group)
        /\ Head(gs) \in Group
        /\ ToSet(Tail(gs)) \subseteq ToSet(gs)
    BY <1>2, HeadIsElement
  <2>2. Append(fin, Head(gs)) \in Seq(Group)
    BY <2>1, AppendElements
  <2>3. IsInjective(Tail(gs) \o Append(fin, Head(gs)))
    BY <1>2, MoveHead
  <2> QED
    BY <1>2, <2>1, <2>2, <2>3 DEF NoEmptyGroupPending, FinishedOnce
<1> QED
  BY <1>1, <1>2

\* abortAllGroups empties the line into the reports.
LEMMA AbortLine ==
  ASSUME TypeOK, FinishedOnce, abortAllGroups
  PROVE  /\ pendingGroups' = <<>>
         /\ pendingGroups' \in Seq(Group)
         /\ nextPosInCurrGroup' \in Nat
         /\ finished' \in Seq(Group)
         /\ NoEmptyGroupPending'
         /\ FinishedOnce'
<1>1. /\ pendingGroups' = <<>>
      /\ finished' = finished \o pendingGroups
      /\ nextPosInCurrGroup' \in Nat
  BY DEF abortAllGroups, TypeOK
<1>2. pendingGroups' \in Seq(Group) /\ finished' \in Seq(Group)
  BY <1>1, ConcatProperties, EmptySeq DEF TypeOK
<1>3. FinishedOnce'
  BY <1>1, MoveAll DEF TypeOK, FinishedOnce
<1>4. ToSet(<<>>) = {}
  BY DEF ToSet
<1> QED
  BY <1>1, <1>2, <1>3, <1>4 DEF NoEmptyGroupPending
-----------------------------------------------------------------------------
(* The invariant *)

LEMMA IInvInit == Init => IInv
<1> SUFFICES ASSUME Init
             PROVE  IInv
  OBVIOUS
<1>1. <<>> \in Seq(Group) /\ <<>> \in Seq(Report) /\ <<>> \in Seq(BOOLEAN)
  BY EmptySeq
<1>2. TypeOK
  BY <1>1 DEF Init, TypeOK
<1>3. ToSet(<<>>) = {} /\ <<>> \o <<>> = <<>> /\ IsInjective(<<>>)
  BY DEF ToSet, IsInjective
<1> QED
  BY <1>2, <1>3 DEF Init, IInv, NeverStalls, isIoBusy, NoEmptyGroupPending, FinishedOnce

LEMMA EnqueueStep ==
  ASSUME IInv, NEW g \in Group, enqueueTransferGroup(g)
  PROVE  IInv'
<1> USE DEF IInv
<1>1. g \notin ToSet(pendingGroups) \cup ToSet(finished) /\ UNCHANGED <<isOpen, outcome>>
  BY DEF enqueueTransferGroup, submitted
<1>2. /\ IsInjective(Append(pendingGroups, g) \o finished)
      /\ IsInjective(pendingGroups \o Append(finished, g))
  BY <1>1, NewElement DEF TypeOK, FinishedOnce
<1>3. /\ Append(pendingGroups, g) \in Seq(Group)
      /\ Append(pendingGroups, g) # <<>>
      /\ Append(finished, g) \in Seq(Group)
      /\ ToSet(Append(pendingGroups, g)) = ToSet(pendingGroups) \cup {g}
  <2>1. pendingGroups \in Seq(Group) /\ finished \in Seq(Group)
    BY DEF TypeOK
  <2>2. Append(finished, g) \in Seq(Group)
    BY <2>1, AppendElements
  <2> QED
    BY <2>1, <2>2, AppendElements
<1>4. CASE /\ finished' = Append(finished, g)
           /\ UNCHANGED <<pendingGroups, nextPosInCurrGroup, currIoId, lastId, working, posted>>
  <2>1. TypeOK'
    BY <1>1, <1>3, <1>4 DEF TypeOK
  <2>2. NeverStalls'
    BY <1>1, <1>4 DEF NeverStalls, Awaited, isIoBusy
  <2>3. NoEmptyGroupPending' /\ FinishedOnce'
    BY <1>2, <1>4 DEF NoEmptyGroupPending, FinishedOnce
  <2> QED
    BY <2>1, <2>2, <2>3
<1>5. ASSUME canEnqueue(g)
      PROVE  /\ isOpen
             /\ \A h \in ToSet(Append(pendingGroups, g)) : TransferCount[h] > 0
  BY <1>3, <1>5 DEF canEnqueue, NoEmptyGroupPending
<1>6. CASE /\ canEnqueue(g)
           /\ tryStartNextIo(Append(pendingGroups, g), nextPosInCurrGroup, finished, posted)
  <2> DEFINE gs == Append(pendingGroups, g)
  <2> HIDE DEF gs
  <2>1. gs \in Seq(Group) /\ IsInjective(gs \o finished)
    BY <1>2, <1>3 DEF gs
  <2>2. \A h \in ToSet(gs) : TransferCount[h] > 0
    BY <1>5, <1>6 DEF gs
  <2>3. tryStartNextIo(gs, nextPosInCurrGroup, finished, posted)
    BY <1>6 DEF gs
  <2>4. /\ nextPosInCurrGroup' \in Nat
        /\ currIoId' \in Nat \cup {NoIo}
        /\ lastId' \in Nat
        /\ working' \in SUBSET Work
        /\ \A v, w \in working' : v = w
        /\ posted' \in Seq(Report)
        /\ isIoBusy' <=> pendingGroups' # <<>>
        /\ isIoBusy' => Awaited(currIoId)'
        /\ \/ pendingGroups' = gs /\ finished' = finished
           \/ /\ gs # <<>>
              /\ pendingGroups' = Tail(gs)
              /\ finished' = Append(finished, Head(gs))
    BY <2>1, <2>2, <2>3, StartNext DEF TypeOK
  <2>5. /\ pendingGroups' \in Seq(Group)
        /\ finished' \in Seq(Group)
        /\ NoEmptyGroupPending'
        /\ FinishedOnce'
    BY <2>1, <2>2, <2>4, StartNextLine DEF TypeOK
  <2>6. TypeOK'
    BY <1>1, <2>4, <2>5 DEF TypeOK
  <2>7. NeverStalls'
    BY <1>1, <1>5, <1>6, <2>4 DEF NeverStalls
  <2> QED
    BY <2>5, <2>6, <2>7
<1>7. CASE /\ canEnqueue(g)
           /\ isIoBusy
           /\ pendingGroups' = Append(pendingGroups, g)
           /\ UNCHANGED <<nextPosInCurrGroup, currIoId, lastId, working, posted, finished>>
  <2>1. NoEmptyGroupPending' /\ FinishedOnce'
    BY <1>2, <1>5, <1>7 DEF NoEmptyGroupPending, FinishedOnce
  <2>2. TypeOK'
    BY <1>1, <1>3, <1>7 DEF TypeOK
  <2>3. NeverStalls'
    BY <1>1, <1>3, <1>5, <1>7 DEF NeverStalls, Awaited, isIoBusy
  <2> QED
    BY <2>1, <2>2, <2>3
<1> QED
  BY <1>4, <1>6, <1>7 DEF enqueueTransferGroup
LEMMA FinishedStep ==
  ASSUME IInv, onIoFinished
  PROVE  IInv'
<1> USE DEF IInv
<1> DEFINE report == Head(posted)
<1>1. posted # <<>> /\ UNCHANGED <<isOpen, outcome>>
  BY DEF onIoFinished
<1>2. /\ Tail(posted) \in Seq(Report)
      /\ ToSet(posted) = {report} \cup ToSet(Tail(posted))
  BY <1>1, HeadIsElement DEF TypeOK
<1>3. CASE /\ report.id # currIoId
           /\ posted' = Tail(posted)
           /\ UNCHANGED <<pendingGroups, nextPosInCurrGroup, currIoId, lastId, working, finished>>
  <2>1. TypeOK'
    BY <1>1, <1>2, <1>3 DEF TypeOK
  <2>2. Awaited(currIoId) => Awaited(currIoId)'
    BY <1>2, <1>3 DEF Awaited
  <2>3. NeverStalls'
    BY <1>1, <1>3, <2>2 DEF NeverStalls, isIoBusy
  <2> QED
    BY <1>3, <2>1, <2>3 DEF NoEmptyGroupPending, FinishedOnce
<1>4. CASE /\ report.id = currIoId
           /\ abortAllGroups
           /\ currIoId' = NoIo
           /\ posted' = Tail(posted)
           /\ UNCHANGED <<lastId, working>>
  <2>1. /\ pendingGroups' = <<>>
        /\ pendingGroups' \in Seq(Group)
        /\ nextPosInCurrGroup' \in Nat
        /\ finished' \in Seq(Group)
        /\ NoEmptyGroupPending'
        /\ FinishedOnce'
    BY <1>4, AbortLine
  <2>2. TypeOK'
    BY <1>1, <1>2, <1>4, <2>1 DEF TypeOK
  <2>3. NeverStalls'
    BY <1>4, <2>1 DEF NeverStalls, isIoBusy
  <2> QED
    BY <2>1, <2>2, <2>3
<1>5. ASSUME NEW gs \in Seq(Group), NEW pos \in Nat, NEW fin \in Seq(Group),
             IsInjective(gs \o fin),
             \A g \in ToSet(gs) : TransferCount[g] > 0,
             gs # <<>> => isOpen,
             tryStartNextIo(gs, pos, fin, Tail(posted))
      PROVE  IInv'
  <2>1. /\ nextPosInCurrGroup' \in Nat
        /\ currIoId' \in Nat \cup {NoIo}
        /\ lastId' \in Nat
        /\ working' \in SUBSET Work
        /\ \A v, w \in working' : v = w
        /\ posted' \in Seq(Report)
        /\ isIoBusy' <=> pendingGroups' # <<>>
        /\ isIoBusy' => Awaited(currIoId)'
        /\ \/ pendingGroups' = gs /\ finished' = fin
           \/ /\ gs # <<>>
              /\ pendingGroups' = Tail(gs)
              /\ finished' = Append(fin, Head(gs))
    BY <1>2, <1>5, StartNext DEF TypeOK
  <2>2. /\ pendingGroups' \in Seq(Group)
        /\ finished' \in Seq(Group)
        /\ NoEmptyGroupPending'
        /\ FinishedOnce'
    BY <1>5, <2>1, StartNextLine
  <2>3. TypeOK'
    BY <1>1, <2>1, <2>2 DEF TypeOK
  <2>4. NeverStalls'
    BY <1>1, <1>5, <2>1 DEF NeverStalls
  <2> QED
    BY <2>2, <2>3, <2>4
<1>6. CASE tryStartNextIo(pendingGroups, nextPosInCurrGroup, finished, Tail(posted))
  BY <1>5, <1>6 DEF TypeOK, NeverStalls, NoEmptyGroupPending, FinishedOnce
<1>7. CASE /\ report.id = currIoId
           /\ tryStartNextIo(Tail(pendingGroups), 0, Append(finished, Head(pendingGroups)),
                             Tail(posted))
  <2>1. pendingGroups # <<>> /\ isOpen
    <3>1. report \in Report
      BY <1>1, HeadIsElement DEF TypeOK
    <3>2. isIoBusy
      BY <1>7, <3>1, QueueAssumption DEF Report, isIoBusy
    <3> QED
      BY <3>2 DEF NeverStalls
  <2> DEFINE gs == Tail(pendingGroups)
             fin == Append(finished, Head(pendingGroups))
  <2>2. /\ gs \in Seq(Group)
        /\ Head(pendingGroups) \in Group
        /\ ToSet(gs) \subseteq ToSet(pendingGroups)
    BY <2>1, HeadIsElement DEF TypeOK
  <2>3. fin \in Seq(Group)
    BY <2>2, AppendElements DEF TypeOK
  <2>4. IsInjective(gs \o fin)
    BY <2>1, MoveHead DEF TypeOK, FinishedOnce
  <2>5. \A g \in ToSet(gs) : TransferCount[g] > 0
    BY <2>2 DEF NoEmptyGroupPending
  <2>6. tryStartNextIo(gs, 0, fin, Tail(posted))
    BY <1>7
  <2> HIDE DEF gs, fin
  <2> QED
    BY <1>5, <2>1, <2>2, <2>3, <2>4, <2>5, <2>6
<1> QED
  BY <1>3, <1>4, <1>6, <1>7 DEF onIoFinished

LEMMA AnswerStep ==
  ASSUME IInv, deviceAnswers
  PROVE  IInv'
<1> USE DEF IInv
<1>1. PICK w \in working, pass \in BOOLEAN :
        /\ working' = {}
        /\ outcome' = [outcome EXCEPT ![w.group] = Append(@, pass)]
        /\ posted' = Append(posted, [id |-> w.id, error |-> FALSE])
        /\ UNCHANGED <<isOpen, pendingGroups, nextPosInCurrGroup, currIoId, lastId, finished>>
  BY DEF deviceAnswers
<1> DEFINE report == [id |-> w.id, error |-> FALSE]
<1>2. w \in Work /\ w.id \in Nat /\ w.group \in Group
  BY DEF TypeOK, Work
<1>3. report \in Report
  BY <1>2 DEF Report
<1>4. posted' \in Seq(Report) /\ ToSet(posted') = ToSet(posted) \cup {report}
  BY <1>1, <1>3, AppendElements, ZenonT(30) DEF TypeOK
<1>5. outcome' \in [Group -> Seq(BOOLEAN)]
  <2>1. outcome[w.group] \in Seq(BOOLEAN)
    BY <1>2 DEF TypeOK
  <2>2. Append(outcome[w.group], pass) \in Seq(BOOLEAN)
    BY <2>1, AppendElements
  <2> QED
    BY <1>1, <1>2, <2>2 DEF TypeOK
<1>6. TypeOK'
  BY <1>1, <1>4, <1>5 DEF TypeOK
<1>7. ASSUME Awaited(currIoId)
      PROVE  Awaited(currIoId)'
  <2>1. CASE \E x \in working : x.id = currIoId
    <3>1. PICK x \in working : x.id = currIoId
      BY <2>1
    <3>2. x = w
      BY DEF TypeOK
    <3>3. report.id = currIoId' /\ report \in ToSet(posted')
      BY <1>1, <1>4, <3>1, <3>2
    <3> QED
      BY <3>3 DEF Awaited
  <2>2. CASE \E r \in ToSet(posted) : r.id = currIoId
    BY <1>1, <1>4, <2>2 DEF Awaited
  <2> QED
    BY <1>7, <2>1, <2>2 DEF Awaited
<1>8. NeverStalls'
  BY <1>1, <1>7 DEF NeverStalls, isIoBusy
<1> QED
  BY <1>1, <1>6, <1>8 DEF NoEmptyGroupPending, FinishedOnce
LEMMA DisconnectStep ==
  ASSUME IInv, deviceDisconnects
  PROVE  IInv'
<1> USE DEF IInv
<1>1. /\ isOpen' = FALSE
      /\ working' \in {working, {}}
      /\ currIoId' = NoIo
      /\ abortAllGroups
      /\ UNCHANGED <<lastId, posted, outcome>>
  BY DEF deviceDisconnects
<1>2. /\ pendingGroups' = <<>>
      /\ pendingGroups' \in Seq(Group)
      /\ nextPosInCurrGroup' \in Nat
      /\ finished' \in Seq(Group)
      /\ NoEmptyGroupPending'
      /\ FinishedOnce'
  BY <1>1, AbortLine
<1>3. TypeOK'
  BY <1>1, <1>2 DEF TypeOK
<1>4. NeverStalls'
  BY <1>1, <1>2 DEF NeverStalls, isIoBusy
<1> QED
  BY <1>2, <1>3, <1>4

LEMMA IInvNext == IInv /\ [Next]_vars => IInv'
<1> SUFFICES ASSUME IInv, [Next]_vars
             PROVE  IInv'
  OBVIOUS
<1>1. ASSUME NEW g \in Group, enqueueTransferGroup(g)
      PROVE  IInv'
  BY <1>1, EnqueueStep
<1>2. CASE onIoFinished
  BY <1>2, FinishedStep
<1>3. CASE deviceAnswers
  BY <1>3, AnswerStep
<1>4. CASE deviceDisconnects
  BY <1>4, DisconnectStep
<1>5. CASE UNCHANGED vars
  <2> USE <1>5 DEF vars
  <2>1. TypeOK'
    BY DEF IInv, TypeOK
  <2>2. NeverStalls'
    BY DEF IInv, NeverStalls, Awaited, isIoBusy
  <2> QED
    BY <2>1, <2>2 DEF IInv, NoEmptyGroupPending, FinishedOnce
<1> QED
  BY <1>1, <1>2, <1>3, <1>4, <1>5 DEF Next

\* The variables have their types and the device has one transfer at a time,
\* for any groups.
THEOREM TypeCorrect == Spec => []TypeOK
<1>1. IInv => TypeOK
  BY DEF IInv
<1> QED
  BY IInvInit, IInvNext, <1>1, PTL DEF Spec

\* The queue never stalls with groups pending, and never waits for a lost device.
THEOREM QueueNeverStalls == Spec => []NeverStalls
<1>1. IInv => NeverStalls
  BY DEF IInv
<1> QED
  BY IInvInit, IInvNext, <1>1, PTL DEF Spec

\* A group is reported finished once and never while it is pending.
THEOREM GroupsFinishOnce == Spec => []FinishedOnce
<1>1. IInv => FinishedOnce
  BY DEF IInv
<1> QED
  BY IInvInit, IInvNext, <1>1, PTL DEF Spec

-----------------------------------------------------------------------------
(* The refinement *)

LEMMA FifoStep ==
  ASSUME IInv, [Next]_vars
  PROVE  [Fifo!Next]_(Fifo!fifoVars)
<1> USE DEF IInv
<1>1. ASSUME NEW g \in Group, enqueueTransferGroup(g)
      PROVE  Fifo!Accept(g) \/ Fifo!Refuse(g)
  <2>1. g \notin Fifo!Known
    BY <1>1 DEF enqueueTransferGroup, submitted, ToSet, Fifo!Known, Fifo!ToSet
  <2>2. CASE finished' = Append(finished, g) /\ UNCHANGED pendingGroups
    BY <2>1, <2>2 DEF Fifo!Refuse
  <2>3. CASE pendingGroups' = Append(pendingGroups, g) /\ UNCHANGED finished
    BY <2>1, <2>3 DEF Fifo!Accept
  <2>4. CASE /\ ~isIoBusy
             /\ tryStartNextIo(Append(pendingGroups, g), nextPosInCurrGroup, finished, posted)
    <3>1. pendingGroups = <<>>
      BY <2>4 DEF NeverStalls
    <3>2. Append(pendingGroups, g) = <<g>> /\ Head(<<g>>) = g /\ Tail(<<g>>) = <<>>
      BY <3>1
    <3>3. \/ pendingGroups' = <<g>> /\ finished' = finished
          \/ pendingGroups' = <<>> /\ finished' = Append(finished, g)
      BY <2>4, <3>2 DEF tryStartNextIo
    <3>4. CASE pendingGroups' = <<g>> /\ finished' = finished
      BY <2>1, <3>2, <3>4 DEF Fifo!Accept
    <3>5. CASE pendingGroups' = <<>> /\ finished' = Append(finished, g)
      BY <2>1, <3>1, <3>5 DEF Fifo!Refuse
    <3> QED
      BY <3>3, <3>4, <3>5
  <2> QED
    BY <1>1, <2>2, <2>3, <2>4 DEF enqueueTransferGroup
<1>2. CASE onIoFinished
  <2>1. CASE UNCHANGED <<pendingGroups, finished>>
    BY <2>1 DEF Fifo!fifoVars
  <2>2. CASE abortAllGroups
    BY <2>2 DEF abortAllGroups, Fifo!Next, Fifo!FinishAll
  <2>3. CASE tryStartNextIo(pendingGroups, nextPosInCurrGroup, finished, Tail(posted))
    <3>1. \/ UNCHANGED <<pendingGroups, finished>>
          \/ /\ pendingGroups # <<>>
             /\ pendingGroups' = Tail(pendingGroups)
             /\ finished' = Append(finished, Head(pendingGroups))
      BY <2>3 DEF tryStartNextIo, exhausted
    <3> QED
      BY <3>1 DEF Fifo!fifoVars, Fifo!Next, Fifo!FinishOldest
  <2>4. CASE /\ posted # <<>>
             /\ Head(posted).id = currIoId
             /\ tryStartNextIo(Tail(pendingGroups), 0, Append(finished, Head(pendingGroups)),
                               Tail(posted))
    <3>1. Head(posted) \in Report
      BY <2>4, HeadIsElement DEF TypeOK
    <3>2. pendingGroups # <<>>
      BY <2>4, <3>1, QueueAssumption DEF Report, isIoBusy, NeverStalls
    <3>3. /\ Tail(pendingGroups) \in Seq(Group)
          /\ ToSet(Tail(pendingGroups)) \subseteq ToSet(pendingGroups)
      BY <3>2, HeadIsElement DEF TypeOK
    <3>4. ~exhausted(Tail(pendingGroups), 0)
      <4> SUFFICES ASSUME Tail(pendingGroups) # <<>>
                   PROVE  TransferCount[Head(Tail(pendingGroups))] > 0
        <5>1. \A g \in ToSet(pendingGroups) : TransferCount[g] \in Nat
          <6>1. ToSet(pendingGroups) \subseteq Group
            BY LenProperties DEF ToSet, TypeOK
          <6> QED
            BY <6>1, QueueAssumption
        <5>2. Tail(pendingGroups) # <<>> =>
                TransferCount[Head(Tail(pendingGroups))] \in Nat
          BY <3>3, <5>1, HeadIsElement
        <5> QED
          BY <5>2 DEF exhausted
      <4>1. Head(Tail(pendingGroups)) \in ToSet(pendingGroups)
        BY <3>3, HeadIsElement
      <4> QED
        BY <4>1 DEF NoEmptyGroupPending
    <3>5. /\ pendingGroups' = Tail(pendingGroups)
          /\ finished' = Append(finished, Head(pendingGroups))
      BY <2>4, <3>4 DEF tryStartNextIo
    <3> QED
      BY <3>2, <3>5 DEF Fifo!Next, Fifo!FinishOldest
  <2> QED
    BY <1>2, <2>1, <2>2, <2>3, <2>4 DEF onIoFinished
<1>3. CASE deviceAnswers
  BY <1>3 DEF deviceAnswers, Fifo!fifoVars
<1>4. CASE deviceDisconnects
  BY <1>4 DEF deviceDisconnects, abortAllGroups, Fifo!Next, Fifo!FinishAll
<1>5. CASE UNCHANGED vars
  BY <1>5 DEF vars, Fifo!fifoVars
<1> QED
  BY <1>1, <1>2, <1>3, <1>4, <1>5 DEF Next, Fifo!Next

\* The queue implements the first-in first-out line of GroupFifo: whatever the
\* device does, groups are reported in the order they were accepted in.
THEOREM QueueIsFifo == Spec => ImplementsFifo
<1>1. Init => Fifo!Init
  BY DEF Init, Fifo!Init
<1>2. IInv /\ [Next]_vars => [Fifo!Next]_(Fifo!fifoVars)
  BY FifoStep
<1> QED
  BY IInvInit, IInvNext, <1>1, <1>2, PTL DEF Spec, ImplementsFifo, Fifo!Spec

-----------------------------------------------------------------------------
(* The transfers of a group *)

\* Transfer i of the group is the one its error behaviour stops at.
Ends(g, i) ==
  \/ ErrorBehavior[g] = "STOP_ON_ERROR" /\ ~outcome[g][i]
  \/ ErrorBehavior[g] = "STOP_ON_FIRST_OK" /\ outcome[g][i]

\* Only the first group of the line and those that left it have been worked on.
Begun(g) == g \in ToSet(finished) \/ (pendingGroups # <<>> /\ g = Head(pendingGroups))

\* Ids are used once: nobody knows the next one yet.
OldIds ==
  /\ isIoBusy => currIoId <= lastId
  /\ \A w \in working : w.id <= lastId
  /\ \A r \in ToSet(posted) : r.id <= lastId

\* What the queue waits for is the transfer before m_nextPosInCurrGroup of the first group;
\* those before it did not end the group.
CurrentTransfer ==
  LET h == Head(pendingGroups) IN
  /\ ~isIoBusy => nextPosInCurrGroup = 0
  /\ isIoBusy =>
       /\ nextPosInCurrGroup \in 1 .. TransferCount[h]
       /\ \A i \in DOMAIN outcome[h] : i < nextPosInCurrGroup => ~Ends(h, i)
       /\ \A w \in working :
            /\ w.id = currIoId
            /\ w.group = h
            /\ nextPosInCurrGroup = Len(outcome[h]) + 1
            /\ \A r \in ToSet(posted) : r.id # currIoId
       /\ \A r \in ToSet(posted) :
            r.id = currIoId /\ ~r.error => nextPosInCurrGroup = Len(outcome[h])

\* The device works on no transfer of a group that has ended, also after a
\* disconnection the queue has forgotten it by.
WorkInTime ==
  /\ \A g \in Group : outcome[g] # <<>> => Begun(g)
  /\ \A w \in working : Begun(w.group) /\ ~RunsToItsEnd(w.group)

\* The inductive invariant of the transfers, on top of that of the groups.
TransferInv == OldIds /\ CurrentTransfer /\ WorkInTime

\* A group whose transfers so far were all evaluated, with none that ends it and some left
LEMMA RunsOn ==
  ASSUME TypeOK, NEW g \in Group, Len(outcome[g]) < TransferCount[g],
         \A i \in DOMAIN outcome[g] : ~Ends(g, i)
  PROVE  ~RunsToItsEnd(g)
<1>1. outcome[g] \in Seq(BOOLEAN) /\ TransferCount[g] \in Nat
  BY QueueAssumption DEF TypeOK
<1>2. Len(outcome[g]) # TransferCount[g]
  BY <1>1, LenProperties
<1> QED
  BY <1>2 DEF RunsToItsEnd, Ends

\* tryStartNextIo sends the next transfer of the first group if that one goes on, or the
\* first one of the group after it.
LEMMA StartNextTransfer ==
  ASSUME TypeOK, OldIds,
         NEW gs \in Seq(Group), NEW pos \in Nat, NEW fin \in Seq(Group),
         NEW posts \in Seq(Report),
         IsInjective(gs \o fin),
         \A g \in ToSet(gs) : TransferCount[g] > 0,
         \A r \in ToSet(posts) : r.id <= lastId,
         gs = <<>> => pos = 0,
         gs # <<>> => /\ pos = Len(outcome[Head(gs)])
                      /\ pos <= TransferCount[Head(gs)]
                      /\ \A i \in DOMAIN outcome[Head(gs)] : ~Ends(Head(gs), i),
         \A g \in Group : outcome[g] # <<>> => g \in ToSet(fin) \/ (gs # <<>> /\ g = Head(gs)),
         \A w \in working : /\ w.group \in ToSet(fin) \/ (gs # <<>> /\ w.group = Head(gs))
                            /\ ~RunsToItsEnd(w.group),
         outcome' = outcome,
         tryStartNextIo(gs, pos, fin, posts)
  PROVE  TransferInv'
<1> DEFINE over == exhausted(gs, pos)
           rest == IF over THEN Tail(gs) ELSE gs
           next == IF over THEN 0 ELSE pos
           h == Head(rest)
<1>1. /\ pendingGroups' = rest
      /\ finished' = IF over THEN Append(fin, Head(gs)) ELSE fin
      /\ \/ /\ rest # <<>>
            /\ nextPosInCurrGroup' = next + 1
            /\ sendAndReceive(h, posts)
         \/ /\ rest = <<>>
            /\ nextPosInCurrGroup' = next
            /\ currIoId' = NoIo
            /\ posted' = posts
            /\ UNCHANGED <<lastId, working>>
  BY DEF tryStartNextIo
<1>2. over => gs # <<>>
  BY DEF exhausted
<1>3. rest \in Seq(Group) /\ next \in Nat
  BY <1>2, HeadIsElement
<1>4. /\ over => rest = Tail(gs) /\ next = 0
      /\ ~over => /\ rest = gs
                  /\ next = pos
                  /\ gs # <<>> => ~(pos >= TransferCount[Head(gs)])
      /\ h = Head(rest)
  BY DEF exhausted
<1> HIDE DEF over, rest, next, h
<1>5. over => ToSet(finished') = ToSet(fin) \cup {Head(gs)}
  <2>1. ASSUME over
        PROVE  ToSet(Append(fin, Head(gs))) = ToSet(fin) \cup {Head(gs)}
    BY <1>2, <2>1, HeadIsElement, AppendElements
  <2> QED
    BY <1>1, <2>1
<1>6. ASSUME NEW g \in Group, g \in ToSet(fin) \/ (gs # <<>> /\ g = Head(gs))
      PROVE  Begun(g)'
  <2>1. CASE over
    BY <1>5, <1>6, <2>1 DEF Begun
  <2>2. CASE ~over
    BY <1>1, <1>4, <1>6, <2>2 DEF Begun
  <2> QED
    BY <2>1, <2>2
<1>7. ASSUME rest # <<>>
      PROVE  /\ h \in Group
             /\ next = Len(outcome[h])
             /\ next < TransferCount[h]
             /\ \A i \in DOMAIN outcome[h] : ~Ends(h, i)
             /\ ~RunsToItsEnd(h)
             /\ Begun(h)'
  <2>1. h \in Group /\ TransferCount[h] \in Nat
    BY <1>4, <1>3, <1>7, HeadIsElement, QueueAssumption
  <2>2. CASE ~over
    <3>1. next < TransferCount[h]
      BY <1>4, <2>1, <2>2, <1>7
    <3> QED
      BY <1>1, <1>4, <1>7, <2>1, <2>2, <3>1, RunsOn DEF Begun
  <2>3. CASE over
    <3>1. gs # <<>> /\ Tail(gs) # <<>> /\ h = Head(Tail(gs))
      BY <1>2, <1>4, <1>7, <2>3
    <3>2. h \in ToSet(gs) /\ h # Head(gs) /\ h \notin ToSet(fin)
      BY <3>1, SecondIsNew
    <3>3. outcome[h] = <<>>
      BY <2>1, <3>2
    <3>4. Len(outcome[h]) = 0 /\ DOMAIN outcome[h] = {} /\ TransferCount[h] > 0
      BY <3>2, <3>3, EmptySeq, LenProperties
    <3> QED
      BY <1>1, <1>4, <1>7, <2>1, <2>3, <3>4, RunsOn DEF Begun
  <2> QED
    BY <2>2, <2>3
<1>8. \A g \in Group : outcome'[g] # <<>> => Begun(g)'
  BY <1>6
<1>9. CASE rest = <<>>
  <2>1. /\ ~isIoBusy' /\ nextPosInCurrGroup' = 0 /\ posted' = posts
        /\ lastId' = lastId /\ working' = working
    <3>1. next = 0
      BY <1>4, <1>9
    <3> QED
      BY <1>1, <1>9, <3>1 DEF isIoBusy
  <2>2. \A w \in working' : Begun(w.group)' /\ ~RunsToItsEnd(w.group)'
    <3>1. \A w \in working : w.group \in Group
      BY DEF TypeOK, Work
    <3> QED
      BY <1>6, <2>1, <3>1 DEF RunsToItsEnd
  <2> QED
    BY <1>8, <2>1, <2>2 DEF TransferInv, OldIds, CurrentTransfer, WorkInTime
<1>10. CASE rest # <<>>
  <2> DEFINE id == lastId + 1
  <2>1. /\ nextPosInCurrGroup' = next + 1 /\ sendAndReceive(h, posts)
        /\ Head(pendingGroups') = h
    BY <1>1, <1>4, <1>10
  <2>2. lastId' = id /\ currIoId' = id /\ lastId \in Nat
    BY <2>1 DEF sendAndReceive, TypeOK
  <2>3. /\ h \in Group
        /\ next = Len(outcome[h])
        /\ next < TransferCount[h]
        /\ \A i \in DOMAIN outcome'[h] : ~Ends(h, i)'
        /\ ~RunsToItsEnd(h)'
        /\ Begun(h)'
    BY <1>7, <1>10 DEF Ends, RunsToItsEnd
  <2>4. nextPosInCurrGroup' \in 1 .. TransferCount[h] /\ nextPosInCurrGroup' = Len(outcome'[h]) + 1
    BY <1>3, <2>1, <2>3, QueueAssumption
  <2>5. \A r \in ToSet(posts) : r.id <= id /\ r.id # id
    <3>1. ToSet(posts) \subseteq Report
      BY LenProperties DEF ToSet
    <3>2. \A r \in ToSet(posts) : r.id \in Nat
      BY <3>1 DEF Report
    <3> QED
      BY <2>2, <3>2
  <2>6. isIoBusy'
    BY <2>2, QueueAssumption DEF isIoBusy
  <2>7. CASE working' = {[id |-> id, group |-> h]} /\ posted' = posts
    <3>1. OldIds'
      BY <2>2, <2>5, <2>7 DEF OldIds
    <3>2. CurrentTransfer'
      BY <2>1, <2>2, <2>3, <2>4, <2>5, <2>6, <2>7, SMTT(30) DEF CurrentTransfer
    <3>3. WorkInTime'
      BY <1>8, <2>3, <2>7 DEF WorkInTime
    <3> QED
      BY <3>1, <3>2, <3>3 DEF TransferInv
  <2>8. CASE working' = {} /\ posted' = Append(posts, [id |-> id, error |-> TRUE])
    <3> DEFINE report == [id |-> id, error |-> TRUE]
    <3>1. report \in Report /\ report.id = id /\ report.error = TRUE
      BY <2>2 DEF Report
    <3>2. working' = {} /\ posted' = Append(posts, report)
      BY <2>8
    <3> HIDE DEF report
    <3>3. ToSet(posted') = ToSet(posts) \cup {report}
      BY <3>1, <3>2, AppendElements
    <3>4. OldIds'
      BY <2>2, <2>5, <3>1, <3>2, <3>3 DEF OldIds
    <3>5. CurrentTransfer'
      BY <2>1, <2>2, <2>3, <2>4, <2>5, <2>6, <3>1, <3>2, <3>3 DEF CurrentTransfer
    <3>6. WorkInTime'
      BY <1>8, <3>2 DEF WorkInTime
    <3> QED
      BY <3>4, <3>5, <3>6 DEF TransferInv
  <2> QED
    BY <2>1, <2>7, <2>8 DEF sendAndReceive
<1> QED
  BY <1>9, <1>10

LEMMA TransferInit == Init => TransferInv
<1> SUFFICES ASSUME Init
             PROVE  TransferInv
  OBVIOUS
<1>1. ToSet(posted) = {}
  BY DEF Init, ToSet
<1> QED
  BY <1>1 DEF Init, TransferInv, OldIds, CurrentTransfer, WorkInTime, isIoBusy

LEMMA AbortTransfers ==
  ASSUME IInv, TransferInv, abortAllGroups, currIoId' = NoIo, lastId' = lastId,
         outcome' = outcome, working' \subseteq working, ToSet(posted') \subseteq ToSet(posted)
  PROVE  TransferInv'
<1> USE DEF IInv, TransferInv
<1>1. pendingGroups \in Seq(Group) /\ finished \in Seq(Group)
  BY DEF TypeOK
<1>2. ToSet(finished') = ToSet(finished) \cup ToSet(pendingGroups)
  BY <1>1, ConcatElements DEF abortAllGroups
<1>3. pendingGroups # <<>> => Head(pendingGroups) \in ToSet(pendingGroups)
  BY <1>1, HeadIsElement
<1>4. \A g \in Group : Begun(g) => Begun(g)'
  BY <1>2, <1>3 DEF Begun
<1>5. nextPosInCurrGroup' = 0 /\ ~isIoBusy'
  BY DEF abortAllGroups, NeverStalls, CurrentTransfer, isIoBusy
<1>6. \A w \in working : w.group \in Group
  BY DEF TypeOK, Work
<1>7. OldIds'
  BY <1>5 DEF OldIds
<1>8. CurrentTransfer'
  BY <1>5 DEF CurrentTransfer
<1>9. WorkInTime'
  BY <1>4, <1>6 DEF WorkInTime, RunsToItsEnd
<1> QED
  BY <1>7, <1>8, <1>9

LEMMA EnqueueTransfers ==
  ASSUME IInv, TransferInv, NEW g \in Group, enqueueTransferGroup(g)
  PROVE  TransferInv'
<1> USE DEF IInv, TransferInv
<1>1. /\ pendingGroups \in Seq(Group) /\ finished \in Seq(Group) /\ posted \in Seq(Report)
      /\ nextPosInCurrGroup \in Nat
  BY DEF TypeOK
<1>2. outcome' = outcome /\ g \notin ToSet(pendingGroups) /\ g \notin ToSet(finished)
  BY DEF enqueueTransferGroup, submitted
<1>3. \A w \in working : w.group \in Group
  BY DEF TypeOK, Work
<1>4. CASE /\ finished' = Append(finished, g)
           /\ UNCHANGED <<pendingGroups, nextPosInCurrGroup, currIoId, lastId, working, posted>>
  <2>1. ToSet(finished') = ToSet(finished) \cup {g}
    BY <1>1, <1>4, AppendElements
  <2>2. \A x \in Group : Begun(x) => Begun(x)'
    BY <1>4, <2>1 DEF Begun
  <2>3. OldIds' /\ CurrentTransfer'
    BY <1>2, <1>4 DEF OldIds, CurrentTransfer, isIoBusy, Ends
  <2>4. WorkInTime'
    BY <1>2, <1>3, <1>4, <2>2 DEF WorkInTime, RunsToItsEnd
  <2> QED
    BY <2>3, <2>4
<1>5. CASE /\ isIoBusy
           /\ pendingGroups' = Append(pendingGroups, g)
           /\ UNCHANGED <<nextPosInCurrGroup, currIoId, lastId, working, posted, finished>>
  <2>1. pendingGroups # <<>>
    BY <1>5 DEF NeverStalls
  <2>2. Head(pendingGroups') = Head(pendingGroups) /\ pendingGroups' # <<>>
    <3>1. Len(pendingGroups) \in Nat \ {0}
      BY <1>1, <2>1, EmptySeq, LenProperties
    <3>2. 1 \in 1 .. Len(pendingGroups)
      BY <3>1
    <3>3. /\ pendingGroups' \in Seq(Group) /\ pendingGroups' # <<>>
          /\ pendingGroups'[1] = pendingGroups[1]
      BY <1>1, <1>5, <3>2, AppendProperties, AppendElements
    <3> QED
      BY <1>1, <2>1, <3>3, HeadIsElement
  <2>3. \A x \in Group : Begun(x) => Begun(x)'
    BY <1>5, <2>2 DEF Begun
  <2>4. OldIds' /\ CurrentTransfer'
    BY <1>2, <1>5, <2>2 DEF OldIds, CurrentTransfer, isIoBusy, Ends
  <2>5. WorkInTime'
    BY <1>2, <1>3, <1>5, <2>3 DEF WorkInTime, RunsToItsEnd
  <2> QED
    BY <2>4, <2>5
<1>6. CASE /\ canEnqueue(g)
           /\ ~isIoBusy
           /\ tryStartNextIo(Append(pendingGroups, g), nextPosInCurrGroup, finished, posted)
  <2> DEFINE gs == Append(pendingGroups, g)
  <2>1. pendingGroups = <<>> /\ nextPosInCurrGroup = 0
    BY <1>6 DEF NeverStalls, CurrentTransfer
  <2>2. gs = <<g>> /\ Head(gs) = g /\ gs \in Seq(Group) /\ gs # <<>> /\ ToSet(gs) = {g}
    BY <1>1, <2>1, AppendElements DEF ToSet
  <2>3. IsInjective(gs \o finished)
    BY <1>1, <1>2, NewElement DEF FinishedOnce
  <2>4. outcome[g] = <<>>
    BY <1>2, <2>1 DEF WorkInTime, Begun
  <2>5. Len(outcome[g]) = 0 /\ DOMAIN outcome[g] = {} /\ TransferCount[g] \in Nat
    BY <2>4, QueueAssumption
  <2>6. \A x \in Group : outcome[x] # <<>> => x \in ToSet(finished)
    BY <2>1 DEF WorkInTime, Begun
  <2>7. \A w \in working : w.group \in ToSet(finished) /\ ~RunsToItsEnd(w.group)
    BY <2>1 DEF WorkInTime, Begun
  <2>8. \A x \in ToSet(gs) : TransferCount[x] > 0
    BY <1>6, <2>2 DEF canEnqueue
  <2>9. \A r \in ToSet(posted) : r.id <= lastId
    BY DEF OldIds
  <2>10. tryStartNextIo(gs, nextPosInCurrGroup, finished, posted)
    BY <1>6
  <2>11. /\ nextPosInCurrGroup = Len(outcome[Head(gs)])
         /\ nextPosInCurrGroup <= TransferCount[Head(gs)]
         /\ \A i \in DOMAIN outcome[Head(gs)] : ~Ends(Head(gs), i)
    BY <2>1, <2>2, <2>5
  <2> HIDE DEF gs
  <2> QED
    BY <1>1, <1>2, <2>2, <2>3, <2>6, <2>7, <2>8, <2>9, <2>10, <2>11, StartNextTransfer
<1> QED
  BY <1>4, <1>5, <1>6 DEF enqueueTransferGroup

\* The report the queue waits for ends the transfer before m_nextPosInCurrGroup.
LEMMA CurrentReport ==
  ASSUME IInv, TransferInv, posted # <<>>, Head(posted).id = currIoId, ~Head(posted).error
  PROVE  /\ pendingGroups # <<>>
         /\ Head(pendingGroups) \in ToSet(pendingGroups)
         /\ Head(pendingGroups) \in Group
         /\ nextPosInCurrGroup = Len(outcome[Head(pendingGroups)])
         /\ nextPosInCurrGroup \in 1 .. TransferCount[Head(pendingGroups)]
         /\ nextPosInCurrGroup \in DOMAIN outcome[Head(pendingGroups)]
         /\ \A i \in DOMAIN outcome[Head(pendingGroups)] :
              i < nextPosInCurrGroup => ~Ends(Head(pendingGroups), i)
         /\ \A w \in working : FALSE
<1> USE DEF IInv, TransferInv
<1> DEFINE report == Head(posted)
           h == Head(pendingGroups)
<1>1. report \in Report /\ report \in ToSet(posted)
  BY HeadIsElement DEF TypeOK
<1>2. isIoBusy
  BY <1>1, QueueAssumption DEF isIoBusy, Report
<1>3. pendingGroups # <<>>
  BY <1>2 DEF NeverStalls
<1>4. h \in ToSet(pendingGroups) /\ h \in Group
  BY <1>3, HeadIsElement DEF TypeOK
<1>5. /\ nextPosInCurrGroup = Len(outcome[h])
      /\ nextPosInCurrGroup \in 1 .. TransferCount[h]
      /\ \A i \in DOMAIN outcome[h] : i < nextPosInCurrGroup => ~Ends(h, i)
      /\ \A w \in working : FALSE
  BY <1>1, <1>2 DEF CurrentTransfer
<1>6. outcome[h] \in Seq(BOOLEAN) /\ TransferCount[h] \in Nat
  BY <1>4, QueueAssumption DEF TypeOK
<1>7. nextPosInCurrGroup \in DOMAIN outcome[h]
  BY <1>5, <1>6, LenProperties
<1> QED
  BY <1>3, <1>4, <1>5, <1>7

\* canContinueCurrentGroup asks whether the transfer evaluated last ends the group.
LEMMA ContinueUnlessItEnds ==
  ASSUME nextPosInCurrGroup \in DOMAIN outcome[Head(pendingGroups)],
         Head(pendingGroups) \in Group
  PROVE  canContinueCurrentGroup <=> ~Ends(Head(pendingGroups), nextPosInCurrGroup)
<1>1. ErrorBehavior[Head(pendingGroups)] \in Behavior
  BY QueueAssumption
<1> QED
  BY <1>1 DEF canContinueCurrentGroup, checkCurrentResponsePassed, Ends, Behavior

LEMMA FinishedTransfers ==
  ASSUME IInv, TransferInv, onIoFinished
  PROVE  TransferInv'
<1> USE DEF IInv, TransferInv
<1> DEFINE report == Head(posted)
           h == Head(pendingGroups)
           posts == Tail(posted)
<1>1. /\ pendingGroups \in Seq(Group) /\ finished \in Seq(Group) /\ posted \in Seq(Report)
      /\ nextPosInCurrGroup \in Nat
      /\ posted # <<>> /\ outcome' = outcome
  BY DEF TypeOK, onIoFinished
<1>2. posts \in Seq(Report) /\ ToSet(posts) \subseteq ToSet(posted)
  BY <1>1, HeadIsElement
<1>3. \A r \in ToSet(posts) : r.id <= lastId
  BY <1>2 DEF OldIds
<1>4. \A w \in working : w.group \in Group
  BY DEF TypeOK, Work
<1>5. CASE /\ report.id # currIoId
           /\ posted' = posts
           /\ UNCHANGED <<pendingGroups, nextPosInCurrGroup, currIoId, lastId, working, finished>>
  <2>1. OldIds' /\ CurrentTransfer'
    BY <1>1, <1>2, <1>5 DEF OldIds, CurrentTransfer, isIoBusy, Ends
  <2>2. WorkInTime'
    BY <1>1, <1>4, <1>5 DEF WorkInTime, Begun, RunsToItsEnd
  <2> QED
    BY <2>1, <2>2
<1>6. CASE /\ abortAllGroups
           /\ currIoId' = NoIo
           /\ posted' = posts
           /\ UNCHANGED <<lastId, working>>
  BY <1>1, <1>2, <1>6, AbortTransfers
<1>7. CASE /\ report.id = currIoId /\ ~report.error /\ canContinueCurrentGroup
           /\ tryStartNextIo(pendingGroups, nextPosInCurrGroup, finished, posts)
  <2>1. /\ pendingGroups # <<>> /\ h \in Group
        /\ nextPosInCurrGroup = Len(outcome[h])
        /\ nextPosInCurrGroup \in 1 .. TransferCount[h]
        /\ nextPosInCurrGroup \in DOMAIN outcome[h]
        /\ \A i \in DOMAIN outcome[h] : i < nextPosInCurrGroup => ~Ends(h, i)
        /\ \A w \in working : FALSE
    BY <1>1, <1>7, CurrentReport
  <2>2. ~Ends(h, nextPosInCurrGroup)
    BY <1>7, <2>1, ContinueUnlessItEnds
  <2>3. \A i \in DOMAIN outcome[h] : ~Ends(h, i)
    <3>1. outcome[h] \in Seq(BOOLEAN)
      BY <2>1 DEF TypeOK
    <3>2. DOMAIN outcome[h] = 1 .. nextPosInCurrGroup
      BY <2>1, <3>1, LenProperties
    <3>3. \A i \in 1 .. nextPosInCurrGroup : i < nextPosInCurrGroup \/ i = nextPosInCurrGroup
      BY <1>1
    <3> QED
      BY <2>1, <2>2, <3>2, <3>3
  <2>4. nextPosInCurrGroup <= TransferCount[h]
    BY <2>1
  <2>5. \A g \in Group : outcome[g] # <<>> =>
          g \in ToSet(finished) \/ (pendingGroups # <<>> /\ g = h)
    BY DEF WorkInTime, Begun
  <2>6. \A r \in ToSet(posts) : r.id <= lastId
    BY <1>3
  <2>7. IsInjective(pendingGroups \o finished) /\ \A g \in ToSet(pendingGroups) : TransferCount[g] > 0
    BY DEF FinishedOnce, NoEmptyGroupPending
  <2>8. tryStartNextIo(pendingGroups, nextPosInCurrGroup, finished, posts)
    BY <1>7
  <2> HIDE DEF posts
  <2> QED
    BY <1>1, <1>2, <2>1, <2>3, <2>4, <2>5, <2>6, <2>7, <2>8, StartNextTransfer
<1>8. CASE /\ report.id = currIoId /\ ~report.error /\ ~canContinueCurrentGroup
           /\ tryStartNextIo(Tail(pendingGroups), 0, Append(finished, h), posts)
  <2> DEFINE gs == Tail(pendingGroups)
             fin == Append(finished, h)
  <2>1. pendingGroups # <<>> /\ h \in Group /\ \A w \in working : FALSE
    BY <1>1, <1>8, CurrentReport
  <2>2. /\ gs \in Seq(Group) /\ fin \in Seq(Group)
        /\ ToSet(fin) = ToSet(finished) \cup {h}
        /\ ToSet(pendingGroups) = {h} \cup ToSet(gs)
    BY <1>1, <2>1, HeadIsElement, AppendElements
  <2>3. IsInjective(gs \o fin)
    BY <1>1, <2>1, MoveHead DEF FinishedOnce
  <2>4. \A g \in ToSet(gs) : TransferCount[g] > 0
    BY <2>2 DEF NoEmptyGroupPending
  <2>5. \A g \in Group : outcome[g] # <<>> => g \in ToSet(fin)
    BY <2>2 DEF WorkInTime, Begun
  <2>6. gs # <<>> => /\ 0 = Len(outcome[Head(gs)])
                     /\ 0 <= TransferCount[Head(gs)]
                     /\ \A i \in DOMAIN outcome[Head(gs)] : ~Ends(Head(gs), i)
    <3> SUFFICES ASSUME gs # <<>>
                 PROVE  /\ 0 = Len(outcome[Head(gs)])
                        /\ 0 <= TransferCount[Head(gs)]
                        /\ DOMAIN outcome[Head(gs)] = {}
      OBVIOUS
    <3>1. Head(gs) \in ToSet(pendingGroups) /\ Head(gs) # h /\ Head(gs) \notin ToSet(finished)
      BY <1>1, <2>1, SecondIsNew DEF FinishedOnce
    <3>2. Head(gs) \in Group
      BY <2>2, HeadIsElement
    <3>3. outcome[Head(gs)] = <<>>
      BY <3>1, <3>2 DEF WorkInTime, Begun
    <3>4. TransferCount[Head(gs)] \in Nat
      BY <3>2, QueueAssumption
    <3> HIDE DEF gs
    <3> QED
      BY <3>3, <3>4
  <2>7. tryStartNextIo(gs, 0, fin, posts)
    BY <1>8
  <2>8. \A r \in ToSet(posts) : r.id <= lastId
    BY <1>3
  <2>9. gs = <<>> => 0 = 0
    OBVIOUS
  <2>10. 0 \in Nat
    OBVIOUS
  <2> HIDE DEF gs, fin, posts
  <2> QED
    BY <1>1, <1>2, <2>1, <2>2, <2>3, <2>4, <2>5, <2>6, <2>7, <2>8, <2>10, StartNextTransfer
<1> QED
  BY <1>5, <1>6, <1>7, <1>8 DEF onIoFinished

LEMMA AnswerTransfers ==
  ASSUME IInv, TransferInv, deviceAnswers
  PROVE  TransferInv'
<1> USE DEF IInv, TransferInv
<1>1. PICK w \in working, pass \in BOOLEAN :
        /\ working' = {}
        /\ outcome' = [outcome EXCEPT ![w.group] = Append(@, pass)]
        /\ posted' = Append(posted, [id |-> w.id, error |-> FALSE])
        /\ UNCHANGED <<isOpen, pendingGroups, nextPosInCurrGroup, currIoId, lastId, finished>>
  BY DEF deviceAnswers
<1> DEFINE o == outcome[w.group]
           report == [id |-> w.id, error |-> FALSE]
<1>2. w.group \in Group /\ w.id \in Nat /\ w.id <= lastId
  BY DEF TypeOK, Work, OldIds
<1>3. /\ outcome \in [Group -> Seq(BOOLEAN)]
      /\ o \in Seq(BOOLEAN)
      /\ outcome'[w.group] = Append(o, pass)
      /\ \A g \in Group : g # w.group => outcome'[g] = outcome[g]
  BY <1>1, <1>2 DEF TypeOK
<1>4. /\ Len(outcome'[w.group]) = Len(o) + 1
      /\ \A i \in 1 .. Len(o) : outcome'[w.group][i] = o[i]
      /\ DOMAIN o = 1 .. Len(o)
      /\ DOMAIN outcome'[w.group] = 1 .. Len(o) + 1
      /\ Len(o) \in Nat
  BY <1>3, AppendProperties, LenProperties
<1>5. ToSet(posted') = ToSet(posted) \cup {report} /\ report.id = w.id
  <2>1. report \in Report
    BY <1>2 DEF Report
  <2>2. posted' = Append(posted, report) /\ posted \in Seq(Report) /\ report.id = w.id
    BY <1>1 DEF TypeOK
  <2> HIDE DEF report
  <2> QED
    BY <2>1, <2>2, AppendElements
<1> HIDE DEF report, o
<1>6. OldIds'
  BY <1>1, <1>2, <1>5 DEF OldIds, isIoBusy
<1>7. CurrentTransfer'
  <2>1. CASE ~isIoBusy
    BY <1>1, <2>1 DEF CurrentTransfer, isIoBusy
  <2>2. CASE isIoBusy
    <3>1. /\ w.id = currIoId
          /\ w.group = Head(pendingGroups)
          /\ nextPosInCurrGroup = Len(o) + 1
          /\ nextPosInCurrGroup \in 1 .. TransferCount[w.group]
          /\ \A i \in DOMAIN o : i < nextPosInCurrGroup => ~Ends(w.group, i)
      BY <2>2 DEF CurrentTransfer, o
    <3>2. \A i \in DOMAIN outcome'[w.group] : i < nextPosInCurrGroup => ~Ends(w.group, i)'
      <4> SUFFICES ASSUME NEW i \in 1 .. Len(o) + 1, i < nextPosInCurrGroup
                   PROVE  ~Ends(w.group, i)'
        BY <1>4
      <4>1. i \in 1 .. Len(o)
        BY <1>4, <3>1
      <4>2. outcome'[w.group][i] = outcome[w.group][i] /\ ~Ends(w.group, i)
        BY <1>4, <3>1, <4>1 DEF o
      <4> QED
        BY <4>2 DEF Ends
    <3> QED
      BY <1>1, <1>4, <3>1, <3>2 DEF CurrentTransfer, isIoBusy
  <2> QED
    BY <2>1, <2>2
<1>8. WorkInTime'
  <2>1. \A g \in Group : Begun(g) => Begun(g)'
    BY <1>1 DEF Begun
  <2>2. Begun(w.group)
    BY DEF WorkInTime
  <2> QED
    BY <1>1, <1>2, <1>3, <2>1, <2>2 DEF WorkInTime
<1> QED
  BY <1>6, <1>7, <1>8

LEMMA TransferNext == IInv /\ TransferInv /\ [Next]_vars => TransferInv'
<1> SUFFICES ASSUME IInv, TransferInv, [Next]_vars
             PROVE  TransferInv'
  OBVIOUS
<1>1. ASSUME NEW g \in Group, enqueueTransferGroup(g)
      PROVE  TransferInv'
  BY <1>1, EnqueueTransfers
<1>2. CASE onIoFinished
  BY <1>2, FinishedTransfers
<1>3. CASE deviceAnswers
  BY <1>3, AnswerTransfers
<1>4. CASE deviceDisconnects
  BY <1>4, AbortTransfers DEF deviceDisconnects
<1>5. CASE UNCHANGED vars
  <2> USE <1>5 DEF vars, TransferInv
  <2>1. OldIds' /\ CurrentTransfer'
    BY DEF OldIds, CurrentTransfer, isIoBusy, Ends
  <2>2. WorkInTime'
    BY DEF WorkInTime, Begun, RunsToItsEnd
  <2> QED
    BY <2>1, <2>2
<1> QED
  BY <1>1, <1>2, <1>3, <1>4, <1>5 DEF Next

\* The answer the queue waits for is the one to the transfer it evaluates next.
THEOREM AnswersBelong == Spec => []AnswerBelongsToCurrentTransfer
<1>1. IInv /\ TransferInv => AnswerBelongsToCurrentTransfer
  <2> SUFFICES ASSUME IInv, TransferInv, NEW w \in working, w.id = currIoId
               PROVE  /\ w.group = Head(pendingGroups)
                      /\ nextPosInCurrGroup = Len(outcome[w.group]) + 1
    BY DEF AnswerBelongsToCurrentTransfer
  <2>1. isIoBusy
    BY QueueAssumption DEF isIoBusy, IInv, TypeOK, Work
  <2> QED
    BY <2>1 DEF TransferInv, CurrentTransfer
<1> QED
  BY IInvInit, IInvNext, TransferInit, TransferNext, <1>1, PTL DEF Spec

\* onIoFinished reports a group only when its error behaviour ends it or its last
\* transfer is evaluated.
LEMMA FinishedAtTheEnd ==
  ASSUME IInv, TransferInv, onIoFinished, ~Head(posted).error,
         NEW g \in ToSet(pendingGroups), g \in ToSet(finished')
  PROVE  RunsToItsEnd(g)
<1> USE DEF IInv, TransferInv
<1> DEFINE report == Head(posted)
           h == Head(pendingGroups)
<1>1. pendingGroups \in Seq(Group) /\ finished \in Seq(Group) /\ g \notin ToSet(finished)
  BY NoCommonElement DEF TypeOK, FinishedOnce
<1>2. posted # <<>>
  BY DEF onIoFinished
<1>3. CASE UNCHANGED finished
  BY <1>1, <1>3
<1>4. CASE /\ report.id = currIoId /\ canContinueCurrentGroup
           /\ tryStartNextIo(pendingGroups, nextPosInCurrGroup, finished, Tail(posted))
  <2>1. /\ h \in Group
        /\ nextPosInCurrGroup = Len(outcome[h])
        /\ nextPosInCurrGroup \in 1 .. TransferCount[h]
    BY <1>2, <1>4, CurrentReport
  <2>2. finished' = finished \/ (exhausted(pendingGroups, nextPosInCurrGroup)
                                 /\ finished' = Append(finished, h))
    BY <1>4 DEF tryStartNextIo
  <2>3. /\ g = h
        /\ nextPosInCurrGroup >= TransferCount[h]
    <3>1. ToSet(Append(finished, h)) = ToSet(finished) \cup {h}
      BY <1>1, <2>1, AppendElements
    <3>2. /\ finished' = Append(finished, h)
          /\ exhausted(pendingGroups, nextPosInCurrGroup)
      BY <1>1, <2>2
    <3> QED
      BY <1>1, <3>1, <3>2 DEF exhausted
  <2>4. Len(outcome[h]) = TransferCount[h]
    BY <2>1, <2>3, QueueAssumption
  <2> QED
    BY <2>3, <2>4 DEF RunsToItsEnd
<1>5. CASE /\ report.id = currIoId /\ ~canContinueCurrentGroup
           /\ tryStartNextIo(Tail(pendingGroups), 0, Append(finished, h), Tail(posted))
  <2> DEFINE gs == Tail(pendingGroups)
  <2>1. /\ pendingGroups # <<>> /\ h \in Group
        /\ nextPosInCurrGroup \in DOMAIN outcome[h]
    BY <1>2, <1>5, CurrentReport
  <2>2. Ends(h, nextPosInCurrGroup)
    BY <1>5, <2>1, ContinueUnlessItEnds
  <2>3. ~exhausted(gs, 0)
    <3> SUFFICES ASSUME gs # <<>>
                 PROVE  ~(0 >= TransferCount[Head(gs)])
      BY DEF exhausted
    <3>1. gs \in Seq(Group) /\ Head(gs) \in ToSet(pendingGroups) /\ Head(gs) \in Group
      BY <1>1, <2>1, HeadIsElement
    <3>2. TransferCount[Head(gs)] > 0 /\ TransferCount[Head(gs)] \in Nat
      BY <3>1, QueueAssumption DEF NoEmptyGroupPending
    <3> QED
      BY <3>2
  <2>4. finished' = Append(finished, h)
    BY <1>5, <2>3 DEF tryStartNextIo
  <2>5. g = h
    BY <1>1, <2>1, <2>4, AppendElements
  <2> QED
    BY <2>1, <2>2, <2>5 DEF Ends, RunsToItsEnd
<1> QED
  BY <1>3, <1>4, <1>5 DEF onIoFinished

\* A group runs just to its end: no transfer follows the one that ends it, and a group
\* that finishes on an open device without a device error has skipped none.
THEOREM GroupsRunToTheirEnd == Spec => FinishesOnlyAtTheEnd
<1> DEFINE NoneAfterTheEnd(g) == outcome'[g] # outcome[g] => ~RunsToItsEnd(g)
           NoneSkipped(g) == ( /\ g \in ToSet(pendingGroups)
                               /\ g \in ToSet(finished')
                               /\ isOpen'
                               /\ ~Head(posted).error ) => RunsToItsEnd(g)
<1>1. ASSUME IInv, TransferInv, Next, NEW g \in Group
      PROVE  NoneAfterTheEnd(g)
  <2> SUFFICES ASSUME outcome'[g] # outcome[g]
               PROVE  ~RunsToItsEnd(g)
    OBVIOUS
  <2>1. deviceAnswers
    BY <1>1 DEF Next, enqueueTransferGroup, onIoFinished, deviceDisconnects
  <2>2. PICK w \in working, pass \in BOOLEAN :
          outcome' = [outcome EXCEPT ![w.group] = Append(@, pass)]
    BY <2>1 DEF deviceAnswers
  <2>3. g = w.group
    BY <1>1, <2>2 DEF IInv, TypeOK
  <2> QED
    BY <1>1, <2>3 DEF TransferInv, WorkInTime
<1>2. ASSUME IInv, TransferInv, Next, NEW g \in Group
      PROVE  NoneSkipped(g)
  <2> SUFFICES ASSUME g \in ToSet(pendingGroups), g \in ToSet(finished'), isOpen',
                      ~Head(posted).error
               PROVE  RunsToItsEnd(g)
    OBVIOUS
  <2>1. pendingGroups \in Seq(Group) /\ finished \in Seq(Group) /\ g \notin ToSet(finished)
    BY <1>1, <1>2, NoCommonElement DEF IInv, TypeOK, FinishedOnce
  <2>2. pendingGroups # <<>>
    BY DEF ToSet
  <2>3. isIoBusy
    BY <1>2, <2>2 DEF IInv, NeverStalls
  <2>4. ASSUME NEW x \in Group, enqueueTransferGroup(x)
        PROVE  FALSE
    <3>1. x # g
      BY <2>4 DEF enqueueTransferGroup, submitted
    <3>2. finished' = finished \/ finished' = Append(finished, x)
      BY <2>3, <2>4 DEF enqueueTransferGroup
    <3>3. ToSet(Append(finished, x)) = ToSet(finished) \cup {x}
      BY <2>1, AppendElements
    <3> QED
      BY <2>1, <3>1, <3>2, <3>3
  <2>5. CASE onIoFinished
    BY <1>2, <2>5, FinishedAtTheEnd
  <2>6. ~deviceAnswers
    BY <2>1 DEF deviceAnswers
  <2>7. ~deviceDisconnects
    BY DEF deviceDisconnects
  <2> QED
    BY <1>2, <2>4, <2>5, <2>6, <2>7 DEF Next
<1>3. IInv /\ TransferInv /\ [Next]_vars => [\A g \in Group : NoneAfterTheEnd(g) /\ NoneSkipped(g)]_vars
  BY <1>1, <1>2
<1> HIDE DEF NoneAfterTheEnd, NoneSkipped
<1>4. IInv /\ TransferInv /\ [Next]_vars
        => [\A g \in Group :
              /\ outcome'[g] # outcome[g] => ~RunsToItsEnd(g)
              /\ ( /\ g \in ToSet(pendingGroups)
                   /\ g \in ToSet(finished')
                   /\ isOpen'
                   /\ ~Head(posted).error ) => RunsToItsEnd(g)]_vars
  BY <1>3 DEF NoneAfterTheEnd, NoneSkipped
<1> QED
  BY IInvInit, IInvNext, TransferInit, TransferNext, <1>4, PTL DEF Spec, FinishesOnlyAtTheEnd
=============================================================================
