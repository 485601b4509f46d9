----------------------- MODULE RangeObsermaticProofs -----------------------
(***************************************************************************)
(* What holds of RangeObsermatic for any channels, groups, ranges, clamps  *)
(* and loads, checked by TLAPS.                                            *)
(***************************************************************************)
EXTENDS RangeObsermatic, SequenceTheorems, FiniteSetTheorems, TLAPS

\* Where in a line the requests of a kind are
Places(s, cmd) == {i \in 1 .. Len(s) : s[i][1] = cmd}

Counted(requests, n) == IsFiniteSet(requests) /\ Cardinality(requests) = n

\* setRanges sets possible ranges only, and keeps the configuration in step.
RangesPossible ==
  \A c \in Channel : /\ Internal \subseteq obs.ranges[c]
                     /\ obs.actRange[c] \in obs.ranges[c]
                     /\ obs.conf[c] = obs.actRange[c]

\* The last of the range commands on the way to a channel is the one that counts; once it
\* is answered, clients and the hardware are where the obsermatic wants them.
LastCommandCounts ==
  \A c \in Channel :
    LET places == Places(line[c], "setrange") IN
    /\ places = {} => obs.rangePar[c] = obs.actRange[c] /\ hwRange[c] = obs.actRange[c]
    /\ \A i \in places : (\A j \in places : j <= i) => line[c][i][2] = obs.actRange[c]

\* Whatever setRanges sends it asks for the status at last.  (The ranges set first, by
\* onActivationDone, are not followed by a status.)
StatusReadLast ==
  obs.readStatusPending > 0 =>
    \A c \in Channel : line[c] = <<>> \/ line[c][Len(line[c])] = <<"readstatus">>

\* The inductive invariant: that the ranges are set when the counter is back at 0
\* (QuietMeansSet) rests on which command is the last one under way.
IInv ==
  /\ TypeOK
  /\ RangesPossible
  /\ Counted(underWay("setrange"), obs.rangeSetPending)
  /\ Counted(underWay("readstatus"), obs.readStatusPending)
  /\ obs.ranging <=> obs.rangeSetPending > 0
  /\ LastCommandCounts
  /\ StatusReadLast

-----------------------------------------------------------------------------
(* Finite sets of ranges *)

\* The ranges a channel has to choose from are finitely many, so there are a highest
\* and a lowest one.
LEMMA Extremes ==
  ASSUME NEW rs \in SUBSET Alias, rs # {}
  PROVE  highest(rs) \in rs /\ lowest(rs) \in rs
<1> DEFINE above(r) == {q \in rs : Limit[r] < Limit[q]}
           below(r) == {q \in rs : Limit[q] < Limit[r]}
           R == StrictSubsetOrdering(rs)
<1>1. IsFiniteSet(rs) /\ \A r \in rs : Limit[r] \in Nat
  BY FS_Subset, RangeAssumption
<1>2. IsWellFoundedOn(R, FiniteSubsetsOf(rs)) /\ FiniteSubsetsOf(rs) = SUBSET rs
  BY <1>1, FS_StrictSubsetOrderingWellFounded, FS_FiniteSubsetsOfFinite
<1>3. \E r \in rs : \A q \in rs : Limit[q] <= Limit[r]
  <2> DEFINE T == {above(r) : r \in rs}
  <2>1. T \subseteq SUBSET rs /\ T # {}
    OBVIOUS
  <2>2. PICK x \in T : \A y \in T : ~(<<y, x>> \in R)
    <3> HIDE DEF T, R
    <3> QED
      BY <1>2, <2>1, WFMin
  <2>3. PICK r \in rs : x = above(r)
    OBVIOUS
  <2>4. ASSUME NEW q \in rs, ~(Limit[q] <= Limit[r])
        PROVE  FALSE
    <3>1. q \in above(r) /\ q \notin above(q) /\ above(q) \subseteq above(r)
      BY <1>1, <2>4
    <3>2. <<above(q), above(r)>> \in R
      BY <3>1 DEF StrictSubsetOrdering
    <3> QED
      BY <2>2, <2>3, <3>2
  <2> QED
    BY <2>4
<1>4. \E r \in rs : \A q \in rs : Limit[r] <= Limit[q]
  <2> DEFINE T == {below(r) : r \in rs}
  <2>1. T \subseteq SUBSET rs /\ T # {}
    OBVIOUS
  <2>2. PICK x \in T : \A y \in T : ~(<<y, x>> \in R)
    <3> HIDE DEF T, R
    <3> QED
      BY <1>2, <2>1, WFMin
  <2>3. PICK r \in rs : x = below(r)
    OBVIOUS
  <2>4. ASSUME NEW q \in rs, ~(Limit[r] <= Limit[q])
        PROVE  FALSE
    <3>1. q \in below(r) /\ q \notin below(q) /\ below(q) \subseteq below(r)
      BY <1>1, <2>4
    <3>2. <<below(q), below(r)>> \in R
      BY <3>1 DEF StrictSubsetOrdering
    <3> QED
      BY <2>2, <2>3, <3>2
  <2> QED
    BY <2>4
<1> QED
  BY <1>3, <1>4, Zenon DEF highest, lowest

-----------------------------------------------------------------------------
(* Lines of requests *)

LEMMA RequestKinds ==
  /\ \A r \in Alias : <<"setrange", r>> \in Request
  /\ <<"resetstatus">> \in Request
  /\ <<"readstatus">> \in Request
  /\ \A q \in Request : /\ q[1] \in {"setrange", "resetstatus", "readstatus"}
                        /\ q[1] = "setrange" => q[2] \in Alias
                        /\ q[1] = "readstatus" => q = <<"readstatus">>
BY DEF Request

\* A line and one request more, or not
Extended(s, c, S, r) == s \o (IF c \in S THEN <<r>> ELSE <<>>)

LEMMA OneMore ==
  ASSUME NEW s \in Seq(Request), NEW r \in Request, NEW S, NEW c
  PROVE  /\ Extended(s, c, S, r) \in Seq(Request)
         /\ Len(Extended(s, c, S, r)) = IF c \in S THEN Len(s) + 1 ELSE Len(s)
         /\ \A i \in 1 .. Len(s) : Extended(s, c, S, r)[i] = s[i]
         /\ c \in S => Extended(s, c, S, r)[Len(s) + 1] = r
         /\ \A cmd : Places(Extended(s, c, S, r), cmd) =
              Places(s, cmd) \cup (IF c \in S /\ r[1] = cmd THEN {Len(s) + 1} ELSE {})
<1> DEFINE t == Extended(s, c, S, r)
<1>1. Len(s) \in Nat
  BY LenProperties
<1>2. CASE c \in S
  <2>1. t = s \o <<r>> /\ <<r>> \in Seq(Request) /\ Len(<<r>>) = 1 /\ <<r>>[1] = r
    BY <1>2 DEF Extended
  <2> HIDE DEF t
  <2>2. /\ t \in Seq(Request)
        /\ Len(t) = Len(s) + 1
        /\ \A i \in 1 .. Len(s) : t[i] = s[i]
        /\ t[Len(s) + 1] = r
    BY <1>1, <2>1, ConcatProperties
  <2>3. \A i : i \in 1 .. Len(s) + 1 <=> i \in 1 .. Len(s) \/ i = Len(s) + 1
    BY <1>1
  <2>4. \A cmd : Places(t, cmd) = Places(s, cmd) \cup (IF r[1] = cmd THEN {Len(s) + 1} ELSE {})
    BY <2>2, <2>3 DEF Places
  <2> QED
    BY <1>2, <2>2, <2>4 DEF t
<1>3. CASE c \notin S
  <2>1. t = s
    BY <1>3, ConcatEmptySeq DEF Extended
  <2> QED
    BY <1>3, <2>1
<1> QED
  BY <1>2, <1>3

LEMMA UnderWayPlaces ==
  ASSUME NEW cmd
  PROVE  /\ \A c \in Channel : \A i : <<c, i>> \in underWay(cmd) <=> i \in Places(line[c], cmd)
         /\ \A e \in underWay(cmd) : /\ e = <<e[1], e[2]>>
                                     /\ e[1] \in Channel
                                     /\ e[2] \in Places(line[e[1]], cmd)
BY DEF underWay, Places

LEMMA UnderWayPlacesNext ==
  ASSUME NEW cmd
  PROVE  /\ \A c \in Channel : \A i : <<c, i>> \in underWay(cmd)' <=> i \in Places(line'[c], cmd)
         /\ \A e \in underWay(cmd)' : /\ e = <<e[1], e[2]>>
                                      /\ e[1] \in Channel
                                      /\ e[2] \in Places(line'[e[1]], cmd)
BY DEF underWay, Places

LEMMA ChannelsAreFinite ==
  /\ IsFiniteSet(Channel)
  /\ Cardinality(Channel) = ChannelCount
  /\ ChannelCount \in Nat \ {0}
<1>1. ChannelCount \in Int /\ ChannelCount \in Nat \ {0} /\ 1 \in Int
  BY RangeAssumption
<1>2. /\ IsFiniteSet(1 .. ChannelCount)
      /\ Cardinality(1 .. ChannelCount) = IF 1 > ChannelCount THEN 0 ELSE ChannelCount - 1 + 1
  BY <1>1, FS_Interval
<1> QED
  BY <1>1, <1>2 DEF Channel

\* New requests of a kind, one for each channel of S, are counted once each.
LEMMA SentAreCounted ==
  ASSUME NEW cmd, NEW n \in Nat, Counted(underWay(cmd), n), NEW S \in SUBSET Channel, NEW p,
         line \in [Channel -> Seq(Request)],
         \A c \in Channel : Places(line'[c], cmd) =
                              Places(line[c], cmd) \cup (IF c \in S THEN {p[c]} ELSE {}),
         \A c \in S : p[c] > Len(line[c])
  PROVE  Counted(underWay(cmd)', n + Cardinality(S)) /\ Cardinality(S) \in Nat /\ (Cardinality(S) > 0 <=> S # {})
<1> DEFINE new == {<<c, p[c]>> : c \in S}
           f == [c \in S |-> <<c, p[c]>>]
<1>1. IsFiniteSet(S) /\ Cardinality(S) \in Nat
  BY ChannelsAreFinite, FS_Subset, FS_CardinalityType
<1>2. f \in Bijection(S, new)
  BY DEF Bijection, Injection, Surjection, IsInjective
<1>3. IsFiniteSet(new) /\ Cardinality(new) = Cardinality(S)
  BY <1>1, <1>2, FS_Bijection DEF ExistsBijection
<1>4. underWay(cmd)' = underWay(cmd) \cup new
  <2>1. ASSUME NEW c \in Channel, NEW i
        PROVE  <<c, i>> \in underWay(cmd)' <=> <<c, i>> \in underWay(cmd) \cup new
    <3>1. /\ <<c, i>> \in underWay(cmd)' <=> i \in Places(line'[c], cmd)
          /\ <<c, i>> \in underWay(cmd) <=> i \in Places(line[c], cmd)
      BY UnderWayPlaces, UnderWayPlacesNext
    <3>2. <<c, i>> \in new <=> c \in S /\ i = p[c]
      OBVIOUS
    <3> HIDE DEF new
    <3> QED
      BY <3>1, <3>2
  <2>2. \A e \in underWay(cmd) \cup new \cup underWay(cmd)' : e = <<e[1], e[2]>> /\ e[1] \in Channel
    BY UnderWayPlaces, UnderWayPlacesNext
  <2> QED
    BY <2>1, <2>2
<1>5. underWay(cmd) \cap new = {}
  <2> SUFFICES ASSUME NEW c \in S, p[c] \in Places(line[c], cmd)
               PROVE  FALSE
    BY UnderWayPlaces
  <2> QED
    BY LenProperties DEF Places
<1>6. IsFiniteSet(underWay(cmd)') /\ Cardinality(underWay(cmd)') = n + Cardinality(S)
  <2>1. IsFiniteSet(underWay(cmd)) /\ Cardinality(underWay(cmd)) = n
    BY DEF Counted
  <2> DEFINE u == underWay(cmd)
  <2> HIDE DEF u, new
  <2>2. /\ IsFiniteSet(u \cup new)
        /\ Cardinality(u \cup new) = Cardinality(u) + Cardinality(new) - Cardinality(u \cap new)
    BY <1>3, <2>1, FS_Union DEF u
  <2>3. Cardinality(u \cap new) = 0
    BY <1>5, FS_EmptySet DEF u
  <2> QED
    BY <1>1, <1>3, <1>4, <2>1, <2>2, <2>3 DEF u
<1>7. Cardinality(S) > 0 <=> S # {}
  BY <1>1, FS_EmptySet
<1> QED
  BY <1>1, <1>6, <1>7 DEF Counted

\* An answer takes the oldest request of its channel off the count.
LEMMA AnswerIsCounted ==
  ASSUME NEW cmd, NEW n \in Nat, Counted(underWay(cmd), n), NEW c \in Channel, line[c] # <<>>,
         line \in [Channel -> Seq(Request)],
         line' = [line EXCEPT ![c] = Tail(@)]
  PROVE  /\ Head(line[c])[1] = cmd => n > 0 /\ Counted(underWay(cmd)', n - 1)
         /\ Head(line[c])[1] # cmd => Counted(underWay(cmd)', n)
<1> DEFINE U == underWay(cmd)
           V == U \ {<<c, 1>>}
           f == [e \in V |-> IF e[1] = c THEN <<c, e[2] - 1>> ELSE e]
<1>1. /\ Len(line[c]) \in Nat \ {0}
      /\ Head(line[c]) = line[c][1]
      /\ line'[c] = Tail(line[c])
      /\ Len(line'[c]) = Len(line[c]) - 1
      /\ \A i \in 1 .. Len(line[c]) - 1 : line'[c][i] = line[c][i + 1]
      /\ \A k \in Channel : k # c => line'[k] = line[k]
  BY EmptySeq, LenProperties, HeadTailProperties
<1>2. \A i \in Nat : i + 1 \in Places(line[c], cmd) /\ i > 0 <=> i \in Places(line'[c], cmd)
  BY <1>1 DEF Places
<1>3. <<c, 1>> \in U <=> Head(line[c])[1] = cmd
  BY <1>1, UnderWayPlaces DEF Places
<1>4. \A i : i \in Places(line[c], cmd) \cup Places(line'[c], cmd) => i \in Nat \ {0}
  BY <1>1 DEF Places
<1>5. \A e \in V : e[1] = c => e[2] \in Nat \ {0, 1} /\ e[2] - 1 \in Places(line'[c], cmd)
  <2> SUFFICES ASSUME NEW e \in V, e[1] = c
               PROVE  e[2] \in Nat \ {0, 1} /\ e[2] - 1 \in Places(line'[c], cmd)
    OBVIOUS
  <2>1. e = <<c, e[2]>> /\ e[2] \in Places(line[c], cmd)
    BY UnderWayPlaces
  <2>2. e[2] \in Nat \ {0, 1}
    BY <1>4, <2>1
  <2>3. e[2] - 1 \in Nat /\ e[2] - 1 + 1 = e[2] /\ e[2] - 1 > 0
    BY <2>2
  <2> QED
    BY <1>2, <2>1, <2>2, <2>3
<1>6. \A e \in V : f[e] \in underWay(cmd)'
  <2> SUFFICES ASSUME NEW e \in V
               PROVE  f[e] \in underWay(cmd)'
    OBVIOUS
  <2>1. CASE e[1] = c
    BY <1>5, <2>1, UnderWayPlacesNext
  <2>2. CASE e[1] # c
    <3>1. e = <<e[1], e[2]>> /\ e[1] \in Channel /\ e[2] \in Places(line[e[1]], cmd)
      BY UnderWayPlaces
    <3>2. e[2] \in Places(line'[e[1]], cmd)
      BY <1>1, <2>2, <3>1
    <3> QED
      BY <2>2, <3>1, <3>2, UnderWayPlacesNext
  <2> QED
    BY <2>1, <2>2
<1>7. \A e, d \in V : f[e] = f[d] => e = d
  <2> SUFFICES ASSUME NEW e \in V, NEW d \in V, f[e] = f[d]
               PROVE  e = d
    OBVIOUS
  <2>1. e = <<e[1], e[2]>> /\ d = <<d[1], d[2]>>
    BY UnderWayPlaces
  <2>2. CASE e[1] = c /\ d[1] = c
    <3>1. e[2] - 1 = d[2] - 1
      BY <2>2
    <3>2. e[2] \in Nat /\ d[2] \in Nat
      BY <1>5, <2>2
    <3>3. e[2] = d[2]
      BY <3>1, <3>2
    <3> QED
      BY <2>1, <2>2, <3>3
  <2>3. CASE ~(e[1] = c /\ d[1] = c)
    BY <2>1, <2>3
  <2> QED
    BY <2>2, <2>3
<1>8. \A x \in underWay(cmd)' : \E e \in V : f[e] = x
  <2> SUFFICES ASSUME NEW x \in underWay(cmd)'
               PROVE  \E e \in V : f[e] = x
    OBVIOUS
  <2>1. x = <<x[1], x[2]>> /\ x[1] \in Channel /\ x[2] \in Places(line'[x[1]], cmd)
    BY UnderWayPlacesNext
  <2>2. CASE x[1] = c
    <3>1. x[2] \in Nat \ {0}
      BY <1>4, <2>1, <2>2
    <3>2. x[2] + 1 \in Places(line[c], cmd) /\ x[2] + 1 # 1 /\ x[2] + 1 - 1 = x[2]
      BY <1>2, <2>1, <2>2, <3>1
    <3> DEFINE e == <<c, x[2] + 1>>
    <3>3. e \in V /\ e[1] = c /\ e[2] - 1 = x[2]
      <4>1. e \in underWay(cmd)
        BY <3>2, UnderWayPlaces
      <4>2. e[1] = c /\ e[2] = x[2] + 1 /\ e # <<c, 1>>
        BY <3>2
      <4> HIDE DEF e
      <4>3. e[2] - 1 = x[2]
        BY <3>1, <4>2
      <4>4. e \in V
        BY <4>1, <4>2
      <4> QED
        BY <4>2, <4>3, <4>4
    <3> HIDE DEF e, V
    <3>4. f[e] = <<c, x[2]>>
      <4>1. f[e] = <<c, e[2] - 1>>
        BY <3>3
      <4> QED
        BY <3>3, <4>1
    <3>5. f[e] = x
      BY <2>1, <2>2, <3>4
    <3> HIDE DEF f
    <3> QED
      BY <3>3, <3>5
  <2>3. CASE x[1] # c
    <3>1. x[2] \in Places(line[x[1]], cmd)
      BY <1>1, <2>1, <2>3
    <3>2. x \in V
      BY <2>1, <2>3, <3>1, UnderWayPlaces
    <3> QED
      BY <2>3, <3>2
  <2> QED
    BY <2>2, <2>3
<1>9. f \in Bijection(V, underWay(cmd)')
  <2>1. f \in [V -> underWay(cmd)'] /\ DOMAIN f = V
    BY <1>6
  <2> HIDE DEF f, V
  <2> QED
    BY <2>1, <1>7, <1>8 DEF Bijection, Injection, Surjection, IsInjective
<1>10. IsFiniteSet(V) /\ Cardinality(V) = IF <<c, 1>> \in U THEN n - 1 ELSE n
  BY FS_RemoveElement DEF Counted
<1>11. IsFiniteSet(underWay(cmd)') /\ Cardinality(underWay(cmd)') = Cardinality(V)
  <2> HIDE DEF f, V
  <2> QED
    BY <1>9, <1>10, FS_Bijection DEF ExistsBijection
<1>12. Cardinality(underWay(cmd)') \in Nat
  BY <1>11, FS_CardinalityType
<1> QED
  BY <1>3, <1>10, <1>11, <1>12 DEF Counted

-----------------------------------------------------------------------------
(* The parts of the handlers *)

\* A state of the obsermatic whose channels have ranges to choose from
Sound(s) == s \in Obsermatic /\ \A c \in Channel : Internal \subseteq s.ranges[c]

\* What observing, choosing and grouping leave to setRanges and to the answers
Alike(s, t) ==
  /\ t.ranges = s.ranges /\ t.actRange = s.actRange /\ t.rangePar = s.rangePar
  /\ t.status = s.status /\ t.hardOvl = s.hardOvl
  /\ t.ranging = s.ranging /\ t.waitAfterRanging = s.waitAfterRanging
  /\ t.rangeSetPending = s.rangeSetPending /\ t.readStatusPending = s.readStatusPending

LEMMA SoundRanges ==
  ASSUME NEW s, Sound(s), NEW c \in Channel
  PROVE  /\ s.ranges[c] \in SUBSET Alias
         /\ s.ranges[c] # {}
         /\ s.conf[c] \in Alias
         /\ s.actRange[c] \in Alias
  BY RangeAssumption DEF Sound, Obsermatic

LEMMA MaxRange ==
  ASSUME NEW s, Sound(s), NEW c \in Channel, NEW r
  PROVE  getMaxRange(s, c, r) \in s.ranges[c] /\ getMaxRange(s, c, r) \in Alias
<1> DEFINE rs == ofTypeOf(s, c, r)
           choice == IF rs = {} THEN s.ranges[c] ELSE rs
<1>1. choice \in SUBSET Alias /\ choice # {} /\ choice \subseteq s.ranges[c]
  BY SoundRanges DEF ofTypeOf
<1>2. getMaxRange(s, c, r) = highest(choice)
  BY DEF getMaxRange
<1> HIDE DEF choice
<1>3. highest(choice) \in choice
  BY <1>1, Extremes
<1> QED
  BY <1>1, <1>2, <1>3

LEMMA PossibleRange ==
  ASSUME NEW s, Sound(s), NEW c \in Channel
  PROVE  possible(s, c) \in s.ranges[c] /\ possible(s, c) \in Alias
  BY MaxRange, SoundRanges DEF possible

LEMMA OptimalRange ==
  ASSUME NEW s, Sound(s), NEW c \in Channel, NEW r \in Alias
  PROVE  getOptimalRange(s, c, r) \in Alias
<1>1. ASSUME NEW value
      PROVE  findOptimalRange(s, c, r, value) \in Alias
  <2> DEFINE enterable == {q \in ofTypeOf(s, c, r) : 100 * value <= enterRangeLimit * Limit[q]}
             keeps == /\ enterRangeLimit * Limit[r] < 100 * value
                      /\ 100 * value < keepRangeLimit * Limit[r]
  <2>1. enterable \in SUBSET Alias
    BY SoundRanges DEF ofTypeOf
  <2>2. enterable # {} => lowest(enterable) \in Alias
    <3> HIDE DEF enterable
    <3> QED
      BY <2>1, Extremes
  <2>3. getMaxRange(s, c, r) \in Alias
    BY MaxRange
  <2>4. findOptimalRange(s, c, r, value) =
          CASE r \in s.ranges[c] /\ keeps -> r
            [] ~(r \in s.ranges[c] /\ keeps) /\ enterable # {} -> lowest(enterable)
            [] OTHER -> getMaxRange(s, c, r)
    BY DEF findOptimalRange
  <2> HIDE DEF enterable, keeps
  <2> QED
    BY <2>2, <2>3, <2>4
<1> DEFINE two == {findOptimalRange(s, c, r, level[c].rms), findOptimalRange(s, c, r, level[c].peak)}
<1>2. two \in SUBSET Alias /\ two # {}
  BY <1>1
<1>3. getOptimalRange(s, c, r) = highest(two)
  BY DEF getOptimalRange
<1> HIDE DEF two
<1> QED
  BY <1>2, <1>3, Extremes

LEMMA Observing ==
  ASSUME NEW s, Sound(s)
  PROVE  Sound(observeRangeOverload(s)) /\ Alike(s, observeRangeOverload(s))
<1> DEFINE over == {c \in Channel : s.hardOvl[c] \/ isOverload(s, c)}
           inMax == {c \in over : s.actRange[c] = getMaxRange(s, c, s.conf[c])}
           conf == [c \in Channel |-> IF c \in over THEN getMaxRange(s, c, s.conf[c]) ELSE s.conf[c]]
           soft == [c \in Channel |-> c \in over]
           max == [c \in Channel |-> s.maxOvl[c] \/ c \in inMax]
           shown == s.overloadMax \/ inMax # {}
           overload == over # {} \/ (s.overload /\ ~s.rangeSetManual)
           t == [s EXCEPT !.conf = conf, !.softOvl = soft, !.maxOvl = max,
                          !.overloadMax = shown, !.overload = overload, !.rangeSetManual = FALSE]
<1>1. observeRangeOverload(s) = t
  BY DEF observeRangeOverload
<1>2. conf \in [Channel -> Alias]
  BY MaxRange, SoundRanges
<1>3. soft \in Flags /\ max \in Flags
  BY DEF Flags
<1>4. shown \in BOOLEAN /\ overload \in BOOLEAN
  OBVIOUS
<1> HIDE DEF over, inMax, conf, soft, max, shown, overload
<1>5. t \in Obsermatic /\ t.ranges = s.ranges
  BY <1>2, <1>3, <1>4, ZenonT(30) DEF Sound, Obsermatic
<1>6. Alike(s, t)
  BY DEF Alike, Sound, Obsermatic
<1> QED
  BY <1>1, <1>5, <1>6 DEF Sound

LEMMA Choosing ==
  ASSUME NEW s, Sound(s)
  PROVE  Sound(rangeAutomatic(s)) /\ Alike(s, rangeAutomatic(s))
<1> DEFINE chooses(c) == ~s.maxOvl[c] /\ ~s.hardOvl[c] /\ ~s.softOvl[c]
           recovered == \A c \in Channel : ~s.maxOvl[c] /\ ~s.hardOvl[c]
           conf == [c \in Channel |-> IF chooses(c) THEN getOptimalRange(s, c, s.conf[c]) ELSE s.conf[c]]
           overload == s.overload /\ ~recovered
           t == [s EXCEPT !.conf = conf, !.overload = overload]
<1>1. rangeAutomatic(s) = IF ~s.rangeAuto THEN s ELSE t
  BY DEF rangeAutomatic
<1>2. conf \in [Channel -> Alias]
  BY OptimalRange, SoundRanges
<1>3. overload \in BOOLEAN
  OBVIOUS
<1> HIDE DEF conf, overload
<1>4. t \in Obsermatic /\ t.ranges = s.ranges
  BY <1>2, <1>3 DEF Sound, Obsermatic
<1>5. Alike(s, s) /\ Alike(s, t)
  BY DEF Alike, Sound, Obsermatic
<1> QED
  BY <1>1, <1>4, <1>5 DEF Sound

LEMMA GroupRange ==
  ASSUME NEW s, Sound(s), NEW g \in GroupList
  PROVE  groupRange(s, g) \in Alias
<1> DEFINE first == {h \in GroupList : 1 \in h /\ common(s, h) # {}}
           shared == UNION {common(s, h) : h \in first}
<1>1. \A h \in GroupList : common(s, h) \in SUBSET Alias
  BY SoundRanges, RangeAssumption DEF common
<1>2. shared \in SUBSET Alias /\ (first # {} => shared # {})
  BY <1>1
<1>3. 1 \in Channel
  BY RangeAssumption DEF Channel
<1>4. s.conf[1] \in Alias
  BY <1>3, SoundRanges
<1>5. common(s, g) # {} => highest(common(s, g)) \in Alias
  BY <1>1, Extremes
<1>6. first # {} => highest(shared) \in Alias
  <2> HIDE DEF first, shared
  <2> QED
    BY <1>2, Extremes
<1>7. groupRange(s, g) = CASE common(s, g) # {} -> highest(common(s, g))
                           [] common(s, g) = {} /\ first # {} -> highest(shared)
                           [] OTHER -> s.conf[1]
  BY DEF groupRange
<1> HIDE DEF first, shared
<1> QED
  BY <1>4, <1>5, <1>6, <1>7

LEMMA Grouping ==
  ASSUME NEW s, Sound(s)
  PROVE  Sound(groupHandling(s)) /\ Alike(s, groupHandling(s))
<1> DEFINE groupsOf(c) == {g \in GroupList : s.grouping /\ c \in g}
           conf == [c \in Channel |-> IF groupsOf(c) = {} THEN s.conf[c]
                                      ELSE groupRange(s, CHOOSE g \in groupsOf(c) : TRUE)]
           grouped == [c \in Channel |-> \E g \in groupsOf(c) : \E k \in g : requiresOverloadReset(s, k)]
           t == [s EXCEPT !.conf = conf, !.groupOvl = grouped]
<1>1. groupHandling(s) = t
  BY DEF groupHandling
<1>2. conf \in [Channel -> Alias]
  <2> SUFFICES ASSUME NEW c \in Channel, groupsOf(c) # {}
               PROVE  groupRange(s, CHOOSE g \in groupsOf(c) : TRUE) \in Alias
    BY SoundRanges
  <2>1. (CHOOSE g \in groupsOf(c) : TRUE) \in groupsOf(c)
    OBVIOUS
  <2> QED
    BY <2>1, GroupRange
<1>3. grouped \in Flags
  BY DEF Flags
<1> HIDE DEF conf, grouped
<1>4. t \in Obsermatic /\ t.ranges = s.ranges
  BY <1>2, <1>3 DEF Sound, Obsermatic
<1>5. Alike(s, t)
  BY DEF Alike, Sound, Obsermatic
<1> QED
  BY <1>1, <1>4, <1>5 DEF Sound

\* What setRanges adds to the line l of a channel, and where the range command is in it
WithNew(l, c, resets, change, reset, r) ==
  l \o (IF c \in resets THEN << <<"resetstatus">> >> ELSE <<>>)
    \o (IF c \in change THEN << <<"setrange", r>> >> ELSE <<>>)
    \o (IF c \in reset THEN << <<"resetstatus">> >> ELSE <<>>)
    \o << <<"readstatus">> >>

PlaceOfNew(l, c, resets) == IF c \in resets THEN Len(l) + 2 ELSE Len(l) + 1

\* t and p stand for them.
GrowsBy(l, t, p, c, change, r) ==
  /\ t \in Seq(Request)
  /\ p > Len(l) /\ p \in Nat /\ Len(t) > Len(l)
  /\ \A i \in 1 .. Len(l) : t[i] = l[i]
  /\ c \in change => t[p] = <<"setrange", r>>
  /\ t[Len(t)] = <<"readstatus">>
  /\ Places(t, "setrange") = Places(l, "setrange") \cup (IF c \in change THEN {p} ELSE {})
  /\ Places(t, "readstatus") = Places(l, "readstatus") \cup {Len(t)}

LEMMA NewLine ==
  ASSUME NEW l \in Seq(Request), NEW c \in Channel, NEW resets, NEW change, NEW reset,
         NEW r \in Alias
  PROVE  GrowsBy(l, WithNew(l, c, resets, change, reset, r), PlaceOfNew(l, c, resets), c, change, r)
<1> DEFINE t == WithNew(l, c, resets, change, reset, r)
           p == PlaceOfNew(l, c, resets)
           setrange == <<"setrange", r>>
           resetstatus == <<"resetstatus">>
           readstatus == <<"readstatus">>
           l1 == Extended(l, c, resets, resetstatus)
           l2 == Extended(l1, c, change, setrange)
           l3 == Extended(l2, c, reset, resetstatus)
           l4 == Extended(l3, c, Channel, readstatus)
<1>1. /\ setrange \in Request /\ setrange[1] = "setrange"
      /\ resetstatus \in Request /\ resetstatus[1] = "resetstatus"
      /\ readstatus \in Request /\ readstatus[1] = "readstatus"
  BY RequestKinds
<1>2. t = l4
  BY DEF Extended, WithNew
<1> HIDE DEF t, setrange, resetstatus, readstatus
<1>3. l1 \in Seq(Request) /\ l2 \in Seq(Request) /\ l3 \in Seq(Request) /\ l4 \in Seq(Request)
  <2>1. l1 \in Seq(Request)
    BY <1>1, OneMore
  <2>2. l2 \in Seq(Request)
    BY <1>1, <2>1, OneMore
  <2>3. l3 \in Seq(Request)
    BY <1>1, <2>2, OneMore
  <2> QED
    BY <1>1, <2>1, <2>2, <2>3, OneMore
<1>4. /\ Len(l1) = IF c \in resets THEN Len(l) + 1 ELSE Len(l)
      /\ \A i \in 1 .. Len(l) : l1[i] = l[i]
      /\ \A cmd : Places(l1, cmd) = Places(l, cmd)
                    \cup (IF c \in resets /\ resetstatus[1] = cmd THEN {Len(l) + 1} ELSE {})
  BY <1>1, OneMore
<1> HIDE DEF l1
<1>5. /\ Len(l2) = IF c \in change THEN Len(l1) + 1 ELSE Len(l1)
      /\ \A i \in 1 .. Len(l1) : l2[i] = l1[i]
      /\ c \in change => l2[Len(l1) + 1] = setrange
      /\ \A cmd : Places(l2, cmd) = Places(l1, cmd)
                    \cup (IF c \in change /\ setrange[1] = cmd THEN {Len(l1) + 1} ELSE {})
  BY <1>1, <1>3, OneMore
<1> HIDE DEF l2
<1>6. /\ Len(l3) = IF c \in reset THEN Len(l2) + 1 ELSE Len(l2)
      /\ \A i \in 1 .. Len(l2) : l3[i] = l2[i]
      /\ \A cmd : Places(l3, cmd) = Places(l2, cmd)
                    \cup (IF c \in reset /\ resetstatus[1] = cmd THEN {Len(l2) + 1} ELSE {})
  BY <1>1, <1>3, OneMore
<1> HIDE DEF l3
<1>7. /\ Len(l4) = Len(l3) + 1
      /\ \A i \in 1 .. Len(l3) : l4[i] = l3[i]
      /\ l4[Len(l4)] = readstatus
      /\ \A cmd : Places(l4, cmd) = Places(l3, cmd)
                    \cup (IF readstatus[1] = cmd THEN {Len(l4)} ELSE {})
  BY <1>1, <1>3, OneMore
<1> HIDE DEF l4
<1>8. /\ Len(l) \in Nat /\ Len(l1) \in Nat /\ Len(l2) \in Nat /\ Len(l3) \in Nat
      /\ p = Len(l1) + 1
  BY <1>3, <1>4, LenProperties DEF PlaceOfNew
<1> HIDE DEF p
<1>9. p > Len(l) /\ Len(l4) > Len(l) /\ Len(l1) >= Len(l) /\ Len(l2) >= Len(l1) /\ Len(l3) >= Len(l2)
  BY <1>4, <1>5, <1>6, <1>7, <1>8
<1>10. \A i \in 1 .. Len(l) : l4[i] = l[i]
  BY <1>4, <1>5, <1>6, <1>7, <1>8, <1>9
<1>11. c \in change => l4[p] = setrange
  <2> SUFFICES ASSUME c \in change
               PROVE  l4[p] = setrange
    OBVIOUS
  <2>1. p \in 1 .. Len(l2) /\ p \in 1 .. Len(l3)
    BY <1>5, <1>8, <1>9
  <2> QED
    BY <2>1, <1>5, <1>6, <1>7, <1>8
<1>12. /\ Places(l4, "setrange") = Places(l, "setrange") \cup (IF c \in change THEN {p} ELSE {})
       /\ Places(l4, "readstatus") = Places(l, "readstatus") \cup {Len(l4)}
  BY <1>1, <1>4, <1>5, <1>6, <1>7, <1>8
<1>13. GrowsBy(l, t, p, c, change, r)
  BY <1>2, <1>3, <1>7, <1>8, <1>9, <1>10, <1>11, <1>12 DEF setrange, readstatus, GrowsBy
<1> QED
  BY <1>13 DEF t, p

\* s is the state of the obsermatic a slot hands over to setRanges.
HandedOver(s) ==
  /\ Sound(s)
  /\ s.actRange = obs.actRange /\ s.rangePar = obs.rangePar /\ s.hardOvl = obs.hardOvl
  /\ s.ranging = obs.ranging
  /\ s.rangeSetPending = obs.rangeSetPending /\ s.readStatusPending = obs.readStatusPending

\* setRanges counts what it sends, and sends what it sets.
LEMMA SettingRanges ==
  ASSUME IInv, NEW s, HandedOver(s), NEW force, NEW resets, setRanges(s, force, resets),
         UNCHANGED environment, changes' \in 0 .. MaxChanges
  PROVE  IInv' /\ \A c \in Channel : obs'.hardOvl[c] => obs.hardOvl[c]
<1> USE DEF HandedOver
<1> DEFINE change == changed(s, force)
           reset == {c \in change : force \/ s.groupOvl[c] \/ requiresOverloadReset(s, c)}
           conf == confSet(s)
           act == [c \in Channel |-> possible(s, c)]
           ranging == s.ranging \/ change # {}
           setPending == s.rangeSetPending + newPending(change)
           readPending == s.readStatusPending + ChannelCount
           hard == [c \in Channel |-> s.hardOvl[c] /\ c \notin reset]
           max == [c \in Channel |-> s.maxOvl[c] /\ c \notin reset]
           grouped == [c \in Channel |-> s.groupOvl[c] /\ c \notin reset]
           shown == s.overloadMax /\ reset = {}
           t == [s EXCEPT !.conf = conf, !.actRange = act, !.ranging = ranging,
                          !.rangeSetPending = setPending, !.hardOvl = hard, !.maxOvl = max,
                          !.groupOvl = grouped, !.overloadMax = shown,
                          !.readStatusPending = readPending]
           place == [c \in Channel |-> PlaceOfNew(line[c], c, resets)]
           last == [c \in Channel |-> Len(line'[c])]
<1>1. obs' = t
  BY DEF setRanges
<1>2. \A c \in Channel :
        line'[c] = WithNew(line[c], c, resets, change, reset, possible(s, c))
  BY DEF setRanges, WithNew
<1>3. /\ line \in [Channel -> Seq(Request)] /\ DOMAIN line' = Channel
      /\ obs \in Obsermatic /\ hwRange \in [Channel -> Alias]
  BY DEF IInv, TypeOK, setRanges
<1>4. \A c \in Channel : possible(s, c) \in s.ranges[c] /\ possible(s, c) \in Alias
  BY PossibleRange
<1>5. change \in SUBSET Channel /\ \A c \in Channel : c \notin change => possible(s, c) = s.actRange[c]
  BY DEF changed
<1>6. /\ conf \in [Channel -> Alias] /\ act \in [Channel -> Alias]
      /\ hard \in Flags /\ max \in Flags /\ grouped \in Flags
      /\ ranging \in BOOLEAN /\ shown \in BOOLEAN
      /\ \A c \in Channel : conf[c] = possible(s, c) /\ act[c] = possible(s, c)
  <2>1. s \in Obsermatic
    BY DEF Sound
  <2> QED
    BY <1>4, <2>1 DEF confSet, Flags, Obsermatic
<1>7. \A c \in Channel : hard[c] => s.hardOvl[c]
  OBVIOUS
<1>8. newPending(change) = Cardinality(change)
  BY DEF newPending
<1>9. last = [c \in Channel |-> Len(line'[c])]
  OBVIOUS
<1>10. \A c \in Channel : place[c] = PlaceOfNew(line[c], c, resets)
  OBVIOUS
<1>11. /\ s.rangeSetPending \in Nat /\ s.readStatusPending \in Nat
       /\ s.rangeSetPending = obs.rangeSetPending /\ s.readStatusPending = obs.readStatusPending
  BY <1>3 DEF Obsermatic
<1>12. setPending = obs.rangeSetPending + Cardinality(change) /\ readPending = obs.readStatusPending + ChannelCount
  BY <1>8, <1>11
<1>13. ranging <=> obs.ranging \/ change # {}
  OBVIOUS
<1> HIDE DEF change, reset, conf, act, ranging, setPending, readPending, hard, max, grouped, shown,
             place, last
<1>14. ASSUME NEW c \in Channel
       PROVE  GrowsBy(line[c], line'[c], place[c], c, change, possible(s, c))
  <2>1. line[c] \in Seq(Request) /\ possible(s, c) \in Alias
    BY <1>3, <1>4
  <2>2. GrowsBy(line[c], WithNew(line[c], c, resets, change, reset, possible(s, c)),
                PlaceOfNew(line[c], c, resets), c, change, possible(s, c))
    BY <2>1, NewLine
  <2> QED
    BY <1>2, <1>10, <2>2
<1> USE DEF GrowsBy
<1>15. /\ Counted(underWay("setrange")', setPending)
       /\ Cardinality(change) \in Nat
       /\ Cardinality(change) > 0 <=> change # {}
  <2>1. Counted(underWay("setrange"), obs.rangeSetPending) /\ obs.rangeSetPending \in Nat
    BY <1>11 DEF IInv
  <2>2. \A c \in Channel : Places(line'[c], "setrange") =
                             Places(line[c], "setrange") \cup (IF c \in change THEN {place[c]} ELSE {})
    BY <1>14
  <2>3. \A c \in change : place[c] > Len(line[c])
    BY <1>5, <1>14
  <2>4. /\ Counted(underWay("setrange")', obs.rangeSetPending + Cardinality(change))
        /\ Cardinality(change) \in Nat
        /\ Cardinality(change) > 0 <=> change # {}
    BY <1>3, <1>5, <2>1, <2>2, <2>3, SentAreCounted
  <2> QED
    BY <1>12, <2>4
<1>16. Counted(underWay("readstatus")', readPending)
  <2>1. Counted(underWay("readstatus"), obs.readStatusPending) /\ obs.readStatusPending \in Nat
    BY <1>11 DEF IInv
  <2>2. \A c \in Channel : Places(line'[c], "readstatus") =
                             Places(line[c], "readstatus") \cup (IF c \in Channel THEN {last[c]} ELSE {})
    BY <1>9, <1>14
  <2>3. \A c \in Channel : last[c] > Len(line[c])
    BY <1>9, <1>14
  <2>4. Counted(underWay("readstatus")', obs.readStatusPending + Cardinality(Channel))
    BY <1>3, <2>1, <2>2, <2>3, SentAreCounted
  <2> QED
    BY <1>12, <2>4, ChannelsAreFinite
<1>17. /\ setPending \in Nat /\ readPending \in Nat
       /\ ranging <=> setPending > 0
  <2>1. ChannelCount \in Nat
    BY ChannelsAreFinite
  <2>2. obs.ranging <=> obs.rangeSetPending > 0
    BY DEF IInv
  <2>3. setPending \in Nat /\ readPending \in Nat
    BY <1>11, <1>12, <1>15, <2>1
  <2>4. setPending > 0 <=> obs.rangeSetPending > 0 \/ change # {}
    BY <1>11, <1>12, <1>15
  <2> QED
    BY <1>13, <2>2, <2>3, <2>4, Zenon
<1>18. /\ t \in Obsermatic
       /\ t.ranges = s.ranges /\ t.conf = conf /\ t.actRange = act /\ t.rangePar = s.rangePar
       /\ t.ranging = ranging /\ t.rangeSetPending = setPending /\ t.readStatusPending = readPending
       /\ t.hardOvl = hard
  BY <1>6, <1>17, ZenonT(30) DEF Sound, Obsermatic
<1>19. TypeOK'
  <2>1. line' \in [Channel -> Seq(Request)]
    <3>1. line' = [c \in Channel |-> line'[c]]
      BY DEF setRanges
    <3> QED
      BY <1>14, <3>1
  <2> QED
    BY <1>1, <1>18, <2>1 DEF IInv, TypeOK, environment
<1>20. RangesPossible'
  BY <1>1, <1>4, <1>6, <1>18 DEF RangesPossible, Sound
<1>21. LastCommandCounts'
  <2> SUFFICES ASSUME NEW c \in Channel
               PROVE  /\ Places(line'[c], "setrange") = {} => /\ obs'.rangePar[c] = obs'.actRange[c]
                                                              /\ hwRange'[c] = obs'.actRange[c]
                      /\ \A i \in Places(line'[c], "setrange") :
                           (\A j \in Places(line'[c], "setrange") : j <= i)
                             => line'[c][i][2] = obs'.actRange[c]
    BY DEF LastCommandCounts
  <2>1. obs'.actRange[c] = possible(s, c) /\ obs'.rangePar[c] = obs.rangePar[c] /\ hwRange'[c] = hwRange[c]
    BY <1>1, <1>6, <1>18 DEF environment
  <2>2. Places(line[c], "setrange") \subseteq 1 .. Len(line[c]) /\ Len(line[c]) \in Nat
    BY <1>3, LenProperties DEF Places
  <2>3. CASE c \in change
    <3>1. /\ Places(line'[c], "setrange") = Places(line[c], "setrange") \cup {place[c]}
          /\ line'[c][place[c]][2] = possible(s, c)
          /\ place[c] > Len(line[c]) /\ place[c] \in Nat
      <4>1. line'[c][place[c]] = <<"setrange", possible(s, c)>>
        BY <1>14, <2>3
      <4>2. <<"setrange", possible(s, c)>>[2] = possible(s, c)
        OBVIOUS
      <4>3. /\ Places(line'[c], "setrange") = Places(line[c], "setrange") \cup {place[c]}
            /\ place[c] > Len(line[c]) /\ place[c] \in Nat
        BY <1>14, <2>3
      <4> QED
        BY <4>1, <4>2, <4>3
    <3>2. ASSUME NEW i \in Places(line'[c], "setrange"), \A j \in Places(line'[c], "setrange") : j <= i
          PROVE  i = place[c]
      <4>1. place[c] <= i
        BY <3>1, <3>2
      <4>2. CASE i \in Places(line[c], "setrange")
        <5>1. i \in Nat /\ i <= Len(line[c])
          BY <2>2, <4>2
        <5> QED
          BY <2>2, <3>1, <4>1, <5>1
      <4> QED
        BY <3>1, <4>2
    <3>3. place[c] \in Places(line'[c], "setrange")
      BY <3>1
    <3>4. \A i \in Places(line'[c], "setrange") :
            (\A j \in Places(line'[c], "setrange") : j <= i) => line'[c][i][2] = possible(s, c)
      BY <3>1, <3>2
    <3> QED
      BY <2>1, <3>3, <3>4
  <2>4. CASE c \notin change
    <3>1. /\ Places(line'[c], "setrange") = Places(line[c], "setrange")
          /\ \A i \in 1 .. Len(line[c]) : line'[c][i] = line[c][i]
      BY <1>14, <2>4
    <3>2. obs'.actRange[c] = obs.actRange[c]
      BY <1>5, <2>1, <2>4
    <3> QED
      BY <2>1, <2>2, <3>1, <3>2 DEF IInv, LastCommandCounts
  <2> QED
    BY <2>3, <2>4
<1>22. StatusReadLast'
  BY <1>14 DEF StatusReadLast
<1>23. IInv'
  <2>1. Counted(underWay("setrange")', obs'.rangeSetPending) /\ Counted(underWay("readstatus")', obs'.readStatusPending)
    BY <1>1, <1>15, <1>16, <1>18 DEF Counted
  <2>2. obs'.ranging <=> obs'.rangeSetPending > 0
    BY <1>1, <1>17, <1>18
  <2> QED
    BY <1>19, <1>20, <1>21, <1>22, <2>1, <2>2 DEF IInv
<1> QED
  BY <1>1, <1>7, <1>18, <1>23

-----------------------------------------------------------------------------
(* The steps *)

LEMMA IInvInit == Init => IInv
<1> SUFFICES ASSUME Init
             PROVE  IInv
  OBVIOUS
<1> DEFINE l == << <<"setrange", ConfRange>>, <<"resetstatus">> >>
           f == [c \in Channel |-> <<c, 1>>]
<1>1. ConfRange \in Alias /\ ConfRange \in Internal
  BY RangeAssumption
<1>2. <<"setrange", ConfRange>> \in Request /\ <<"resetstatus">> \in Request
  BY <1>1, RequestKinds
<1>3. l \in Seq(Request) /\ Len(l) = 2 /\ l[1] = <<"setrange", ConfRange>> /\ l[2] = <<"resetstatus">>
  BY <1>2
<1>4. \A c \in Channel : line[c] = l
  BY DEF Init, all
<1>5. Places(l, "setrange") = {1} /\ Places(l, "readstatus") = {}
  <2>1. l[1][1] = "setrange" /\ l[2][1] = "resetstatus"
    OBVIOUS
  <2>2. \A i : i \in 1 .. 2 <=> i = 1 \/ i = 2
    OBVIOUS
  <2> HIDE DEF l
  <2> QED
    BY <1>3, <2>1, <2>2 DEF Places
<1>6. PICK rangeAuto \in BOOLEAN, grouping \in BOOLEAN :
       obs = [ranges |-> [c \in Channel |-> rangesOf(c, c \in Plugged)],
              conf |-> all(ConfRange), actRange |-> all(ConfRange),
              rangePar |-> all(Unknown), status |-> all(FALSE), softOvl |-> all(FALSE),
              hardOvl |-> all(FALSE), groupOvl |-> all(FALSE), maxOvl |-> all(FALSE),
              rangeAuto |-> rangeAuto, grouping |-> grouping, overload |-> FALSE,
              overloadMax |-> FALSE, ranging |-> TRUE, rangeSetManual |-> FALSE,
              rangeSetPending |-> ChannelCount, readStatusPending |-> 0, waitAfterRanging |-> 0]
  BY DEF Init
<1>7. /\ all(ConfRange) \in [Channel -> Alias] /\ all(Unknown) \in [Channel -> Alias \cup {Unknown}]
      /\ all(FALSE) \in Flags
      /\ \A c \in Channel : rangesOf(c, c \in Plugged) \in SUBSET Alias
      /\ \A c \in Channel : Internal \subseteq rangesOf(c, c \in Plugged)
  BY <1>1, RangeAssumption DEF all, Flags, rangesOf
<1>8. TypeOK
  <2>1. obs \in Obsermatic
    <3> DEFINE ranges == [c \in Channel |-> rangesOf(c, c \in Plugged)]
               conf == all(ConfRange)
               unknown == all(Unknown)
               off == all(FALSE)
    <3>1. /\ ranges \in [Channel -> SUBSET Alias] /\ conf \in [Channel -> Alias]
          /\ unknown \in [Channel -> Alias \cup {Unknown}] /\ off \in Flags
      BY <1>7
    <3>2. ChannelCount \in Nat /\ 0 \in Nat /\ 0 \in 0 .. 1
      BY ChannelsAreFinite
    <3>3. obs = [ranges |-> ranges, conf |-> conf, actRange |-> conf, rangePar |-> unknown,
                 status |-> off, softOvl |-> off, hardOvl |-> off, groupOvl |-> off, maxOvl |-> off,
                 rangeAuto |-> rangeAuto, grouping |-> grouping, overload |-> FALSE,
                 overloadMax |-> FALSE, ranging |-> TRUE, rangeSetManual |-> FALSE,
                 rangeSetPending |-> ChannelCount, readStatusPending |-> 0, waitAfterRanging |-> 0]
      BY <1>6
    <3> HIDE DEF ranges, conf, unknown, off
    <3> QED
      BY <3>1, <3>2, <3>3 DEF Obsermatic
  <2>2. line \in [Channel -> Seq(Request)]
    BY <1>3 DEF Init, all
  <2>3. hwRange \in [Channel -> Alias] /\ latched \in Flags /\ level \in [Channel -> Level]
    BY <1>7 DEF Init, all
  <2>4. changes \in 0 .. MaxChanges
    BY RangeAssumption DEF Init
  <2> QED
    BY <2>1, <2>2, <2>3, <2>4 DEF TypeOK
<1>9. RangesPossible
  BY <1>1, <1>6, <1>7 DEF RangesPossible, all
<1>10. Counted(underWay("setrange"), ChannelCount)
  <2>1. underWay("setrange") = {<<c, 1>> : c \in Channel}
    <3>1. \A c \in Channel : \A i : <<c, i>> \in underWay("setrange") <=> i = 1
      <4> HIDE DEF l
      <4> QED
        BY <1>4, <1>5, UnderWayPlaces
    <3>2. \A e \in underWay("setrange") : e = <<e[1], e[2]>> /\ e[1] \in Channel
      BY UnderWayPlaces
    <3> QED
      BY <3>1, <3>2
  <2>2. f \in Bijection(Channel, underWay("setrange"))
    BY <2>1 DEF Bijection, Injection, Surjection, IsInjective
  <2> HIDE DEF f
  <2> QED
    BY <2>2, ChannelsAreFinite, FS_Bijection DEF ExistsBijection, Counted
<1>11. Counted(underWay("readstatus"), 0)
  <2>1. underWay("readstatus") = {}
    BY <1>4, <1>5, UnderWayPlaces
  <2> QED
    BY <2>1, FS_EmptySet DEF Counted
<1>12. LastCommandCounts
  <2> SUFFICES ASSUME NEW c \in Channel
               PROVE  /\ Places(line[c], "setrange") # {}
                      /\ \A i \in Places(line[c], "setrange") : line[c][i][2] = obs.actRange[c]
    BY DEF LastCommandCounts
  <2>1. obs.actRange[c] = ConfRange
    BY <1>6 DEF all
  <2>2. line[c][1] = <<"setrange", ConfRange>> /\ <<"setrange", ConfRange>>[2] = ConfRange
    BY <1>4
  <2> QED
    BY <1>4, <1>5, <2>1, <2>2
<1>13. /\ obs.rangeSetPending = ChannelCount /\ obs.readStatusPending = 0
       /\ obs.ranging <=> obs.rangeSetPending > 0
  BY <1>6, ChannelsAreFinite
<1> QED
  BY <1>8, <1>9, <1>10, <1>11, <1>12, <1>13 DEF IInv, StatusReadLast

\* A hardware overload comes to be believed only with nothing under way that is to reset it.
FreshStatus ==
  \A c \in Channel : ~obs.hardOvl[c] /\ obs'.hardOvl[c] =>
    underWay("setrange")' = {} /\ underWay("resetstatus")' = {}

\* Steps that neither set ranges nor answer
LEMMA Keeping ==
  ASSUME IInv, TypeOK', UNCHANGED <<line, hwRange>>,
         obs'.ranges = obs.ranges, obs'.conf = obs.conf, obs'.actRange = obs.actRange,
         obs'.rangePar = obs.rangePar, obs'.hardOvl = obs.hardOvl, obs'.ranging = obs.ranging,
         obs'.rangeSetPending = obs.rangeSetPending, obs'.readStatusPending = obs.readStatusPending
  PROVE  IInv' /\ FreshStatus
<1> USE DEF IInv
<1>1. underWay("setrange")' = underWay("setrange") /\ underWay("readstatus")' = underWay("readstatus")
  BY DEF underWay
<1>2. RangesPossible' /\ LastCommandCounts' /\ StatusReadLast' /\ FreshStatus
  BY DEF RangesPossible, LastCommandCounts, StatusReadLast, FreshStatus
<1> QED
  BY <1>1, <1>2

LEMMA HandOver ==
  ASSUME IInv
  PROVE  Sound(obs) /\ \A s : Sound(s) /\ Alike(obs, s) => HandedOver(s)
  BY DEF IInv, TypeOK, RangesPossible, Sound, Alike, HandedOver

LEMMA AlikeTwice ==
  ASSUME NEW r, NEW s, NEW t, Alike(r, s), Alike(s, t)
  PROVE  Alike(r, t)
  BY DEF Alike

LEMMA MeasuringStep ==
  ASSUME IInv, ActionHandler
  PROVE  IInv' /\ FreshStatus
<1>1. UNCHANGED environment /\ changes' = changes /\ changes \in 0 .. MaxChanges
  BY DEF ActionHandler, IInv, TypeOK
<1>2. CASE /\ waits(obs)
           /\ obs' = [obs EXCEPT !.waitAfterRanging = @ - 1]
           /\ UNCHANGED line
  <2>1. obs \in Obsermatic /\ obs.waitAfterRanging \in 0 .. 1 /\ obs.waitAfterRanging > 0
    BY <1>2 DEF IInv, TypeOK, Obsermatic, waits
  <2>2. obs.waitAfterRanging - 1 \in 0 .. 1
    BY <2>1
  <2>3. obs' \in Obsermatic
    BY <1>2, <2>1, <2>2 DEF Obsermatic
  <2>4. TypeOK'
    BY <1>1, <1>2, <2>3 DEF IInv, TypeOK, environment
  <2>5. /\ obs'.ranges = obs.ranges /\ obs'.actRange = obs.actRange /\ obs'.rangePar = obs.rangePar
        /\ obs'.conf = obs.conf
        /\ obs'.hardOvl = obs.hardOvl /\ obs'.ranging = obs.ranging
        /\ obs'.rangeSetPending = obs.rangeSetPending /\ obs'.readStatusPending = obs.readStatusPending
    BY <1>2, <2>1 DEF Obsermatic
  <2> QED
    BY <1>1, <1>2, <2>4, <2>5, Keeping DEF environment
<1>3. ASSUME NEW e \in evaluations(obs), setRanges(e.final, FALSE, automaticResets(e.observed))
      PROVE  IInv' /\ FreshStatus
  <2> DEFINE o == observeRangeOverload(obs)
             a == rangeAutomatic(o)
  <2>1. e.final = groupHandling(a)
    BY <1>3 DEF evaluations
  <2>2. Sound(o) /\ Alike(obs, o)
    BY HandOver, Observing
  <2>3. Sound(a) /\ Alike(obs, a)
    <3> HIDE DEF o
    <3> QED
      BY <2>2, Choosing, AlikeTwice
  <2> HIDE DEF a
  <2>4. Sound(e.final) /\ Alike(obs, e.final)
    BY <2>1, <2>3, Grouping, AlikeTwice
  <2>5. HandedOver(e.final)
    BY <2>4, HandOver
  <2> QED
    BY <1>1, <1>3, <2>5, SettingRanges DEF FreshStatus
<1> QED
  BY <1>2, <1>3 DEF ActionHandler

LEMMA ChangesCount ==
  ASSUME IInv, changesNow
  PROVE  changes' \in 0 .. MaxChanges
  BY RangeAssumption DEF IInv, TypeOK, changesNow

LEMMA NewRangeStep ==
  ASSUME IInv, NEW c \in Channel, NEW r \in Alias, onNewRange(c, r)
  PROVE  IInv' /\ FreshStatus
<1> DEFINE groups == {g \in GroupList : obs.grouping /\ c \in g}
           chosen == IF groups = {} THEN {c} ELSE UNION groups
           able == {k \in chosen : r \in obs.ranges[k]}
           conf == [k \in Channel |-> IF k \in able THEN r ELSE obs.conf[k]]
           grouping == obs.grouping /\ able = chosen
           s == [obs EXCEPT !.conf = conf, !.rangeSetManual = TRUE, !.grouping = grouping]
<1>1. changesNow /\ setRanges(s, FALSE, {}) /\ UNCHANGED environment
  BY DEF onNewRange
<1>2. Sound(obs) /\ obs \in Obsermatic
  BY HandOver DEF Sound
<1>3. conf \in [Channel -> Alias]
  BY <1>2 DEF Obsermatic
<1>4. grouping \in BOOLEAN
  OBVIOUS
<1> HIDE DEF conf, grouping
<1>5. s \in Obsermatic /\ s.ranges = obs.ranges
  BY <1>2, <1>3, <1>4 DEF Obsermatic
<1>6. Alike(obs, s)
  BY <1>2 DEF Alike, Obsermatic
<1>7. HandedOver(s)
  BY <1>2, <1>5, <1>6, HandOver DEF Sound
<1> HIDE DEF s
<1> QED
  BY <1>1, <1>7, SettingRanges, ChangesCount DEF FreshStatus

LEMMA NewRangeAutoStep ==
  ASSUME IInv, NEW on \in BOOLEAN, newRangeAuto(on)
  PROVE  IInv' /\ FreshStatus
<1> DEFINE s == [obs EXCEPT !.rangeAuto = on]
<1>1. Sound(obs) /\ obs \in Obsermatic
  BY HandOver DEF Sound
<1>2. s \in Obsermatic /\ s.ranges = obs.ranges /\ s.conf = obs.conf /\ Alike(obs, s)
  BY <1>1 DEF Obsermatic, Alike
<1>3. changesNow /\ UNCHANGED environment
  BY DEF newRangeAuto
<1>4. CASE obs' = s /\ UNCHANGED line
  <2> HIDE DEF s
  <2>1. TypeOK'
    BY <1>2, <1>3, <1>4, ChangesCount DEF IInv, TypeOK, environment
  <2> QED
    BY <1>2, <1>3, <1>4, <2>1, Keeping DEF environment, Alike
<1>5. CASE \E a \in {rangeAutomatic(s)} : \E g \in {groupHandling(a)} :
             setRanges(g, FALSE, automaticResets(s))
  <2> DEFINE a == rangeAutomatic(s)
             g == groupHandling(a)
  <2>1. setRanges(g, FALSE, automaticResets(s))
    BY <1>5
  <2> HIDE DEF s
  <2>2. Sound(a) /\ Alike(obs, a)
    BY <1>1, <1>2, Choosing, AlikeTwice DEF Sound
  <2> HIDE DEF a
  <2>3. Sound(g) /\ Alike(obs, g)
    BY <2>2, Grouping, AlikeTwice
  <2> HIDE DEF g
  <2> QED
    BY <1>3, <2>1, <2>3, HandOver, SettingRanges, ChangesCount DEF FreshStatus
<1> QED
  BY <1>4, <1>5 DEF newRangeAuto

LEMMA NewGroupingStep ==
  ASSUME IInv, NEW on \in BOOLEAN, newGrouping(on)
  PROVE  IInv' /\ FreshStatus
<1> DEFINE s == [obs EXCEPT !.grouping = on]
<1>1. Sound(obs) /\ obs \in Obsermatic
  BY HandOver DEF Sound
<1>2. s \in Obsermatic /\ s.ranges = obs.ranges /\ s.conf = obs.conf /\ Alike(obs, s)
  BY <1>1 DEF Obsermatic, Alike
<1>3. changesNow /\ UNCHANGED environment
  BY DEF newGrouping
<1>4. CASE obs' = s /\ UNCHANGED line
  <2> HIDE DEF s
  <2>1. TypeOK'
    BY <1>2, <1>3, <1>4, ChangesCount DEF IInv, TypeOK, environment
  <2> QED
    BY <1>2, <1>3, <1>4, <2>1, Keeping DEF environment, Alike
<1>5. CASE setRanges(groupHandling(s), FALSE, {})
  <2> DEFINE g == groupHandling(s)
  <2>1. setRanges(g, FALSE, {})
    BY <1>5
  <2> HIDE DEF s
  <2>2. Sound(g) /\ Alike(obs, g)
    BY <1>1, <1>2, Grouping, AlikeTwice DEF Sound
  <2> HIDE DEF g
  <2> QED
    BY <1>3, <2>1, <2>2, HandOver, SettingRanges, ChangesCount DEF FreshStatus
<1> QED
  BY <1>4, <1>5 DEF newGrouping

LEMMA OverloadWrittenStep ==
  ASSUME IInv, NEW overload, onVeinChangeOverload(overload)
  PROVE  IInv' /\ FreshStatus
<1> DEFINE s == [obs EXCEPT !.overload = FALSE]
<1>1. Sound(obs) /\ obs \in Obsermatic
  BY HandOver DEF Sound
<1>2. s \in Obsermatic /\ s.ranges = obs.ranges /\ s.conf = obs.conf /\ Alike(obs, s)
  BY <1>1 DEF Obsermatic, Alike
<1>3. changesNow /\ UNCHANGED environment
  BY DEF onVeinChangeOverload
<1>4. CASE obs' = s /\ UNCHANGED line
  <2> HIDE DEF s
  <2>1. TypeOK'
    BY <1>2, <1>3, <1>4, ChangesCount DEF IInv, TypeOK, environment
  <2> QED
    BY <1>2, <1>3, <1>4, <2>1, Keeping DEF environment, Alike
<1>5. CASE setRanges(s, TRUE, {})
  <2> HIDE DEF s
  <2> QED
    BY <1>1, <1>2, <1>3, <1>5, HandOver, SettingRanges, ChangesCount DEF FreshStatus, Sound
<1> QED
  BY <1>4, <1>5 DEF onVeinChangeOverload

LEMMA PreScalingStep ==
  ASSUME IInv, preScalingChanged
  PROVE  IInv' /\ FreshStatus
<1>1. HandedOver(obs)
  BY HandOver DEF Alike
<1> QED
  BY <1>1, SettingRanges, ChangesCount DEF preScalingChanged, FreshStatus

LEMMA NewRangeListStep ==
  ASSUME IInv, NEW c \in Channel, NEW plugged \in BOOLEAN, catchChannelNewRangeList(c, plugged)
  PROVE  IInv' /\ FreshStatus
<1> DEFINE rs == rangesOf(c, plugged)
           s == [obs EXCEPT !.ranges[c] = rs]
<1>1. Sound(obs) /\ obs \in Obsermatic
  BY HandOver DEF Sound
<1>2. rs \in SUBSET Alias /\ Internal \subseteq rs
  BY RangeAssumption DEF rangesOf
<1>3. changesNow /\ UNCHANGED environment /\ setRanges(s, TRUE, {})
  BY DEF catchChannelNewRangeList
<1> HIDE DEF rs
<1>4. s \in Obsermatic
  BY <1>1, <1>2 DEF Obsermatic
<1>5. \A k \in Channel : s.ranges[k] = IF k = c THEN rs ELSE obs.ranges[k]
  BY <1>1 DEF Obsermatic
<1>6. /\ s.actRange = obs.actRange /\ s.rangePar = obs.rangePar /\ s.hardOvl = obs.hardOvl
      /\ s.ranging = obs.ranging
      /\ s.rangeSetPending = obs.rangeSetPending /\ s.readStatusPending = obs.readStatusPending
  BY <1>1 DEF Obsermatic
<1> HIDE DEF s
<1>7. HandedOver(s)
  BY <1>1, <1>2, <1>4, <1>5, <1>6 DEF HandedOver, Sound
<1> QED
  BY <1>3, <1>7, SettingRanges, ChangesCount DEF FreshStatus

\* The head of a line is answered: the others move up, and the last command stays the last.
LEMMA MoveUp ==
  ASSUME NEW l \in Seq(Request), l # <<>>, NEW cmd
  PROVE  /\ 1 \in Places(l, cmd) <=> Head(l)[1] = cmd
         /\ \A i \in Places(Tail(l), cmd) : /\ i + 1 \in Places(l, cmd)
                                            /\ Tail(l)[i] = l[i + 1]
         /\ \A i \in Places(Tail(l), cmd) :
              (\A j \in Places(Tail(l), cmd) : j <= i) => \A j \in Places(l, cmd) : j <= i + 1
         /\ Places(Tail(l), cmd) = {} => \A j \in Places(l, cmd) : j = 1
         /\ Tail(l) # <<>> => Tail(l)[Len(Tail(l))] = l[Len(l)]
<1>1. /\ Len(l) \in Nat \ {0}
      /\ Head(l) = l[1]
      /\ Tail(l) \in Seq(Request)
      /\ Len(Tail(l)) = Len(l) - 1
      /\ \A i \in 1 .. Len(l) - 1 : Tail(l)[i] = l[i + 1]
      /\ Tail(l) # <<>> => Len(Tail(l)) > 0
  BY EmptySeq, LenProperties, HeadTailProperties
<1>2. 1 \in Places(l, cmd) <=> Head(l)[1] = cmd
  BY <1>1 DEF Places
<1>3. \A i \in Places(Tail(l), cmd) : i \in Nat /\ i + 1 \in Places(l, cmd) /\ Tail(l)[i] = l[i + 1]
  BY <1>1 DEF Places
<1>4. ASSUME NEW j \in Places(l, cmd)
      PROVE  j \in Nat \ {0} /\ (j = 1 \/ j - 1 \in Places(Tail(l), cmd))
  <2>1. j \in 1 .. Len(l) /\ l[j][1] = cmd
    BY DEF Places
  <2>2. CASE j # 1
    <3>1. j - 1 \in 1 .. Len(l) - 1 /\ j - 1 + 1 = j
      BY <1>1, <2>1, <2>2
    <3>2. Tail(l)[j - 1] = l[j]
      BY <1>1, <3>1
    <3> QED
      BY <1>1, <2>1, <3>1, <3>2 DEF Places
  <2> QED
    BY <1>1, <2>1, <2>2
<1>5. ASSUME NEW i \in Places(Tail(l), cmd), \A j \in Places(Tail(l), cmd) : j <= i,
             NEW j \in Places(l, cmd)
      PROVE  j <= i + 1
  BY <1>3, <1>4, <1>5
<1>6. Places(Tail(l), cmd) = {} => \A j \in Places(l, cmd) : j = 1
  BY <1>4
<1>7. Tail(l) # <<>> => Tail(l)[Len(Tail(l))] = l[Len(l)]
  BY <1>1
<1> QED
  BY <1>2, <1>3, <1>5, <1>6, <1>7

LEMMA AnswerStep ==
  ASSUME IInv, NEW c \in Channel, catchChannelReply(c)
  PROVE  IInv' /\ FreshStatus
<1> DEFINE l == line[c]
           request == Head(l)
<1>1. /\ l # <<>> /\ line' = [line EXCEPT ![c] = Tail(@)]
      /\ level' = level /\ changes' = changes
  BY DEF catchChannelReply
<1>2. /\ obs \in Obsermatic /\ line \in [Channel -> Seq(Request)] /\ hwRange \in [Channel -> Alias]
      /\ latched \in Flags /\ l \in Seq(Request)
  BY DEF IInv, TypeOK
<1>3. /\ line'[c] = Tail(l)
      /\ \A k \in Channel : k # c => line'[k] = line[k]
      /\ line' \in [Channel -> Seq(Request)]
      /\ request \in Request
  BY <1>1, <1>2, HeadTailProperties
<1>4. /\ obs.rangeSetPending \in Nat /\ obs.readStatusPending \in Nat
      /\ Counted(underWay("setrange"), obs.rangeSetPending)
      /\ Counted(underWay("readstatus"), obs.readStatusPending)
      /\ obs.ranging <=> obs.rangeSetPending > 0
      /\ obs.ranging \in BOOLEAN
  BY <1>2 DEF IInv, Obsermatic
<1>5. /\ request[1] = "setrange" => /\ obs.rangeSetPending > 0
                                    /\ Counted(underWay("setrange")', obs.rangeSetPending - 1)
      /\ request[1] # "setrange" => Counted(underWay("setrange")', obs.rangeSetPending)
      /\ request[1] = "readstatus" => /\ obs.readStatusPending > 0
                                      /\ Counted(underWay("readstatus")', obs.readStatusPending - 1)
      /\ request[1] # "readstatus" => Counted(underWay("readstatus")', obs.readStatusPending)
  BY <1>1, <1>2, <1>4, AnswerIsCounted
<1>6. obs.readStatusPending > 0 =>
        \A k \in Channel : line'[k] = <<>> \/ line'[k][Len(line'[k])] = <<"readstatus">>
  <2> SUFFICES ASSUME obs.readStatusPending > 0, NEW k \in Channel, line'[k] # <<>>
               PROVE  line'[k][Len(line'[k])] = <<"readstatus">>
    OBVIOUS
  <2>1. \A j \in Channel : line[j] = <<>> \/ line[j][Len(line[j])] = <<"readstatus">>
    BY DEF IInv, StatusReadLast
  <2>2. CASE k = c
    <3>1. Tail(l)[Len(Tail(l))] = l[Len(l)]
      BY <1>1, <1>2, <1>3, <2>2, MoveUp
    <3> QED
      BY <1>1, <1>3, <2>1, <2>2, <3>1
  <2> QED
    BY <1>3, <2>1, <2>2
<1>7. \A i \in Places(line'[c], "setrange") :
        (\A j \in Places(line'[c], "setrange") : j <= i) => line'[c][i][2] = obs.actRange[c]
  <2> SUFFICES ASSUME NEW i \in Places(Tail(l), "setrange"),
                      \A j \in Places(Tail(l), "setrange") : j <= i
               PROVE  Tail(l)[i][2] = obs.actRange[c]
    BY <1>3
  <2>1. /\ i + 1 \in Places(l, "setrange") /\ Tail(l)[i] = l[i + 1]
        /\ \A j \in Places(l, "setrange") : j <= i + 1
    BY <1>1, <1>2, MoveUp, ZenonT(30)
  <2>2. \A i1 \in Places(l, "setrange") :
          (\A j \in Places(l, "setrange") : j <= i1) => l[i1][2] = obs.actRange[c]
    BY DEF IInv, LastCommandCounts
  <2> HIDE DEF l
  <2> QED
    BY <2>1, <2>2
<1>8. Places(line'[c], "setrange") = {} =>
        IF request[1] = "setrange" THEN request[2] = obs.actRange[c]
        ELSE obs.rangePar[c] = obs.actRange[c] /\ hwRange[c] = obs.actRange[c]
  <2> SUFFICES ASSUME Places(Tail(l), "setrange") = {}
               PROVE  IF request[1] = "setrange" THEN request[2] = obs.actRange[c]
                      ELSE obs.rangePar[c] = obs.actRange[c] /\ hwRange[c] = obs.actRange[c]
    BY <1>3
  <2>1. /\ 1 \in Places(l, "setrange") <=> request[1] = "setrange"
        /\ \A j \in Places(l, "setrange") : j = 1
    BY <1>1, <1>2, MoveUp
  <2>2. /\ Places(l, "setrange") = {} => obs.rangePar[c] = obs.actRange[c] /\ hwRange[c] = obs.actRange[c]
        /\ \A i \in Places(l, "setrange") :
             (\A j \in Places(l, "setrange") : j <= i) => l[i][2] = obs.actRange[c]
    BY DEF IInv, LastCommandCounts
  <2>3. request = l[1]
    BY <1>1, <1>2, HeadTailProperties
  <2> HIDE DEF l
  <2>4. CASE request[1] = "setrange"
    <3>1. 1 \in Places(l, "setrange") /\ \A j \in Places(l, "setrange") : j <= 1
      BY <2>1, <2>4
    <3>2. l[1][2] = obs.actRange[c]
      BY <2>2, <3>1
    <3> QED
      BY <2>3, <2>4, <3>2
  <2>5. CASE request[1] # "setrange"
    BY <2>1, <2>2, <2>5
  <2> QED
    BY <2>4, <2>5
<1>9. \A k \in Channel : k # c =>
        /\ Places(line'[k], "setrange") = {} => obs.rangePar[k] = obs.actRange[k] /\ hwRange[k] = obs.actRange[k]
        /\ \A i \in Places(line'[k], "setrange") :
             (\A j \in Places(line'[k], "setrange") : j <= i) => line'[k][i][2] = obs.actRange[k]
  <2>1. \A k \in Channel :
          /\ Places(line[k], "setrange") = {} => obs.rangePar[k] = obs.actRange[k] /\ hwRange[k] = obs.actRange[k]
          /\ \A i \in Places(line[k], "setrange") :
               (\A j \in Places(line[k], "setrange") : j <= i) => line[k][i][2] = obs.actRange[k]
    BY DEF IInv, LastCommandCounts
  <2> HIDE DEF l, request
  <2> SUFFICES ASSUME NEW k \in Channel, k # c
               PROVE  /\ Places(line[k], "setrange") = {} => /\ obs.rangePar[k] = obs.actRange[k]
                                                             /\ hwRange[k] = obs.actRange[k]
                      /\ \A i \in Places(line[k], "setrange") :
                           (\A j \in Places(line[k], "setrange") : j <= i) => line[k][i][2] = obs.actRange[k]
    BY <1>3, ZenonT(30)
  <2> QED
    BY <2>1
<1>10. ASSUME request[1] = "setrange",
              obs' = [obs EXCEPT !.rangePar[c] = obs.actRange[c],
                                 !.rangeSetPending = @ - 1,
                                 !.ranging = @ /\ ~(obs.rangeSetPending = 1),
                                 !.waitAfterRanging = IF obs.rangeSetPending = 1 THEN 1 ELSE @],
              hwRange' = IF request[2] \in obs.ranges[c]
                         THEN [hwRange EXCEPT ![c] = request[2]] ELSE hwRange,
              UNCHANGED latched
       PROVE  IInv' /\ FreshStatus
  <2> DEFINE pending == obs.rangeSetPending - 1
             on == obs.ranging /\ ~(obs.rangeSetPending = 1)
             wait == IF obs.rangeSetPending = 1 THEN 1 ELSE obs.waitAfterRanging
             par == [obs.rangePar EXCEPT ![c] = obs.actRange[c]]
  <2>1. pending \in Nat /\ (on <=> pending > 0) /\ on \in BOOLEAN
    BY <1>4, <1>5, <1>10
  <2>2. wait \in 0 .. 1 /\ par \in [Channel -> Alias \cup {Unknown}]
    BY <1>2 DEF Obsermatic
  <2>3. obs' = [obs EXCEPT !.rangePar = par, !.rangeSetPending = pending, !.ranging = on,
                           !.waitAfterRanging = wait]
    BY <1>2, <1>10 DEF Obsermatic
  <2>4. \A k \in Channel : par[k] = IF k = c THEN obs.actRange[c] ELSE obs.rangePar[k]
    BY <1>2 DEF Obsermatic
  <2> HIDE DEF pending, on, wait, par
  <2>5. /\ obs' \in Obsermatic
        /\ obs'.ranges = obs.ranges /\ obs'.conf = obs.conf /\ obs'.actRange = obs.actRange
        /\ obs'.hardOvl = obs.hardOvl /\ obs'.readStatusPending = obs.readStatusPending
        /\ obs'.rangePar = par /\ obs'.rangeSetPending = pending /\ obs'.ranging = on
    BY <1>2, <2>1, <2>2, <2>3 DEF Obsermatic
  <2>6. request[2] \in Alias
    BY <1>3, <1>10, RequestKinds
  <2>7. hwRange' \in [Channel -> Alias]
    BY <1>2, <1>10, <2>6
  <2>8. TypeOK'
    BY <1>1, <1>3, <1>10, <2>5, <2>7 DEF IInv, TypeOK
  <2>9. RangesPossible'
    BY <2>5 DEF IInv, RangesPossible
  <2>10. LastCommandCounts'
    <3> SUFFICES ASSUME NEW k \in Channel
                 PROVE  /\ Places(line'[k], "setrange") = {} => /\ par[k] = obs.actRange[k]
                                                                /\ hwRange'[k] = obs.actRange[k]
                        /\ \A i \in Places(line'[k], "setrange") :
                             (\A j \in Places(line'[k], "setrange") : j <= i)
                               => line'[k][i][2] = obs.actRange[k]
      BY <2>5 DEF LastCommandCounts
    <3>1. CASE k # c
      <4>1. par[k] = obs.rangePar[k] /\ hwRange'[k] = hwRange[k]
        BY <1>2, <1>10, <2>4, <3>1
      <4> QED
        BY <1>9, <3>1, <4>1
    <3>2. CASE k = c
      <4>1. ASSUME Places(line'[c], "setrange") = {}
            PROVE  par[c] = obs.actRange[c] /\ hwRange'[c] = obs.actRange[c]
        <5>1. request[2] = obs.actRange[c]
          BY <1>8, <1>10, <4>1
        <5>2. request[2] \in obs.ranges[c]
          BY <5>1 DEF IInv, RangesPossible
        <5> QED
          BY <1>2, <1>10, <2>4, <5>1, <5>2
      <4> QED
        BY <1>7, <3>2, <4>1
    <3> QED
      BY <3>1, <3>2
  <2>11. StatusReadLast'
    BY <1>6, <2>5 DEF StatusReadLast
  <2>12. /\ Counted(underWay("setrange")', obs'.rangeSetPending)
         /\ Counted(underWay("readstatus")', obs'.readStatusPending)
    BY <1>5, <1>10, <2>5 DEF pending
  <2>13. FreshStatus
    BY <2>5 DEF FreshStatus
  <2> QED
    BY <2>1, <2>5, <2>8, <2>9, <2>10, <2>11, <2>12, <2>13 DEF IInv
<1>11. ASSUME request[1] = "resetstatus",
              latched' = [latched EXCEPT ![c] = FALSE],
              UNCHANGED <<obs, hwRange>>
       PROVE  IInv' /\ FreshStatus
  <2>1. TypeOK'
    BY <1>1, <1>2, <1>3, <1>11 DEF IInv, TypeOK, Flags
  <2>2. RangesPossible'
    BY <1>11 DEF IInv, RangesPossible
  <2>3. LastCommandCounts'
    BY <1>7, <1>8, <1>9, <1>11 DEF LastCommandCounts
  <2>4. StatusReadLast' /\ FreshStatus
    BY <1>6, <1>11 DEF StatusReadLast, FreshStatus
  <2> QED
    BY <1>4, <1>5, <1>11, <2>1, <2>2, <2>3, <2>4 DEF IInv
<1>12. ASSUME request[1] = "readstatus",
              obs' = analyzeStatus([obs EXCEPT !.status[c] = latched[c],
                                               !.readStatusPending = @ - 1]),
              UNCHANGED <<hwRange, latched>>
       PROVE  IInv' /\ FreshStatus
  <2> DEFINE pending == obs.readStatusPending - 1
             status == [obs.status EXCEPT ![c] = latched[c]]
             s == [obs EXCEPT !.status = status, !.readStatusPending = pending]
  <2>1. pending \in Nat /\ status \in Flags
    BY <1>2, <1>4, <1>5, <1>12 DEF Obsermatic, Flags
  <2>2. obs' = IF pending > 0 THEN s ELSE [s EXCEPT !.hardOvl = status]
    BY <1>2, <1>12 DEF analyzeStatus, Obsermatic
  <2> HIDE DEF pending, status
  <2>3. /\ obs' \in Obsermatic
        /\ obs'.ranges = obs.ranges /\ obs'.conf = obs.conf /\ obs'.actRange = obs.actRange
        /\ obs'.rangePar = obs.rangePar /\ obs'.rangeSetPending = obs.rangeSetPending
        /\ obs'.ranging = obs.ranging /\ obs'.readStatusPending = pending
        /\ pending > 0 => obs'.hardOvl = obs.hardOvl
    BY <1>2, <2>1, <2>2 DEF Obsermatic
  <2>4. TypeOK'
    BY <1>1, <1>3, <1>12, <2>3 DEF IInv, TypeOK
  <2>5. RangesPossible'
    BY <2>3 DEF IInv, RangesPossible
  <2>6. LastCommandCounts'
    BY <1>7, <1>8, <1>9, <1>12, <2>3 DEF LastCommandCounts
  <2>7. StatusReadLast'
    BY <1>5, <1>6, <1>12 DEF StatusReadLast
  <2>8. /\ Counted(underWay("setrange")', obs'.rangeSetPending)
        /\ Counted(underWay("readstatus")', obs'.readStatusPending)
    BY <1>5, <1>12, <2>3 DEF pending
  <2>9. FreshStatus
    <3>1. CASE pending > 0
      BY <2>3, <3>1 DEF FreshStatus
    <3>2. CASE ~(pending > 0)
      <4>1. Counted(underWay("readstatus")', 0)
        BY <2>1, <2>3, <2>8, <3>2
      <4>2. underWay("readstatus")' = {}
        BY <4>1, FS_EmptySet DEF Counted
      <4>3. ASSUME NEW k \in Channel
            PROVE  line'[k] = <<>>
        <5> SUFFICES ASSUME line'[k] # <<>>
                     PROVE  FALSE
          OBVIOUS
        <5>1. line'[k][Len(line'[k])] = <<"readstatus">> /\ <<"readstatus">>[1] = "readstatus"
          BY <1>5, <1>6, <1>12
        <5>2. Len(line'[k]) \in 1 .. Len(line'[k])
          <6>1. line'[k] \in Seq(Request)
            BY <1>3
          <6>2. Len(line'[k]) \in Nat \ {0}
            BY <6>1, EmptySeq, LenProperties
          <6> QED
            BY <6>2
        <5>3. Len(line'[k]) \in Places(line'[k], "readstatus")
          BY <5>1, <5>2 DEF Places
        <5> QED
          BY <4>2, <5>3, UnderWayPlacesNext
      <4>4. ASSUME NEW cmd
            PROVE  underWay(cmd)' = {}
        <5>1. \A k \in Channel : Places(line'[k], cmd) = {}
          BY <4>3 DEF Places
        <5> QED
          BY <5>1, UnderWayPlacesNext
      <4> QED
        BY <4>4 DEF FreshStatus
    <3> QED
      BY <3>1, <3>2
  <2> QED
    BY <1>4, <2>3, <2>4, <2>5, <2>6, <2>7, <2>8, <2>9 DEF IInv
<1>13. \/ /\ request[1] = "setrange"
          /\ obs' = [obs EXCEPT !.rangePar[c] = obs.actRange[c],
                                !.rangeSetPending = @ - 1,
                                !.ranging = @ /\ ~(obs.rangeSetPending = 1),
                                !.waitAfterRanging = IF obs.rangeSetPending = 1 THEN 1 ELSE @]
          /\ hwRange' = IF request[2] \in obs.ranges[c]
                        THEN [hwRange EXCEPT ![c] = request[2]] ELSE hwRange
          /\ UNCHANGED latched
       \/ /\ request[1] = "resetstatus"
          /\ latched' = [latched EXCEPT ![c] = FALSE]
          /\ UNCHANGED <<obs, hwRange>>
       \/ /\ request[1] = "readstatus"
          /\ obs' = analyzeStatus([obs EXCEPT !.status[c] = latched[c],
                                              !.readStatusPending = @ - 1])
          /\ UNCHANGED <<hwRange, latched>>
  BY Zenon DEF catchChannelReply
<1> HIDE DEF request, l
<1> QED
  BY <1>10, <1>11, <1>12, <1>13, Zenon

\* Every step keeps the invariant, and believes a hardware overload only when it may.
LEMMA NextStep ==
  ASSUME IInv, [Next]_vars
  PROVE  IInv' /\ FreshStatus
<1>1. CASE ActionHandler
  BY <1>1, MeasuringStep
<1>2. CASE \E c \in Channel : catchChannelReply(c)
  BY <1>2, AnswerStep
<1>3. CASE ParameterWritten
  <2>1. ASSUME NEW c \in Channel, NEW r \in Alias, onNewRange(c, r)
        PROVE  IInv' /\ FreshStatus
    BY <2>1, NewRangeStep
  <2>2. ASSUME NEW on \in BOOLEAN, newRangeAuto(on)
        PROVE  IInv' /\ FreshStatus
    BY <2>2, NewRangeAutoStep
  <2>3. ASSUME NEW on \in BOOLEAN, newGrouping(on)
        PROVE  IInv' /\ FreshStatus
    BY <2>3, NewGroupingStep
  <2>4. ASSUME NEW overload \in OverloadWrites, onVeinChangeOverload(overload)
        PROVE  IInv' /\ FreshStatus
    BY <2>4, OverloadWrittenStep
  <2>5. CASE preScalingChanged
    BY <2>5, PreScalingStep
  <2> QED
    BY <1>3, <2>1, <2>2, <2>3, <2>4, <2>5 DEF ParameterWritten
<1>4. CASE \E c \in Channel, plugged \in BOOLEAN : catchChannelNewRangeList(c, plugged)
  BY <1>4, NewRangeListStep
<1>5. CASE \E c \in Channel : hardwareLatches(c)
  <2>1. /\ TypeOK'
        /\ UNCHANGED <<obs, line, hwRange>>
    BY <1>5 DEF hardwareLatches, IInv, TypeOK, Flags
  <2> QED
    BY <2>1, Keeping
<1>6. CASE \E c \in Channel, l \in Level : loadChanges(c, l)
  <2>1. /\ TypeOK'
        /\ UNCHANGED <<obs, line, hwRange>>
    <3>1. changesNow
      BY <1>6 DEF loadChanges
    <3>2. changes' \in 0 .. MaxChanges
      BY <3>1, ChangesCount
    <3> QED
      BY <1>6, <3>2 DEF loadChanges, IInv, TypeOK
  <2> QED
    BY <2>1, Keeping
<1>7. CASE UNCHANGED vars
  <2>1. /\ TypeOK'
        /\ UNCHANGED <<obs, line, hwRange>>
    BY <1>7 DEF vars, environment, IInv, TypeOK
  <2> QED
    BY <2>1, Keeping
<1> QED
  BY <1>1, <1>2, <1>3, <1>4, <1>5, <1>6, <1>7 DEF Next

LEMMA IInvAlways == Spec => []IInv
<1>1. IInv /\ [Next]_vars => IInv'
  BY NextStep
<1> QED
  BY IInvInit, <1>1, PTL DEF Spec

-----------------------------------------------------------------------------
(* The results *)

\* The obsermatic, its channels and what is under way have their types.
THEOREM TypeCorrect == Spec => []TypeOK
<1>1. IInv => TypeOK
  BY DEF IInv
<1> QED
  BY IInvAlways, <1>1, PTL

\* However answers, new measurements and what clients write come together, the counters
\* m_nRangeSetPending and m_nReadStatusPending are the numbers of requests under way, and
\* SIG_Ranging tells whether ranges are being set.
THEOREM CountersAlwaysMatch == Spec => []CountersMatch
<1>1. IInv => CountersMatch
  <2> SUFFICES ASSUME IInv
               PROVE  CountersMatch
    OBVIOUS
  <2>1. obs.ranging \in BOOLEAN
    BY DEF IInv, TypeOK, Obsermatic
  <2>2. (obs.rangeSetPending > 0) \in BOOLEAN
    OBVIOUS
  <2>3. obs.ranging = (obs.rangeSetPending > 0)
    BY <2>1, <2>2 DEF IInv
  <2> QED
    BY <2>3 DEF IInv, Counted, CountersMatch
<1> QED
  BY IInvAlways, <1>1, PTL

\* When no range is being set the parameters clients see, the configuration to be saved and
\* the hardware agree on the ranges.
THEOREM QuietIsSet == Spec => []QuietMeansSet
<1>1. IInv => QuietMeansSet
  <2> SUFFICES ASSUME IInv, obs.rangeSetPending = 0
               PROVE  /\ obs.rangePar = obs.actRange
                      /\ hwRange = obs.actRange
                      /\ obs.conf = obs.actRange
    BY DEF QuietMeansSet
  <2>1. underWay("setrange") = {}
    BY FS_EmptySet DEF IInv, Counted
  <2>2. \A c \in Channel : Places(line[c], "setrange") = {}
    BY <2>1, UnderWayPlaces
  <2>3. \A c \in Channel : /\ obs.rangePar[c] = obs.actRange[c]
                           /\ hwRange[c] = obs.actRange[c]
                           /\ obs.conf[c] = obs.actRange[c]
    BY <2>2 DEF IInv, LastCommandCounts, RangesPossible
  <2>4. /\ obs.rangePar \in [Channel -> Alias \cup {Unknown}]
        /\ obs.actRange \in [Channel -> Alias] /\ obs.conf \in [Channel -> Alias]
        /\ hwRange \in [Channel -> Alias]
    BY DEF IInv, TypeOK, Obsermatic
  <2> QED
    BY <2>3, <2>4
<1> QED
  BY IInvAlways, <1>1, PTL

\* No hardware overload is believed from a status that is older than a range change or a
\* reset still under way.
THEOREM StatusIsAlwaysFresh == Spec => StatusIsFresh
<1>1. IInv /\ [Next]_vars => [FreshStatus]_vars
  BY NextStep
<1> QED
  BY IInvAlways, <1>1, PTL DEF Spec, StatusIsFresh, FreshStatus
=============================================================================
