----------------------------- MODULE Sec1Proofs -----------------------------
(***************************************************************************)
(* What holds of Sec1 for any counts, limits and numbers of writes,        *)
(* checked by TLAPS.  The types and that the status rests hold whatever    *)
(* interferes; the results and the sequences under Undisturbed.            *)
(***************************************************************************)
EXTENDS Sec1, LineProofs

-----------------------------------------------------------------------------
(* The requests and their order *)

start == "startmeasurement"
stop == "stopmeas"
readFinalCount == "readfinalenegrycounter"
resetInt == "resetintregister"
Mode == {"SINGLEERRORMASTER", "CONTERRORMASTER"}

\* What the set-up sends before it starts the measurement
SetupRequest == {"setsync", "setmeaspulses", "setmastermux", "setslavemux", "setslavemeasmode",
                 "enableinterrupt"} \cup Mode

\* The number of a state of the set-up, and of the request it sends
number(x) ==
  CASE x = "setsync" -> 1
    [] x = "setmeaspulses" -> 2
    [] x = "setmastermux" -> 3
    [] x = "setslavemux" -> 4
    [] x \in Mode \cup {"setmastermeasmode"} -> 5
    [] x = "setslavemeasmode" -> 6
    [] x = "enableinterrupt" -> 7
    [] x = start -> 8
    [] OTHER -> 9

stage(q) == number(q.setup)

\* y never follows x in the line.
misplaced(x, y) ==
  \/ x = start /\ y = start
  \/ x = "setsync" /\ y \in {start, stop}
  \/ x = readFinalCount /\ y = readFinalCount
  \/ x = resetInt /\ y = resetInt
  \/ x \in SetupRequest /\ y \in SetupRequest /\ number(y) <= number(x)
  \/ x \in SetupRequest /\ number(x) >= 3 /\ y = readFinalCount
  \/ x \in SetupRequest /\ number(x) >= 5 /\ y = resetInt
  \/ x = start /\ y \in SetupRequest /\ number(y) >= 3

Misplaced == {xy \in Request \X Request : misplaced(xy[1], xy[2])}

Startstop == {<<start, stop>>}

-----------------------------------------------------------------------------
(* The inductive invariant, of a program q, a line l and calculators h *)

Typed(q, l, h) == q \in Program /\ l \in Seq(Request) /\ h \in Calculator

\* The answer to a start of before may move the set-up one state ahead of its requests,
\* never more.  From the third state on no start and no stop of before is under way.
SettingUp(q, l, h) ==
  /\ stage(q) # 9 => q.life = "active"
  /\ stage(q) < 8 => q.startStop /\ ~q.running
  /\ \A x \in Elems(l) \cap SetupRequest : number(x) <= stage(q) /\ stage(q) <= number(x) + 1
  /\ stage(q) < 8 /\ "setsync" \notin Elems(l) =>
       start \notin Elems(l) /\ stop \notin Elems(l) /\ ~counting(h)
  /\ stage(q) = 2 /\ "setsync" \in Elems(l) => start \notin Elems(l)
  /\ "enableinterrupt" \in Elems(l) /\ stage(q) = 8 => q.running /\ start \in Elems(l)

\* The master measures in the mode that is set, or is told so in time.
ModeIsSet(q, l, h) ==
  /\ \A x \in Elems(l) \cap Mode : x = masterMeasMode(q)
  /\ (stage(q) \in 5 .. 8 \/ q.running) /\ Elems(l) \cap Mode = {} => h.mode = masterMeasMode(q)
  /\ q.running => Elems(l) \cap Mode = {}

\* The handling of an interrupt of before is over before the set-up starts a measurement.
ReadsInTime(q, l) ==
  /\ readFinalCount \in Elems(l) => q.interrupt = "read" /\ (stage(q) < 8 => stage(q) <= 4)
  /\ resetInt \in Elems(l) => q.interrupt = "reset" /\ (stage(q) < 8 => stage(q) <= 6)

\* A measurement is about to be started; or it runs, and what is read is its own count.
Measuring(q, l, h) ==
  q.running =>
    /\ q.startStop
    /\ IF start \in Elems(l)
       THEN /\ ~counting(h) /\ readFinalCount \notin Elems(l) /\ resetInt \notin Elems(l)
            /\ InOrder(l, Startstop)
            /\ ~q.waiting
       ELSE /\ stop \notin Elems(l)
            /\ readFinalCount \in Elems(l) => h.final = "complete"
            /\ readFinalCount \in Elems(l) \/ resetInt \in Elems(l) =>
                 (h.mode = "SINGLEERRORMASTER" => ~counting(h))
            /\ q.waiting => /\ ~counting(h)
                            /\ readFinalCount \notin Elems(l) /\ resetInt \notin Elems(l)

\* Nothing runs: the calculators have stopped or will be.
Stopping(q, l, h) ==
  ~q.running => (~counting(h) /\ start \notin Elems(l)) \/ EndsWith(l, stop, start)

\* Results so far and to come are as many as asked for.
Enough(q, l) ==
  /\ q.running \/ stage(q) < 8 => q.measNo + q.toGo >= q.count
  /\ q.running /\ resetInt \in Elems(l) => q.measNo + q.toGo >= q.count + 1

Complete(q) ==
  /\ q.final \in {"zero", "complete"}
  /\ q.result \in {"zero", "complete"}
  /\ \A i \in DOMAIN q.stored : q.stored[i] = "complete"

Inv(q, l, h) ==
  /\ q.waiting => q.running
  /\ InOrder(l, Misplaced)
  /\ SettingUp(q, l, h)
  /\ ModeIsSet(q, l, h)
  /\ ReadsInTime(q, l)
  /\ Measuring(q, l, h)
  /\ Stopping(q, l, h)
  /\ Enough(q, l)
  /\ Complete(q)

IInv == TypeOK /\ Inv(sec, line, hw)

\* Stops and changes of the mode do not meet a measurement being set up, and the service
\* refuses neither stops nor the mode.
Undisturbed ==
  Interference = {} /\ Refusable \cap ({stop} \cup Mode) = {}

-----------------------------------------------------------------------------
(* Names *)

SetupState == {"setsync", "setmeaspulses", "setmastermux", "setslavemux", "setmastermeasmode",
               "setslavemeasmode", "enableinterrupt", start}

LEMMA States ==
  /\ Range1(setupStates) = SetupState
  /\ \A state \in SetupState :
       /\ setupNext(state) \in SetupState \cup {"off"}
       /\ number(state) \in 1 .. 8 /\ number(setupNext(state)) = number(state) + 1
  /\ setupStates[1] = "setsync"
<1> DEFINE s == setupStates
<1>1. /\ Len(s) = 8 /\ DOMAIN s = 1 .. 8
      /\ s[1] = "setsync" /\ s[2] = "setmeaspulses" /\ s[3] = "setmastermux"
      /\ s[4] = "setslavemux" /\ s[5] = "setmastermeasmode" /\ s[6] = "setslavemeasmode"
      /\ s[7] = "enableinterrupt" /\ s[8] = start
  BY DEF setupStates, start
<1>2. \A i : i \in 1 .. 8 <=> i \in {1, 2, 3, 4, 5, 6, 7, 8}
  OBVIOUS
<1> HIDE DEF s
<1>3. {s[i] : i \in DOMAIN s} = SetupState
  BY <1>1, <1>2 DEF SetupState
<1>4. ASSUME NEW k \in 1 .. 8
      PROVE  /\ number(s[k]) = k
             /\ (CHOOSE i \in DOMAIN s : s[i] = s[k]) = k
  <2>1. \A i \in 1 .. 8 : number(s[i]) = i
    BY <1>1, <1>2 DEF number, Mode, start
  <2>2. \A i \in DOMAIN s : s[i] = s[k] => i = k
    BY <1>1, <2>1
  <2> QED
    BY <1>1, <2>1, <2>2
<1>5. ASSUME NEW k \in 1 .. 8
      PROVE  setupNext(s[k]) = IF k = 8 THEN "off" ELSE s[k + 1]
  BY <1>1, <1>4 DEF setupNext, s
<1>6. number("off") = 9
  BY DEF number, Mode, start
<1>7. ASSUME NEW state \in SetupState
      PROVE  /\ setupNext(state) \in SetupState \cup {"off"}
             /\ number(state) \in 1 .. 8 /\ number(setupNext(state)) = number(state) + 1
  <2>1. PICK k \in 1 .. 8 : state = s[k]
    BY <1>1, <1>3, <1>7
  <2>2. CASE k = 8
    BY <1>4, <1>5, <1>6, <2>1, <2>2
  <2>3. CASE k # 8
    <3>1. k + 1 \in 1 .. 8
      BY <2>3
    <3> QED
      BY <1>1, <1>3, <1>4, <1>5, <2>1, <2>3, <3>1
  <2> QED
    BY <2>2, <2>3
<1> QED
  BY <1>1, <1>3, <1>7 DEF Range1, s

LEMMA Requests ==
  Request = SetupRequest \cup {start, stop, readFinalCount, resetInt, "fetchecalcunits",
                               "setsecintnotifier", "freeecalcunits", "actualize"}
BY States DEF Request, SetupState, SetupRequest, Mode, start, stop, readFinalCount, resetInt

LEMMA Numbers ==
  /\ \A x \in SetupRequest : number(x) \in 1 .. 7 /\ (number(x) = 1 <=> x = "setsync")
                             /\ (x \in Mode <=> number(x) = 5)
                             /\ (number(x) = 7 <=> x = "enableinterrupt")
  /\ \A state \in SetupState \cup {"off"} :
       number(state) \in 1 .. 9 /\ (number(state) = 9 <=> state = "off")
       /\ (number(state) = 8 <=> state = start)
       /\ (number(state) = 5 <=> state = "setmastermeasmode")
       /\ (number(state) < 8 /\ number(state) # 5 => state \in SetupRequest)
       /\ (number(state) = 1 <=> state = "setsync")
  /\ number("setsync") = 1
  /\ {start, stop, readFinalCount, resetInt, "actualize", "fetchecalcunits", "setsecintnotifier",
      "freeecalcunits"} \cap SetupRequest = {}
BY DEF number, SetupRequest, SetupState, Mode, start, stop, readFinalCount, resetInt


-----------------------------------------------------------------------------
(* Answers take the head off the line *)

\* What is known when a request is answered, by its kind
HeadFacts(q, x, t, h) ==
  /\ x = readFinalCount =>
       /\ q.interrupt = "read" /\ readFinalCount \notin Elems(t) /\ resetInt \notin Elems(t)
       /\ stage(q) < 8 => stage(q) <= 4
       /\ q.running => /\ start \notin Elems(t) /\ stop \notin Elems(t) /\ ~q.waiting
                       /\ h.final = "complete"
                       /\ h.mode = "SINGLEERRORMASTER" => ~counting(h)
  /\ x = resetInt =>
       /\ q.interrupt = "reset" /\ readFinalCount \notin Elems(t) /\ resetInt \notin Elems(t)
       /\ q.running => /\ start \notin Elems(t) /\ stop \notin Elems(t) /\ ~q.waiting
                       /\ h.mode = "SINGLEERRORMASTER" => ~counting(h)
                       /\ q.measNo + q.toGo >= q.count + 1
  /\ x \in SetupRequest \cup {start} =>
       /\ \A y \in Elems(t) \cap SetupRequest : number(y) = stage(q)
       /\ stage(q) = 1 => start \notin Elems(t)
       /\ readFinalCount \in Elems(t) /\ stage(q) < 8 => stage(q) <= 3
       /\ resetInt \in Elems(t) /\ stage(q) < 8 => stage(q) <= 5

LEMMA Heads ==
  ASSUME NEW q, NEW l, NEW h, Typed(q, l, h), Inv(q, l, h), l # <<>>
  PROVE  HeadFacts(q, Head(l), Tail(l), h)
<1> DEFINE x == Head(l)
           t == Tail(l)
<1>1. /\ x \in Request /\ t \in Seq(Request)
      /\ Elems(l) = {x} \cup Elems(t)
      /\ InOrder(t, Misplaced)
      /\ Elems(t) \subseteq Request
      /\ \A y \in Elems(t) : ~misplaced(x, y)
  <2>1. /\ l \in Seq(Request) /\ InOrder(l, Misplaced)
    BY DEF Typed, Inv
  <2>2. /\ x \in Request /\ t \in Seq(Request) /\ Elems(l) = {x} \cup Elems(t)
        /\ InOrder(t, Misplaced) /\ \A y \in Elems(t) : <<x, y>> \notin Misplaced
    BY <2>1, Answered
  <2>3. Elems(t) \subseteq Request
    BY <2>2 DEF Elems
  <2> QED
    BY <2>2, <2>3 DEF Misplaced
<1>2. /\ stage(q) \in 1 .. 9
      /\ \A y \in Elems(l) \cap SetupRequest : number(y) \in 1 .. 7
  BY States, Numbers DEF Typed, Program, stage
<1> HIDE DEF x, t
<1>3. SettingUp(q, l, h) /\ ReadsInTime(q, l) /\ Measuring(q, l, h) /\ Enough(q, l)
  BY DEF Inv
<1>4. ASSUME x = readFinalCount
      PROVE  HeadFacts(q, x, t, h)
  <2>1. readFinalCount \in Elems(l) /\ readFinalCount \notin Elems(t)
    BY <1>1, <1>4 DEF misplaced
  <2>2. readFinalCount # resetInt /\ readFinalCount \notin SetupRequest \cup {start}
    BY Numbers DEF readFinalCount, resetInt, start
  <2>3. resetInt \notin Elems(t)
    BY <1>1, <1>3, <2>1 DEF ReadsInTime
  <2>4. ASSUME q.running
        PROVE  /\ start \notin Elems(t) /\ stop \notin Elems(t) /\ ~q.waiting
               /\ h.final = "complete"
               /\ h.mode = "SINGLEERRORMASTER" => ~counting(h)
    BY <1>1, <1>3, <2>1, <2>4 DEF Measuring
  <2> QED
    BY <1>3, <1>4, <2>1, <2>2, <2>3, <2>4 DEF HeadFacts, ReadsInTime
<1>5. ASSUME x = resetInt
      PROVE  HeadFacts(q, x, t, h)
  <2>1. resetInt \in Elems(l) /\ resetInt \notin Elems(t)
    BY <1>1, <1>5 DEF misplaced
  <2>2. readFinalCount # resetInt /\ resetInt \notin SetupRequest \cup {start}
    BY Numbers DEF readFinalCount, resetInt, start
  <2>3. readFinalCount \notin Elems(t)
    BY <1>1, <1>3, <2>1 DEF ReadsInTime
  <2>4. ASSUME q.running
        PROVE  /\ start \notin Elems(t) /\ stop \notin Elems(t) /\ ~q.waiting
               /\ h.mode = "SINGLEERRORMASTER" => ~counting(h)
               /\ q.measNo + q.toGo >= q.count + 1
    BY <1>1, <1>3, <2>1, <2>4 DEF Measuring, Enough
  <2> QED
    BY <1>3, <1>5, <2>1, <2>2, <2>3, <2>4 DEF HeadFacts, ReadsInTime
<1>6. ASSUME x \in SetupRequest
      PROVE  HeadFacts(q, x, t, h)
  <2>1. x # readFinalCount /\ x # resetInt /\ x # start
    BY <1>6, Numbers
  <2>2. number(x) \in 1 .. 7 /\ number(x) <= stage(q) /\ stage(q) <= number(x) + 1
    BY <1>1, <1>2, <1>3, <1>6 DEF SettingUp
  <2>3. ASSUME NEW y \in Elems(t) \cap SetupRequest
        PROVE  number(y) = stage(q)
    <3>1. number(y) \in 1 .. 7 /\ number(y) <= stage(q)
      BY <1>1, <1>2, <1>3 DEF SettingUp
    <3>2. ~(number(y) <= number(x))
      BY <1>1, <1>6 DEF misplaced
    <3> QED
      BY <1>2, <2>2, <3>1, <3>2
  <2>4. stage(q) = 1 => start \notin Elems(t)
    <3>1. stage(q) = 1 => x = "setsync"
      BY <1>2, <1>6, <2>2, Numbers
    <3> QED
      BY <1>1, <3>1 DEF misplaced
  <2>5. readFinalCount \in Elems(t) => number(x) <= 2
    BY <1>1, <1>6, <2>2 DEF misplaced
  <2>6. resetInt \in Elems(t) => number(x) <= 4
    BY <1>1, <1>6, <2>2 DEF misplaced
  <2> QED
    BY <1>2, <2>1, <2>2, <2>3, <2>4, <2>5, <2>6 DEF HeadFacts
<1>7. ASSUME x = start
      PROVE  HeadFacts(q, x, t, h)
  <2>1. x # readFinalCount /\ x # resetInt
    BY <1>7 DEF start, readFinalCount, resetInt
  <2>2. start \in Elems(l) /\ start \notin Elems(t) /\ "setsync" # start
    BY <1>1, <1>7 DEF misplaced, start
  <2>3. CASE stage(q) < 8
    <3>1. "setsync" \in Elems(t)
      BY <1>1, <1>3, <1>7, <2>2, <2>3 DEF SettingUp
    <3>2. "setsync" \in Elems(l) \cap SetupRequest /\ number("setsync") = 1
      BY <1>1, <3>1, Numbers DEF SetupRequest
    <3>3. stage(q) = 1
      BY <1>2, <1>3, <2>2, <3>2 DEF SettingUp
    <3> QED
      BY <1>1, <1>2, <1>3, <2>1, <2>2, <3>3 DEF HeadFacts, SettingUp
  <2>4. CASE stage(q) >= 8
    <3>1. ASSUME NEW y \in Elems(t) \cap SetupRequest
          PROVE  FALSE
      <4>1. number(y) \in 1 .. 7 /\ stage(q) <= number(y) + 1
        BY <1>1, <1>2, <1>3 DEF SettingUp
      <4>2. number(y) = 7
        BY <1>2, <2>4, <4>1
      <4> QED
        BY <1>1, <1>7, <4>2 DEF misplaced
    <3> QED
      BY <1>2, <2>1, <2>2, <2>4, <3>1 DEF HeadFacts
  <2> QED
    BY <1>2, <2>3, <2>4
<1>8. ASSUME x \notin SetupRequest \cup {start, readFinalCount, resetInt}
      PROVE  HeadFacts(q, x, t, h)
  BY <1>8 DEF HeadFacts
<1> QED
  BY <1>4, <1>5, <1>6, <1>7, <1>8 DEF x, t

LEMMA Carried ==
  ASSUME NEW h \in Calculator, NEW x \in Request
  PROVE  /\ carryOut(h, x) \in Calculator
         /\ carryOut(h, x).mode = IF x \in Mode THEN x ELSE h.mode
         /\ x \notin {start, stop} => /\ counting(carryOut(h, x)) <=> counting(h)
                                      /\ carryOut(h, x).final = h.final
         /\ x = stop => ~counting(carryOut(h, x))
<1> DEFINE k == carryOut(h, x)
<1>1. CASE x \in Mode
  <2>1. k = [h EXCEPT !.mode = x] /\ x \notin {start, stop}
    BY <1>1 DEF carryOut, Mode, start, stop
  <2> QED
    BY <1>1, <2>1 DEF Calculator, counting, Mode, stop
<1>2. CASE x = start
  <2>1. k = [h EXCEPT !.phase = "armed", !.final = IF @ = "zero" THEN @ ELSE "stale"]
    BY <1>2 DEF carryOut, start
  <2>2. x \notin Mode /\ x # stop
    BY <1>2 DEF Mode, start, stop
  <2> QED
    BY <1>2, <2>1, <2>2 DEF Calculator, FinalCount, counting
<1>3. CASE x = stop
  <2>1. k = [h EXCEPT !.phase = "stopped", !.final = IF counting(h) THEN "partial" ELSE @]
    BY <1>3 DEF carryOut, stop
  <2>2. x \notin Mode
    BY <1>3 DEF Mode, stop
  <2> QED
    BY <1>3, <2>1, <2>2 DEF Calculator, FinalCount, counting
<1>4. CASE x = resetInt
  <2>1. k = [h EXCEPT !.intBit = FALSE]
    BY <1>4 DEF carryOut, resetInt
  <2>2. x \notin Mode /\ x \notin {start, stop}
    BY <1>4 DEF Mode, start, stop, resetInt
  <2> QED
    BY <2>1, <2>2 DEF Calculator, counting
<1>5. CASE x \notin Mode \cup {start, stop, resetInt}
  <2>1. k = h \/ k = [h EXCEPT !.freed = TRUE]
    BY <1>5 DEF carryOut, Mode, start, stop, resetInt
  <2> QED
    BY <1>5, <2>1 DEF Calculator, counting
<1> QED
  BY <1>1, <1>2, <1>3, <1>4, <1>5

\* The service has carried out the oldest request, or has refused it: the invariant holds
\* before the program takes notice.
LEMMA Taken ==
  ASSUME NEW q, NEW l, NEW h, Typed(q, l, h), Inv(q, l, h), l # <<>>, NEW k,
         k = carryOut(h, Head(l)) \/ (k = h /\ Head(l) \notin {stop} \cup Mode)
  PROVE  Typed(q, Tail(l), k) /\ Inv(q, Tail(l), k)
<1> DEFINE x == Head(l)
           t == Tail(l)
<1>1. /\ x \in Request /\ t \in Seq(Request)
      /\ Elems(l) = {x} \cup Elems(t)
      /\ InOrder(t, Misplaced)
      /\ InOrder(l, Startstop) => InOrder(t, Startstop) /\ (x = start => stop \notin Elems(t))
      /\ EndsWith(l, stop, start) => EndsWith(t, stop, start) \/ (x = stop /\ start \notin Elems(t))
      /\ \A y \in Elems(t) : ~misplaced(x, y)
  <2>1. /\ l \in Seq(Request) /\ InOrder(l, Misplaced)
    BY DEF Typed, Inv
  <2>2. /\ x \in Request /\ t \in Seq(Request) /\ Elems(l) = {x} \cup Elems(t)
        /\ InOrder(t, Misplaced) /\ \A y \in Elems(t) : <<x, y>> \notin Misplaced
        /\ InOrder(l, Startstop) => InOrder(t, Startstop) /\ \A y \in Elems(t) : <<x, y>> \notin Startstop
        /\ EndsWith(l, stop, start) => EndsWith(t, stop, start) \/ (x = stop /\ start \notin Elems(t))
    BY <2>1, Answered
  <2>3. Elems(t) \subseteq Request
    BY <2>2 DEF Elems
  <2> QED
    BY <2>2, <2>3 DEF Misplaced, Startstop
<1>2. /\ k \in Calculator
      /\ k.mode = h.mode \/ (x \in Mode /\ k.mode = x)
      /\ x \in Mode => k.mode = x
      /\ x \notin {start, stop} => (counting(k) <=> counting(h)) /\ k.final = h.final
      /\ x = stop => ~counting(k)
      /\ x = start => (k = h \/ counting(k)) 
  <2>1. h \in Calculator
    BY DEF Typed
  <2>2. CASE k = h /\ Head(l) \notin {stop} \cup Mode
    BY <2>1, <2>2
  <2>3. CASE k = carryOut(h, Head(l))
    <3>1. x = start => counting(k)
      BY <2>1, <2>3 DEF carryOut, start, counting, Calculator
    <3> QED
      BY <1>1, <2>1, <2>3, <3>1, Carried
  <2> QED
    BY <2>2, <2>3
<1>3. HeadFacts(q, x, t, h)
  BY Heads
<1>4. stage(q) \in 1 .. 9
  BY States, Numbers DEF Typed, Program, stage
<1>5. q \in Program
  BY DEF Typed
<1> HIDE DEF x, t
<1>6. /\ Mode \subseteq SetupRequest /\ start \notin SetupRequest /\ stop \notin SetupRequest
      /\ start # stop /\ "enableinterrupt" \in SetupRequest /\ number("enableinterrupt") = 7
      /\ "setsync" \in SetupRequest /\ "setsync" \notin {start, stop}
      /\ \A y \in Mode : number(y) = 5
  BY Numbers DEF SetupRequest, start, stop, Mode
<1>7. SettingUp(q, t, k)
  <2>1. /\ stage(q) # 9 => q.life = "active"
        /\ stage(q) < 8 => q.startStop /\ ~q.running
        /\ \A y \in Elems(t) \cap SetupRequest : number(y) <= stage(q) /\ stage(q) <= number(y) + 1
        /\ stage(q) = 2 /\ "setsync" \in Elems(t) => start \notin Elems(t)
    BY <1>1 DEF Inv, SettingUp
  <2>2. ASSUME stage(q) < 8, "setsync" \notin Elems(t)
        PROVE  start \notin Elems(t) /\ stop \notin Elems(t) /\ ~counting(k)
    <3>1. CASE x = "setsync"
      <4>1. start \notin Elems(t) /\ stop \notin Elems(t)
        BY <1>1, <3>1 DEF misplaced
      <4>2. ~counting(h)
        <5>1. ~EndsWith(l, stop, start)
          <6>1. ~EndsWith(t, stop, start)
            BY <4>1 DEF EndsWith, Elems
          <6> QED
            BY <1>1, <1>6, <3>1, <6>1
        <5>2. ~q.running
          BY <2>1, <2>2
        <5> QED
          BY <5>1, <5>2 DEF Inv, Stopping
      <4> QED
        BY <1>2, <1>6, <3>1, <4>1, <4>2
    <3>2. CASE x # "setsync"
      <4>1. start \notin Elems(l) /\ stop \notin Elems(l) /\ ~counting(h)
        BY <1>1, <2>2, <3>2 DEF Inv, SettingUp
      <4> QED
        BY <1>1, <1>2, <4>1
    <3> QED
      BY <3>1, <3>2
  <2>3. ASSUME "enableinterrupt" \in Elems(t), stage(q) = 8
        PROVE  q.running /\ start \in Elems(t)
    <3>1. q.running /\ start \in Elems(l)
      BY <1>1, <2>3 DEF Inv, SettingUp
    <3>2. x # start
      BY <1>1, <1>6, <2>3 DEF misplaced
    <3> QED
      BY <1>1, <3>1, <3>2
  <2> QED
    BY <2>1, <2>2, <2>3 DEF SettingUp
<1>8. ModeIsSet(q, t, k)
  <2>1. /\ \A y \in Elems(l) \cap Mode : y = masterMeasMode(q)
        /\ (stage(q) \in 5 .. 8 \/ q.running) /\ Elems(l) \cap Mode = {} => h.mode = masterMeasMode(q)
        /\ q.running => Elems(l) \cap Mode = {}
    BY DEF Inv, ModeIsSet
  <2>2. CASE x \in Mode
    BY <1>1, <1>2, <2>1, <2>2 DEF ModeIsSet
  <2>3. CASE x \notin Mode
    BY <1>1, <1>2, <2>1, <2>3 DEF ModeIsSet
  <2> QED
    BY <2>2, <2>3
<1>9. ReadsInTime(q, t)
  BY <1>1 DEF Inv, ReadsInTime
<1>10. Measuring(q, t, k)
  <2> SUFFICES ASSUME q.running
               PROVE  /\ q.startStop
                      /\ IF start \in Elems(t)
                         THEN /\ ~counting(k) /\ readFinalCount \notin Elems(t) /\ resetInt \notin Elems(t)
                              /\ InOrder(t, Startstop)
                              /\ ~q.waiting
                         ELSE /\ stop \notin Elems(t)
                              /\ readFinalCount \in Elems(t) => k.final = "complete"
                              /\ readFinalCount \in Elems(t) \/ resetInt \in Elems(t) =>
                                   (k.mode = "SINGLEERRORMASTER" => ~counting(k))
                              /\ q.waiting => /\ ~counting(k)
                                              /\ readFinalCount \notin Elems(t) /\ resetInt \notin Elems(t)
    BY DEF Measuring
  <2>1. /\ Measuring(q, l, h) /\ q.startStop
        /\ Elems(l) \cap Mode = {}
    BY DEF Inv, Measuring, ModeIsSet
  <2>2. CASE start \in Elems(t)
    <3>1. x # start
      BY <1>1, <2>2 DEF misplaced
    <3>2. /\ ~counting(h) /\ readFinalCount \notin Elems(l) /\ resetInt \notin Elems(l)
          /\ InOrder(l, Startstop) /\ ~q.waiting
      BY <1>1, <2>1, <2>2 DEF Measuring
    <3> QED
      BY <1>1, <1>2, <2>1, <2>2, <3>1, <3>2
  <2>3. CASE start \notin Elems(t) /\ x = start
    <3>1. /\ readFinalCount \notin Elems(l) /\ resetInt \notin Elems(l)
          /\ InOrder(l, Startstop) /\ ~q.waiting
      BY <1>1, <2>1, <2>3 DEF Measuring
    <3> QED
      BY <1>1, <2>1, <2>3, <3>1
  <2>4. CASE start \notin Elems(t) /\ x # start
    <3>1. start \notin Elems(l) /\ stop \notin Elems(l) /\ x # stop /\ x \notin Mode
      BY <1>1, <2>1, <2>4 DEF Measuring
    <3>2. (counting(k) <=> counting(h)) /\ k.final = h.final /\ k.mode = h.mode
      BY <1>2, <2>4, <3>1
    <3> QED
      BY <1>1, <2>1, <2>4, <3>1, <3>2 DEF Measuring
  <2> QED
    BY <2>2, <2>3, <2>4
<1>11. Stopping(q, t, k)
  <2> SUFFICES ASSUME ~q.running
               PROVE  (~counting(k) /\ start \notin Elems(t)) \/ EndsWith(t, stop, start)
    BY DEF Stopping
  <2>1. (~counting(h) /\ start \notin Elems(l)) \/ EndsWith(l, stop, start)
    BY DEF Inv, Stopping
  <2>2. CASE EndsWith(l, stop, start)
    BY <1>1, <1>2, <2>2
  <2>3. CASE ~counting(h) /\ start \notin Elems(l)
    BY <1>1, <1>2, <2>3
  <2> QED
    BY <2>1, <2>2, <2>3
<1>12. Enough(q, t)
  BY <1>1 DEF Inv, Enough
<1>13. Typed(q, t, k)
  BY <1>1, <1>2, <1>5 DEF Typed
<1>14. Inv(q, t, k)
  BY <1>1, <1>7, <1>8, <1>9, <1>10, <1>11, <1>12 DEF Inv
<1> QED
  BY <1>13, <1>14 DEF t

-----------------------------------------------------------------------------
(* What the program does then: from q to p, sending requests *)

\* All that the invariant speaks of is the same.
Like(q, p) ==
  /\ p.life = q.life /\ p.startStop = q.startStop /\ p.running = q.running /\ p.setup = q.setup
  /\ p.interrupt = q.interrupt /\ p.waiting = q.waiting
  /\ p.continuous = q.continuous /\ p.hk = q.hk
  /\ p.final = q.final /\ p.result = q.result /\ p.stored = q.stored
  /\ p.measNo = q.measNo /\ p.toGo = q.toGo /\ p.count = q.count

LEMMA Frame ==
  ASSUME NEW q, NEW p, NEW l, NEW h, Inv(q, l, h), Like(q, p)
  PROVE  Inv(p, l, h)
<1>1. stage(p) = stage(q) /\ masterMeasMode(p) = masterMeasMode(q)
  BY DEF Like, stage, masterMeasMode
<1>2. SettingUp(p, l, h) /\ ModeIsSet(p, l, h) /\ ReadsInTime(p, l)
  BY <1>1 DEF Like, Inv, SettingUp, ModeIsSet, ReadsInTime
<1>3. Measuring(p, l, h) /\ Stopping(p, l, h) /\ Enough(p, l) /\ Complete(p)
  BY <1>1 DEF Like, Inv, Measuring, Stopping, Enough, Complete
<1> QED
  BY <1>2, <1>3 DEF Inv, Like

\* One request more
LEMMA More ==
  ASSUME NEW l \in Seq(Request), NEW x \in Request
  PROVE  /\ l \o <<x>> \in Seq(Request)
         /\ Elems(l \o <<x>>) = Elems(l) \cup {x}
         /\ \A wrong : InOrder(l, wrong) /\ (\A y \in Elems(l) : <<y, x>> \notin wrong)
              => InOrder(l \o <<x>>, wrong)
         /\ InOrder(l, Misplaced) /\ (\A y \in Elems(l) : ~misplaced(y, x))
              => InOrder(l \o <<x>>, Misplaced)
         /\ \A last, first : EndsWith(l, last, first) /\ first # x => EndsWith(l \o <<x>>, last, first)
         /\ \A first : first # x => EndsWith(l \o <<x>>, x, first)
         /\ Elems(l) \subseteq Request
<1>1. <<x>> \in Seq(Request)
  OBVIOUS
<1>2. Elems(<<x>>) = {x} /\ (\A wrong : InOrder(<<x>>, wrong)) /\ \A first : x # first => EndsWith(<<x>>, x, first)
  BY Few
<1>3. Elems(l) \subseteq Request
  BY DEF Elems
<1> HIDE DEF Elems
<1>4. /\ l \o <<x>> \in Seq(Request)
      /\ Elems(l \o <<x>>) = Elems(l) \cup Elems(<<x>>)
      /\ \A wrong : InOrder(l, wrong) /\ InOrder(<<x>>, wrong)
              /\ (\A y \in Elems(l), z \in Elems(<<x>>) : <<y, z>> \notin wrong) => InOrder(l \o <<x>>, wrong)
      /\ \A last, first : EndsWith(l, last, first) /\ first \notin Elems(<<x>>) => EndsWith(l \o <<x>>, last, first)
      /\ \A last, first : EndsWith(<<x>>, last, first) => EndsWith(l \o <<x>>, last, first)
  BY <1>1, Sent
<1>5. \A y : ~misplaced(y, x) => <<y, x>> \notin Misplaced
  BY DEF Misplaced
<1> QED
  BY <1>2, <1>3, <1>4, <1>5

\* Requests that neither start nor stop nor read anything final
LEMMA Harmless ==
  ASSUME NEW q, NEW l, NEW h, Typed(q, l, h), Inv(q, l, h),
         NEW x \in {"actualize", "fetchecalcunits", "setsecintnotifier", "freeecalcunits"}
  PROVE  Inv(q, l \o <<x>>, h)
<1> DEFINE m == l \o <<x>>
<1>1. /\ x \in Request /\ x \notin SetupRequest
      /\ x \notin {start, stop, readFinalCount, resetInt, "setsync", "enableinterrupt"} \cup Mode
  BY Requests, Numbers DEF start, stop, readFinalCount, resetInt, SetupRequest
<1>2. l \in Seq(Request)
  BY DEF Typed
<1>3. /\ Elems(m) = Elems(l) \cup {x}
      /\ InOrder(m, Misplaced)
      /\ InOrder(l, Startstop) => InOrder(m, Startstop)
      /\ EndsWith(l, stop, start) => EndsWith(m, stop, start)
  <2>1. \A y : ~misplaced(y, x) /\ <<y, x>> \notin Startstop
    BY <1>1 DEF misplaced, Startstop
  <2>2. InOrder(l, Misplaced)
    BY DEF Inv
  <2> QED
    BY <1>1, <1>2, <2>1, <2>2, More
<1> HIDE DEF m
<1>4. SettingUp(q, m, h) /\ ModeIsSet(q, m, h) /\ ReadsInTime(q, m)
  BY <1>1, <1>3 DEF Inv, SettingUp, ModeIsSet, ReadsInTime
<1>5. Measuring(q, m, h) /\ Stopping(q, m, h) /\ Enough(q, m)
  BY <1>1, <1>3 DEF Inv, Measuring, Stopping, Enough
<1>6. Inv(q, m, h)
  BY <1>3, <1>4, <1>5 DEF Inv
<1> QED
  BY <1>6 DEF m

\* A stop, whatever its reason, that does not meet a set-up
LEMMA StopStep ==
  ASSUME NEW q, NEW l, NEW h, Typed(q, l, h), Inv(q, l, h),
         NEW p, ~p.running, ~p.waiting, p.setup = q.setup, p.interrupt = q.interrupt,
         p.continuous = q.continuous, p.hk = q.hk,
         p.final = q.final, p.result = q.result, p.stored = q.stored,
         q.setup = "off" \/ (q.running /\ start \notin Elems(l) /\ p.life = q.life)
  PROVE  Inv(p, l \o <<stop>>, h)
<1> DEFINE m == l \o <<stop>>
<1>1. /\ l \in Seq(Request) /\ stop \in Request /\ q.setup \in SetupState \cup {"off"}
      /\ stop # start /\ stop \notin {readFinalCount, resetInt} \cup SetupRequest
  BY Requests, States, Numbers DEF Typed, Program, stop, start, readFinalCount, resetInt
<1>2. stage(p) = stage(q) /\ masterMeasMode(p) = masterMeasMode(q) /\ stage(q) \in 8 .. 9
  <2>1. q.running => stage(q) >= 8
    BY <1>1, Numbers DEF Inv, SettingUp, stage
  <2> QED
    BY <1>1, <2>1, Numbers DEF stage, masterMeasMode
<1>3. \A y \in Elems(l) \cap SetupRequest : number(y) = 7 /\ stage(q) = 8
  BY <1>2, Numbers DEF Inv, SettingUp
<1>4. \A y \in Elems(l) : ~misplaced(y, stop)
  BY <1>1, <1>3, Numbers DEF misplaced, SetupRequest
<1>5. /\ Elems(m) = Elems(l) \cup {stop}
      /\ InOrder(m, Misplaced)
      /\ EndsWith(m, stop, start)
  <2>1. InOrder(l, Misplaced)
    BY DEF Inv
  <2> QED
    BY <1>1, <1>4, <2>1, More
<1> HIDE DEF m
<1>6. Elems(m) \cap SetupRequest = {}
  <2>1. SUFFICES ASSUME NEW y \in Elems(l) \cap SetupRequest
                 PROVE  FALSE
    BY <1>1, <1>5
  <2>2. y = "enableinterrupt" /\ stage(q) = 8 /\ q.setup # "off"
    BY <1>1, <1>3, Numbers DEF stage
  <2> QED
    BY <2>2 DEF Inv, SettingUp
<1>7. Mode \subseteq SetupRequest /\ "enableinterrupt" \in SetupRequest
  BY DEF SetupRequest
<1>8. SettingUp(p, m, h) /\ ModeIsSet(p, m, h)
  <2>1. stage(p) # 9 => p.life = "active"
    BY <1>1, <1>2, Numbers DEF Inv, SettingUp, stage
  <2>2. stage(q) # 9 => q.running /\ start \notin Elems(l)
    BY <1>1, <1>2, Numbers DEF stage
  <2>3. (stage(q) \in 5 .. 8) => h.mode = masterMeasMode(q)
    BY <1>5, <1>6, <1>7 DEF Inv, ModeIsSet
  <2> QED
    BY <1>2, <1>6, <1>7, <2>1, <2>3 DEF SettingUp, ModeIsSet
<1>9. ReadsInTime(p, m)
  BY <1>1, <1>2, <1>5 DEF Inv, ReadsInTime
<1>10. Measuring(p, m, h) /\ Stopping(p, m, h) /\ Enough(p, m) /\ Complete(p)
  BY <1>2, <1>5 DEF Inv, Measuring, Stopping, Enough, Complete
<1>11. Inv(p, m, h)
  BY <1>5, <1>8, <1>9, <1>10 DEF Inv
<1> QED
  BY <1>11 DEF m

\* The next measurement of a sequence
LEMMA NextMeasurement ==
  ASSUME NEW q, NEW l, NEW h, Typed(q, l, h), Inv(q, l, h),
         q.running, ~counting(h),
         Elems(l) \cap {start, stop, readFinalCount, resetInt} = {},
         NEW p, p.life = q.life, p.startStop = q.startStop, p.running, ~p.waiting,
         p.setup = q.setup, p.interrupt = q.interrupt, p.continuous = q.continuous, p.hk = q.hk,
         p.final = "zero", p.result = q.result, p.stored = q.stored,
         p.measNo + p.toGo >= p.count
  PROVE  Inv(p, (l \o <<stop>>) \o <<start>>, h)
<1> DEFINE n == l \o <<stop>>
           m == n \o <<start>>
<1>1. /\ l \in Seq(Request) /\ stop \in Request /\ start \in Request
      /\ q.setup \in SetupState \cup {"off"}
      /\ stop # start /\ {start, stop} \cap ({readFinalCount, resetInt} \cup SetupRequest) = {}
  BY Requests, States, Numbers DEF Typed, Program, stop, start, readFinalCount, resetInt
<1>2. stage(p) = stage(q) /\ masterMeasMode(p) = masterMeasMode(q) /\ stage(q) \in 8 .. 9
  BY <1>1, Numbers DEF Inv, SettingUp, stage, masterMeasMode
<1>3. \A y \in Elems(l) \cap SetupRequest : number(y) = 7
  BY <1>2, Numbers DEF Inv, SettingUp
<1>4. \A y \in Elems(l) : ~misplaced(y, stop) /\ ~misplaced(y, start)
  BY <1>1, <1>3, Numbers, ZenonT(30) DEF misplaced, SetupRequest
<1>5. ~misplaced(stop, start)
  BY <1>1, Numbers DEF misplaced, SetupRequest
<1>6. \A y \in Request : y # start => <<y, stop>> \notin Startstop /\ <<y, start>> \notin Startstop
  BY <1>1 DEF Startstop
<1>7. n \in Seq(Request) /\ Elems(n) = Elems(l) \cup {stop} /\ InOrder(n, Misplaced)
  <2>1. InOrder(l, Misplaced)
    BY DEF Inv
  <2> QED
    BY <1>1, <1>4, <2>1, More
<1> HIDE DEF n
<1>8. Elems(m) = Elems(n) \cup {start} /\ InOrder(m, Misplaced)
  BY <1>1, <1>4, <1>5, <1>7, More
<1>9. InOrder(m, Startstop)
  <2>1. \A y \in Elems(n) : y # start
    BY <1>1, <1>7
  <2>2. InOrder(n, Startstop)
    <3>1. \A i \in 1 .. Len(n) : n[i] # start
      BY <2>1 DEF Elems
    <3> QED
      BY <3>1 DEF InOrder, Startstop
  <2>3. \A y \in Elems(n) : <<y, start>> \notin Startstop
    BY <1>1 DEF Startstop
  <2> QED
    BY <1>1, <1>7, <2>2, <2>3, More
<1> HIDE DEF m
<1>10. Elems(m) = Elems(l) \cup {stop, start}
  BY <1>7, <1>8
<1>11. Mode \subseteq SetupRequest /\ "enableinterrupt" \in SetupRequest
  BY DEF SetupRequest
<1>12. SettingUp(p, m, h) /\ ModeIsSet(p, m, h)
  <2>1. Elems(m) \cap SetupRequest = Elems(l) \cap SetupRequest
    BY <1>1, <1>10
  <2> QED
    BY <1>2, <1>10, <1>11, <2>1 DEF Inv, SettingUp, ModeIsSet
<1>13. ReadsInTime(p, m)
  BY <1>1, <1>10 DEF ReadsInTime
<1>14. Measuring(p, m, h) /\ Stopping(p, m, h) /\ Enough(p, m) /\ Complete(p)
  BY <1>1, <1>9, <1>10 DEF Inv, Measuring, Stopping, Enough, Complete
<1>15. Inv(p, m, h)
  BY <1>8, <1>12, <1>13, <1>14 DEF Inv
<1> QED
  BY <1>15 DEF m, n

\* ... or the pause before it
LEMMA PauseStep ==
  ASSUME NEW q, NEW l, NEW h, Inv(q, l, h), q.running, ~counting(h),
         Elems(l) \cap {start, readFinalCount, resetInt} = {},
         NEW p, p.life = q.life, p.startStop = q.startStop, p.running,
         p.setup = q.setup, p.interrupt = q.interrupt, p.continuous = q.continuous, p.hk = q.hk,
         p.final = q.final, p.result = q.result, p.stored = q.stored,
         p.measNo + p.toGo >= p.count
  PROVE  Inv(p, l, h)
<1>1. stage(p) = stage(q) /\ masterMeasMode(p) = masterMeasMode(q)
  BY DEF stage, masterMeasMode
<1>2. SettingUp(p, l, h) /\ ModeIsSet(p, l, h) /\ ReadsInTime(p, l)
  BY <1>1 DEF Inv, SettingUp, ModeIsSet, ReadsInTime
<1>3. Measuring(p, l, h) /\ Stopping(p, l, h) /\ Enough(p, l) /\ Complete(p)
  BY <1>1 DEF Inv, Measuring, Stopping, Enough, Complete
<1> QED
  BY <1>2, <1>3 DEF Inv

\* The answer to the reading of the final count: the interrupt is reset.
LEMMA ResetStep ==
  ASSUME NEW q, NEW l, NEW h, Typed(q, l, h), Inv(q, l, h),
         HeadFacts(q, readFinalCount, l, h),
         NEW p, p.life = q.life, p.startStop = q.startStop, p.running = q.running,
         p.waiting = q.waiting, p.setup = q.setup, p.interrupt = "reset",
         p.continuous = q.continuous, p.hk = q.hk, p.toGo = q.toGo, p.count = q.count,
         IF q.running THEN p.measNo = q.measNo + 1 ELSE p.measNo = q.measNo,
         Complete(p)
  PROVE  Inv(p, l \o <<resetInt>>, h)
<1> DEFINE m == l \o <<resetInt>>
<1>1. /\ l \in Seq(Request) /\ resetInt \in Request
      /\ resetInt \notin SetupRequest \cup {start, stop, readFinalCount}
      /\ q.setup \in SetupState \cup {"off"} /\ q.running \in BOOLEAN
      /\ q.measNo \in Nat /\ q.toGo \in Nat /\ q.count \in Nat
      /\ stage(q) \in 1 .. 9
  <2>1. q \in Program /\ l \in Seq(Request)
    BY DEF Typed
  <2>2. q.setup \in SetupState \cup {"off"} /\ q.measNo \in Nat /\ q.toGo \in Nat /\ q.count \in Counts
        /\ q.running \in BOOLEAN
    BY <2>1, States DEF Program
  <2>3. q.count \in Nat
    BY <2>2, Sec1Assumption
  <2> QED
    BY <2>1, <2>2, <2>3, Requests, Numbers DEF stop, start, readFinalCount, resetInt, stage
<1>2. stage(p) = stage(q) /\ masterMeasMode(p) = masterMeasMode(q)
  BY DEF stage, masterMeasMode
<1>3. /\ q.interrupt = "read" /\ readFinalCount \notin Elems(l) /\ resetInt \notin Elems(l)
      /\ stage(q) < 8 => stage(q) <= 4
      /\ q.running => /\ start \notin Elems(l) /\ stop \notin Elems(l) /\ ~q.waiting
                      /\ h.final = "complete"
                      /\ h.mode = "SINGLEERRORMASTER" => ~counting(h)
  BY DEF HeadFacts
<1>4. \A y \in Elems(l) : ~misplaced(y, resetInt)
  <2>1. ASSUME NEW y \in Elems(l) \cap SetupRequest
        PROVE  number(y) < 5
    <3>1. number(y) \in 1 .. 7 /\ number(y) <= stage(q) /\ stage(q) <= number(y) + 1
      BY Numbers DEF Inv, SettingUp
    <3>2. CASE stage(q) < 8
      BY <1>1, <1>3, <3>1, <3>2
    <3>3. CASE stage(q) >= 8
      <4>1. number(y) = 7 /\ stage(q) = 8
        BY <1>1, <3>1, <3>3
      <4>2. y = "enableinterrupt"
        BY <4>1, Numbers
      <4>3. q.running /\ start \in Elems(l)
        BY <4>1, <4>2 DEF Inv, SettingUp
      <4> QED
        BY <1>3, <4>3
    <3> QED
      BY <1>1, <3>2, <3>3
  <2> QED
    BY <1>1, <1>3, <2>1, Numbers DEF misplaced
<1>5. /\ Elems(m) = Elems(l) \cup {resetInt}
      /\ InOrder(m, Misplaced)
      /\ EndsWith(l, stop, start) => EndsWith(m, stop, start)
  <2>1. InOrder(l, Misplaced)
    BY DEF Inv
  <2> QED
    BY <1>1, <1>4, <2>1, More
<1> HIDE DEF m
<1>6. Elems(m) \cap SetupRequest = Elems(l) \cap SetupRequest
  BY <1>1, <1>5
<1>7. "setsync" \in SetupRequest /\ "enableinterrupt" \in SetupRequest /\ Mode \subseteq SetupRequest
  BY DEF SetupRequest
<1>8. SettingUp(p, m, h) /\ ModeIsSet(p, m, h)
  BY <1>1, <1>2, <1>5, <1>6, <1>7 DEF Inv, SettingUp, ModeIsSet
<1>9. ReadsInTime(p, m)
  BY <1>1, <1>2, <1>3, <1>5 DEF ReadsInTime
<1>10. Measuring(p, m, h) /\ Stopping(p, m, h)
  BY <1>1, <1>3, <1>5 DEF Inv, Measuring, Stopping
<1>11. Enough(p, m)
  BY <1>1, <1>2, <1>3, <1>5 DEF Inv, Enough
<1>12. Inv(p, m, h)
  BY <1>5, <1>8, <1>9, <1>10, <1>11 DEF Inv
<1> QED
  BY <1>12 DEF m

\* The calculators have counted down.
LEMMA CountedDown ==
  ASSUME NEW q, NEW l, NEW h, Typed(q, l, h), Inv(q, l, h), counting(h)
  PROVE  /\ countDown(h) \in Calculator
         /\ Inv(q, l, countDown(h))
         /\ q.running => /\ start \notin Elems(l)
                         /\ countDown(h).final = "complete"
                         /\ countDown(h).mode = "SINGLEERRORMASTER" => ~counting(countDown(h))
<1> DEFINE k == countDown(h)
<1>1. h \in Calculator
  BY DEF Typed
<1>2. /\ k \in Calculator /\ k.final = "complete" /\ k.mode = h.mode
      /\ k.mode = "SINGLEERRORMASTER" => ~counting(k)
  BY <1>1 DEF countDown, Calculator, FinalCount, counting
<1> HIDE DEF k
<1>3. SettingUp(q, l, k) /\ ModeIsSet(q, l, k)
  BY <1>2 DEF Inv, SettingUp, ModeIsSet
<1>4. q.running => start \notin Elems(l)
  BY DEF Inv, Measuring
<1>5. Measuring(q, l, k)
  BY <1>2, <1>4 DEF Inv, Measuring
<1>6. Stopping(q, l, k)
  BY DEF Inv, Stopping
<1>7. Inv(q, l, k)
  BY <1>3, <1>5, <1>6 DEF Inv
<1> QED
  BY <1>2, <1>4, <1>7 DEF k

\* ... and the interrupt is handled: k are the calculators after it.
LEMMA InterruptStep ==
  ASSUME NEW q, NEW l, NEW h, NEW k, Typed(q, l, k), Inv(q, l, h), counting(h), Inv(q, l, k),
         q.running => /\ start \notin Elems(l) /\ k.final = "complete"
                      /\ k.mode = "SINGLEERRORMASTER" => ~counting(k),
         q.interrupt = "off",
         NEW p, p.life = q.life, p.startStop = q.startStop, p.running = q.running,
         p.waiting = q.waiting, p.setup = q.setup, p.interrupt = "read",
         p.continuous = q.continuous, p.hk = q.hk,
         p.final = q.final, p.result = q.result, p.stored = q.stored,
         p.measNo = q.measNo, p.toGo = q.toGo, p.count = q.count
  PROVE  Inv(p, l \o <<readFinalCount>>, k)
<1> DEFINE m == l \o <<readFinalCount>>
<1>1. /\ l \in Seq(Request) /\ readFinalCount \in Request
      /\ readFinalCount \notin SetupRequest \cup {start, stop, resetInt}
      /\ stage(q) \in 1 .. 9
  <2>1. q.setup \in SetupState \cup {"off"}
    BY States DEF Typed, Program
  <2> QED
    BY <2>1, Requests, Numbers DEF Typed, stop, start, readFinalCount, resetInt, stage
<1>2. stage(p) = stage(q) /\ masterMeasMode(p) = masterMeasMode(q)
  BY DEF stage, masterMeasMode
<1>3. readFinalCount \notin Elems(l) /\ resetInt \notin Elems(l)
  BY DEF Inv, ReadsInTime
<1>4. stage(q) < 8 => stage(q) <= 2
  <2> SUFFICES ASSUME stage(q) < 8
               PROVE  stage(q) <= 2
    OBVIOUS
  <2>1. "setsync" \in Elems(l)
    BY DEF Inv, SettingUp
  <2>2. "setsync" \in SetupRequest /\ number("setsync") = 1
    BY Numbers DEF SetupRequest
  <2> QED
    BY <1>1, <2>1, <2>2 DEF Inv, SettingUp
<1>5. \A y \in Elems(l) : ~misplaced(y, readFinalCount)
  <2>1. ASSUME NEW y \in Elems(l) \cap SetupRequest
        PROVE  number(y) < 3
    <3>1. number(y) \in 1 .. 7 /\ number(y) <= stage(q) /\ stage(q) <= number(y) + 1
      BY Numbers DEF Inv, SettingUp
    <3>2. CASE stage(q) < 8
      BY <1>1, <1>4, <3>1, <3>2
    <3>3. CASE stage(q) >= 8
      <4>1. number(y) = 7 /\ stage(q) = 8
        BY <1>1, <3>1, <3>3
      <4>2. y = "enableinterrupt"
        BY <4>1, Numbers
      <4>3. q.running /\ start \in Elems(l)
        BY <4>1, <4>2 DEF Inv, SettingUp
      <4> QED
        BY <4>3
    <3> QED
      BY <1>1, <3>2, <3>3
  <2> QED
    BY <1>1, <1>3, <2>1, Numbers DEF misplaced
<1>6. /\ Elems(m) = Elems(l) \cup {readFinalCount}
      /\ InOrder(m, Misplaced)
      /\ EndsWith(l, stop, start) => EndsWith(m, stop, start)
  <2>1. InOrder(l, Misplaced)
    BY DEF Inv
  <2> QED
    BY <1>1, <1>5, <2>1, More
<1> HIDE DEF m
<1>7. Elems(m) \cap SetupRequest = Elems(l) \cap SetupRequest
  BY <1>1, <1>6
<1>8. "setsync" \in SetupRequest /\ "enableinterrupt" \in SetupRequest /\ Mode \subseteq SetupRequest
  BY DEF SetupRequest
<1>9. SettingUp(p, m, k) /\ ModeIsSet(p, m, k)
  BY <1>1, <1>2, <1>6, <1>7, <1>8 DEF Inv, SettingUp, ModeIsSet
<1>10. ReadsInTime(p, m)
  BY <1>1, <1>2, <1>3, <1>4, <1>6 DEF ReadsInTime
<1>11. ~(q.running /\ q.waiting)
  BY DEF Inv, Measuring
<1>12. Measuring(p, m, k) /\ Stopping(p, m, k)
  BY <1>1, <1>3, <1>6, <1>11 DEF Inv, Measuring, Stopping
<1>13. Enough(p, m) /\ Complete(p)
  BY <1>1, <1>2, <1>6 DEF Inv, Enough, Complete
<1>14. Inv(p, m, k)
  BY <1>6, <1>9, <1>10, <1>12, <1>13 DEF Inv
<1> QED
  BY <1>14 DEF m

-----------------------------------------------------------------------------
(* The set-up *)

\* A client starts a measurement.
LEMMA BeginStep ==
  ASSUME NEW q, NEW l, NEW h, Typed(q, l, h), Inv(q, l, h), q.setup = "off", ~q.running,
         NEW p, p.life = "active", p.startStop, p.running = q.running, p.waiting = q.waiting,
         p.setup = "setsync", p.interrupt = q.interrupt,
         p.continuous = q.continuous, p.hk = q.hk,
         p.final = q.final, p.result = q.result, p.stored = <<>>,
         p.measNo + p.toGo >= p.count
  PROVE  Inv(p, l \o <<"setsync">>, h)
<1> DEFINE m == l \o <<"setsync">>
<1>1. /\ l \in Seq(Request) /\ "setsync" \in Request /\ "setsync" \in SetupRequest
      /\ "setsync" \notin {readFinalCount, start, stop, resetInt} \cup Mode
      /\ stage(q) = 9 /\ stage(p) = 1 /\ number("setsync") = 1
      /\ "enableinterrupt" # "setsync"
  BY Requests, Numbers DEF Typed, stop, start, readFinalCount, resetInt, stage, SetupRequest, Mode
<1>2. Elems(l) \cap SetupRequest = {}
  BY <1>1, Numbers DEF Inv, SettingUp
<1>3. \A y \in Elems(l) : ~misplaced(y, "setsync")
  BY <1>1, <1>2, Numbers DEF misplaced
<1>4. /\ Elems(m) = Elems(l) \cup {"setsync"}
      /\ InOrder(m, Misplaced)
      /\ EndsWith(l, stop, start) => EndsWith(m, stop, start)
  <2>1. InOrder(l, Misplaced)
    BY DEF Inv
  <2> QED
    BY <1>1, <1>3, <2>1, More
<1> HIDE DEF m
<1>5. Elems(m) \cap SetupRequest = {"setsync"} /\ Elems(m) \cap Mode = {}
  BY <1>1, <1>2, <1>4 DEF SetupRequest
<1>6. SettingUp(p, m, h) /\ ModeIsSet(p, m, h) /\ ReadsInTime(p, m)
  BY <1>1, <1>4, <1>5 DEF Inv, SettingUp, ModeIsSet, ReadsInTime
<1>7. Measuring(p, m, h) /\ Stopping(p, m, h) /\ Enough(p, m) /\ Complete(p)
  BY <1>1, <1>4 DEF Inv, Measuring, Stopping, Enough, Complete
<1>8. Inv(p, m, h)
  BY <1>4, <1>6, <1>7 DEF Inv
<1> QED
  BY <1>8 DEF m

\* The set-up goes on to another request; an answer to a set-up request or to a start of
\* before was taken off the line.
LEMMA AdvanceStep ==
  ASSUME NEW q, NEW l, NEW h, Typed(q, l, h), Inv(q, l, h), stage(q) < 7,
         NEW x \in SetupRequest \cup {start}, HeadFacts(q, x, l, h),
         NEW r \in SetupRequest, number(r) = stage(q) + 1,
         r \in Mode => r = masterMeasMode(q),
         NEW p, stage(p) = stage(q) + 1,
         p.life = q.life, p.startStop = q.startStop, p.running = q.running,
         p.waiting = q.waiting, p.interrupt = q.interrupt,
         p.continuous = q.continuous, p.hk = q.hk,
         p.final = q.final, p.result = q.result, p.stored = q.stored,
         p.measNo = q.measNo, p.toGo = q.toGo, p.count = q.count
  PROVE  Inv(p, l \o <<r>>, h)
<1> DEFINE m == l \o <<r>>
<1>1. /\ l \in Seq(Request) /\ r \in Request
      /\ r \notin {readFinalCount, start, stop, resetInt}
      /\ x \notin {readFinalCount, resetInt}
      /\ stage(q) \in 1 .. 6 /\ number(r) \in 2 .. 7
      /\ masterMeasMode(p) = masterMeasMode(q)
  <2>1. q.setup \in SetupState \cup {"off"}
    BY States DEF Typed, Program
  <2>2. stage(q) \in 1 .. 6
    BY <2>1, Numbers DEF stage
  <2> QED
    BY <2>2, Requests, Numbers DEF Typed, start, readFinalCount, resetInt, masterMeasMode
<1>2. /\ \A y \in Elems(l) \cap SetupRequest : number(y) = stage(q)
      /\ stage(q) = 1 => start \notin Elems(l)
      /\ readFinalCount \in Elems(l) => stage(q) <= 3
      /\ resetInt \in Elems(l) => stage(q) <= 5
  BY <1>1 DEF HeadFacts
<1>3. "setsync" \in Elems(l) => stage(q) = 1
  BY <1>2, Numbers DEF SetupRequest
<1>4. start \notin Elems(l)
  BY <1>1, <1>2, <1>3 DEF Inv, SettingUp
<1>5. \A y \in Elems(l) : ~misplaced(y, r)
  <2>1. \A y \in Elems(l) \cap SetupRequest : ~(number(r) <= number(y))
    BY <1>1, <1>2
  <2> QED
    BY <1>1, <1>4, <2>1 DEF misplaced
<1>6. /\ Elems(m) = Elems(l) \cup {r}
      /\ InOrder(m, Misplaced)
      /\ EndsWith(l, stop, start) => EndsWith(m, stop, start)
  <2>1. InOrder(l, Misplaced)
    BY DEF Inv
  <2> QED
    BY <1>1, <1>5, <2>1, More
<1> HIDE DEF m
<1>7. "setsync" \in SetupRequest /\ "enableinterrupt" \in SetupRequest /\ Mode \subseteq SetupRequest
      /\ number("setsync") = 1 /\ \A y \in SetupRequest : y \in Mode <=> number(y) = 5
  BY Numbers DEF SetupRequest
<1>8. SettingUp(p, m, h)
  <2>1. \A y \in Elems(m) \cap SetupRequest : number(y) <= stage(p) /\ stage(p) <= number(y) + 1
    BY <1>1, <1>2, <1>6
  <2>2. "setsync" \notin Elems(m) => stop \notin Elems(m) /\ ~counting(h)
    BY <1>1, <1>6 DEF Inv, SettingUp
  <2>3. start \notin Elems(m)
    BY <1>1, <1>4, <1>6
  <2> QED
    BY <1>1, <2>1, <2>2, <2>3 DEF Inv, SettingUp
<1>9. ModeIsSet(p, m, h)
  <2>1. ~q.running /\ ~p.running
    BY <1>1 DEF Inv, SettingUp
  <2>2. stage(p) = 5 => r \in Mode
    BY <1>7
  <2>3. stage(p) \in 5 .. 8 /\ Elems(m) \cap Mode = {} => h.mode = masterMeasMode(p)
    BY <1>1, <1>6, <2>2 DEF Inv, ModeIsSet
  <2> QED
    BY <1>1, <1>6, <2>1, <2>3 DEF Inv, ModeIsSet
<1>10. ReadsInTime(p, m)
  BY <1>1, <1>2, <1>6 DEF Inv, ReadsInTime
<1>11. Measuring(p, m, h) /\ Stopping(p, m, h) /\ Enough(p, m) /\ Complete(p)
  BY <1>1, <1>6 DEF Inv, SettingUp, Measuring, Stopping, Enough, Complete
<1>12. Inv(p, m, h)
  BY <1>6, <1>8, <1>9, <1>10, <1>11 DEF Inv
<1> QED
  BY <1>12 DEF m

\* ... to the start of the measurement
LEMMA StartStep ==
  ASSUME NEW q, NEW l, NEW h, Typed(q, l, h), Inv(q, l, h), stage(q) = 7,
         NEW x \in SetupRequest \cup {start}, HeadFacts(q, x, l, h),
         NEW p, p.setup = start, p.running,
         p.life = q.life, p.startStop = q.startStop,
         p.waiting = q.waiting, p.interrupt = q.interrupt,
         p.continuous = q.continuous, p.hk = q.hk,
         p.final = q.final, p.result = q.result, p.stored = q.stored,
         p.measNo = q.measNo, p.toGo = q.toGo, p.count = q.count
  PROVE  Inv(p, l \o <<start>>, h)
<1> DEFINE m == l \o <<start>>
<1>1. /\ l \in Seq(Request) /\ start \in Request
      /\ start \notin {readFinalCount, stop, resetInt} \cup SetupRequest
      /\ x \notin {readFinalCount, resetInt}
      /\ masterMeasMode(p) = masterMeasMode(q) /\ stage(p) = 8
  BY Requests, Numbers DEF Typed, start, stop, readFinalCount, resetInt, masterMeasMode, stage, SetupState
<1>2. /\ \A y \in Elems(l) \cap SetupRequest : number(y) = 7
      /\ readFinalCount \notin Elems(l) /\ resetInt \notin Elems(l)
  BY <1>1 DEF HeadFacts
<1>3. "setsync" \in SetupRequest /\ "enableinterrupt" \in SetupRequest /\ Mode \subseteq SetupRequest
      /\ number("setsync") = 1 /\ \A y \in SetupRequest : y \in Mode <=> number(y) = 5
  BY Numbers DEF SetupRequest
<1>4. "setsync" \notin Elems(l) /\ Elems(l) \cap Mode = {}
  BY <1>2, <1>3
<1>5. start \notin Elems(l) /\ stop \notin Elems(l) /\ ~counting(h) /\ ~q.running
  BY <1>4 DEF Inv, SettingUp
<1>6. \A y \in Elems(l) : ~misplaced(y, start)
  BY <1>1, <1>4, <1>5 DEF misplaced
<1>7. /\ Elems(m) = Elems(l) \cup {start}
      /\ InOrder(m, Misplaced)
  <2>1. InOrder(l, Misplaced)
    BY DEF Inv
  <2> QED
    BY <1>1, <1>6, <2>1, More
<1> HIDE DEF m
<1>8. InOrder(m, Startstop)
  <2>1. stop \notin Elems(m)
    BY <1>1, <1>5, <1>7
  <2> QED
    BY <2>1 DEF InOrder, Startstop, Elems
<1>9. SettingUp(p, m, h)
  BY <1>1, <1>2, <1>7 DEF Inv, SettingUp
<1>10. ModeIsSet(p, m, h)
  BY <1>1, <1>3, <1>4, <1>7 DEF Inv, ModeIsSet
<1>11. ReadsInTime(p, m)
  BY <1>1, <1>2, <1>7 DEF ReadsInTime
<1>12. Measuring(p, m, h) /\ Stopping(p, m, h) /\ Enough(p, m) /\ Complete(p)
  BY <1>1, <1>2, <1>5, <1>7, <1>8 DEF Inv, SettingUp, Measuring, Stopping, Enough, Complete
<1>13. Inv(p, m, h)
  BY <1>7, <1>9, <1>10, <1>11, <1>12 DEF Inv
<1> QED
  BY <1>13 DEF m

\* ... to its end
LEMMA EndStep ==
  ASSUME NEW q, NEW l, NEW h, Typed(q, l, h), Inv(q, l, h), stage(q) = 8,
         NEW x \in SetupRequest \cup {start}, HeadFacts(q, x, l, h),
         NEW p, p.setup = "off", p.running = q.running,
         p.life = q.life, p.startStop = q.startStop,
         p.waiting = q.waiting, p.interrupt = q.interrupt,
         p.continuous = q.continuous, p.hk = q.hk,
         p.final = "zero", p.result = q.result, p.stored = q.stored,
         p.measNo = q.measNo, p.toGo = q.toGo, p.count = q.count
  PROVE  Inv(p, l, h)
<1>1. /\ stage(p) = 9 /\ masterMeasMode(p) = masterMeasMode(q) /\ x \notin {readFinalCount, resetInt}
  BY Numbers DEF masterMeasMode, stage, start, readFinalCount, resetInt
<1>2. Elems(l) \cap SetupRequest = {}
  <2>1. ASSUME NEW y \in Elems(l) \cap SetupRequest
        PROVE  FALSE
    <3>1. number(y) = 8
      BY <1>1 DEF HeadFacts
    <3> QED
      BY <3>1, Numbers
  <2> QED
    BY <2>1
<1>3. "enableinterrupt" \in SetupRequest /\ Mode \subseteq SetupRequest
  BY DEF SetupRequest
<1>4. SettingUp(p, l, h) /\ ModeIsSet(p, l, h) /\ ReadsInTime(p, l)
  BY <1>1, <1>2, <1>3 DEF Inv, SettingUp, ModeIsSet, ReadsInTime
<1>5. Measuring(p, l, h) /\ Stopping(p, l, h) /\ Enough(p, l) /\ Complete(p)
  BY <1>1 DEF Inv, Measuring, Stopping, Enough, Complete
<1> QED
  BY <1>4, <1>5 DEF Inv

-----------------------------------------------------------------------------
(* What the operators of the program do, written out *)

\* The requests of one slot are sent one after the other.
LEMMA Sending ==
  ASSUME NEW l \in Seq(Request)
  PROVE  /\ l \o <<>> = l
         /\ \A m \in Seq(Request), x \in Request :
              /\ Append(m, x) \in Seq(Request)
              /\ l \o Append(m, x) = (l \o m) \o <<x>>
<1>1. l \o <<>> = l
  BY ConcatEmptySeq
<1>2. ASSUME NEW m \in Seq(Request), NEW x \in Request
      PROVE  /\ Append(m, x) \in Seq(Request)
             /\ l \o Append(m, x) = (l \o m) \o <<x>>
  <2>1. <<x>> \in Seq(Request)
    OBVIOUS
  <2>2. Append(m, x) = m \o <<x>> /\ Append(m, x) \in Seq(Request)
    BY AppendIsConcat, AppendProperties
  <2> QED
    BY <2>1, <2>2, ConcatAssociative
<1> QED
  BY <1>1, <1>2

\* The requests of startNext
threeRequests == Append(Append(<<stop>>, start), "actualize")

\* One request from a slot that changes the program to p
LEMMA Sends ==
  ASSUME NEW p, NEW x
  PROVE  andSend(does(p), x) = [p |-> p, out |-> <<x>>]
BY DEF andSend, does

LEMMA Stops ==
  ASSUME NEW p
  PROVE  stopECCalculator(p) =
           [p |-> [p EXCEPT !.running = FALSE, !.startStop = FALSE,
                            !.polling = FALSE, !.waiting = FALSE], out |-> <<stop>>]
BY Sends DEF stopECCalculator, stop

LEMMA Continues ==
  ASSUME NEW p \in Program, p.running
  PROVE  startNext(p) =
           [p |-> [p EXCEPT !.status = {"ARMED", "READY"}, !.final = "zero", !.polling = TRUE],
            out |-> threeRequests]
<1> DEFINE r == [p EXCEPT !.status = {"ARMED", "READY"}]
           s == [p |-> r, out |-> Append(<<stop>>, start)]
           t == [p EXCEPT !.status = {"ARMED", "READY"}, !.final = "zero", !.polling = TRUE]
<1>1. startNext(p) = startMeasurementDone(s)
  <2>1. andSend(does(r), stop) = [p |-> r, out |-> <<stop>>]
    BY Sends
  <2>2. andSend([p |-> r, out |-> <<stop>>], start) = s
    BY DEF andSend
  <2> QED
    BY <2>1, <2>2 DEF startNext, stop, start
<1>2. [s EXCEPT !.p = [@ EXCEPT !.final = "zero", !.polling = TRUE]]
        = [p |-> t, out |-> Append(<<stop>>, start)]
  <2>1. [r EXCEPT !.final = "zero", !.polling = TRUE] = t
    BY DEF Program
  <2> HIDE DEF r, t
  <2> QED
    BY <2>1
<1>3. t.running /\ t.status = {"ARMED", "READY"}
  BY DEF Program
<1> HIDE DEF t, s
<1>4. measuring(t)
  BY <1>3 DEF measuring
<1>5. startMeasurementDone(s) = Actualize([p |-> t, out |-> Append(<<stop>>, start)])
  BY <1>2 DEF startMeasurementDone
<1>6. Actualize([p |-> t, out |-> Append(<<stop>>, start)])
        = [p |-> t, out |-> Append(Append(<<stop>>, start), "actualize")]
  BY <1>4 DEF Actualize, andSend
<1> QED
  BY <1>1, <1>5, <1>6 DEF t, threeRequests

\* The set-up: where it is off, goes on, or ends
LEMMA Goes ==
  ASSUME NEW p \in Program
  PROVE  /\ p.setup = "off" => setupContinue(p) = does(p)
         /\ stage(p) < 7 =>
              \E state \in SetupState, r \in SetupRequest :
                 /\ setupContinue(p) = [p |-> [p EXCEPT !.setup = state], out |-> <<r>>]
                 /\ number(state) = stage(p) + 1 /\ number(r) = stage(p) + 1
                 /\ r \in Mode => r = masterMeasMode(p)
         /\ stage(p) = 7 =>
              setupContinue(p) = [p |-> [p EXCEPT !.setup = start, !.status = {"ARMED"},
                                                  !.running = TRUE], out |-> <<start>>]
         /\ stage(p) = 8 =>
              \E out \in {<<>>, <<"actualize">>} :
                 setupContinue(p) = [p |-> [p EXCEPT !.setup = "off", !.final = "zero",
                                                     !.polling = TRUE], out |-> out]
         /\ p.setup # "off" => stage(p) < 7 \/ stage(p) = 7 \/ stage(p) = 8
<1>1. p.setup \in SetupState \cup {"off"} /\ stage(p) = number(p.setup)
  BY States DEF Program, stage
<1>2. p.setup = "off" => setupContinue(p) = does(p)
  BY DEF setupContinue
<1> DEFINE n == setupNext(p.setup)
<1>3. ASSUME p.setup # "off"
      PROVE  /\ setupContinue(p) = enterSetup(p, n)
             /\ n \in SetupState \cup {"off"}
             /\ stage(p) \in 1 .. 8 /\ number(n) = stage(p) + 1
  BY <1>1, <1>3, States DEF setupContinue
<1>4. number("off") = 9
  BY DEF number, Mode, start
<1> HIDE DEF n
<1>5. ASSUME stage(p) < 7
      PROVE  \E state \in SetupState, r \in SetupRequest :
                /\ setupContinue(p) = [p |-> [p EXCEPT !.setup = state], out |-> <<r>>]
                /\ number(state) = stage(p) + 1 /\ number(r) = stage(p) + 1
                /\ r \in Mode => r = masterMeasMode(p)
  <2>1. p.setup # "off"
    BY <1>1, <1>4, <1>5
  <2>2. n \in SetupState /\ n # start /\ number(n) = stage(p) + 1 /\ number(n) < 8 /\ n # "off"
    <3>1. number(n) < 8
      BY <1>3, <1>5, <2>1
    <3> QED
      BY <1>3, <1>4, <2>1, <3>1, Numbers
  <2>3. CASE n = "setmastermeasmode"
    <3>1. enterSetup(p, n) = [p |-> [p EXCEPT !.setup = n], out |-> <<masterMeasMode(p)>>]
      BY <2>3, Sends DEF enterSetup
    <3>2. masterMeasMode(p) \in Mode /\ Mode \subseteq SetupRequest
      BY DEF masterMeasMode, Mode, SetupRequest
    <3>3. number(n) = 5 /\ number(masterMeasMode(p)) = 5
      BY <2>2, <2>3, <3>2, Numbers
    <3> QED
      BY <1>3, <2>1, <2>2, <3>1, <3>2, <3>3
  <2>4. CASE n # "setmastermeasmode"
    <3>1. enterSetup(p, n) = [p |-> [p EXCEPT !.setup = n], out |-> <<n>>]
      BY <2>2, <2>4, Sends DEF enterSetup, start
    <3>2. n \in SetupRequest /\ n \notin Mode
      BY <2>2, <2>4 DEF SetupState, SetupRequest, Mode
    <3> QED
      BY <1>3, <2>1, <2>2, <3>1, <3>2
  <2> QED
    BY <2>3, <2>4
<1>6. ASSUME stage(p) = 7
      PROVE  setupContinue(p) = [p |-> [p EXCEPT !.setup = start, !.status = {"ARMED"},
                                                 !.running = TRUE], out |-> <<start>>]
  <2>1. p.setup # "off" /\ n = start
    <3>1. p.setup # "off"
      <4>1. stage(p) < 9
        BY <1>6
      <4> QED
        BY <1>1, <1>4, <4>1
    <3>2. number(n) = 8
      BY <1>3, <1>6, <3>1
    <3> QED
      BY <1>3, <3>1, <3>2, Numbers
  <2> DEFINE f == [p EXCEPT !.setup = start, !.status = {"ARMED"}, !.running = TRUE]
  <2>2. enterSetup(p, start) = andSend(does(f), start)
    <3>1. [[p EXCEPT !.setup = start] EXCEPT !.status = {"ARMED"}, !.running = TRUE] = f
      BY DEF Program
    <3> HIDE DEF f
    <3> QED
      BY <3>1 DEF enterSetup, start
  <2>3. andSend(does(f), start) = [p |-> f, out |-> <<start>>]
    BY Sends
  <2> QED
    BY <1>3, <2>1, <2>2, <2>3
<1>7. ASSUME stage(p) = 8
      PROVE  \E out \in {<<>>, <<"actualize">>} :
                setupContinue(p) = [p |-> [p EXCEPT !.setup = "off", !.final = "zero",
                                                    !.polling = TRUE], out |-> out]
  <2>1. p.setup # "off" /\ n = "off"
    <3>1. p.setup # "off"
      <4>1. stage(p) < 9
        BY <1>7
      <4> QED
        BY <1>1, <1>4, <4>1
    <3>2. number(n) = 9
      BY <1>3, <1>7, <3>1
    <3> QED
      BY <1>3, <3>1, <3>2, Numbers
  <2> DEFINE e == [p EXCEPT !.setup = "off"]
             f == [p EXCEPT !.setup = "off", !.final = "zero", !.polling = TRUE]
  <2>2. enterSetup(p, "off") = startMeasurementDone(does(e))
    BY DEF enterSetup
  <2>3. [does(e) EXCEPT !.p = [@ EXCEPT !.final = "zero", !.polling = TRUE]] = does(f)
    <3>1. [e EXCEPT !.final = "zero", !.polling = TRUE] = f
      BY DEF Program
    <3> HIDE DEF e, f
    <3> QED
      BY <3>1 DEF does
  <2> HIDE DEF e, f
  <2>4. enterSetup(p, "off") = Actualize(does(f))
    BY <2>2, <2>3 DEF startMeasurementDone
  <2>5. Actualize(does(f)) = [p |-> f, out |-> <<>>] \/ Actualize(does(f)) = [p |-> f, out |-> <<"actualize">>]
    BY Sends DEF Actualize, does
  <2> QED
    BY <1>3, <2>1, <2>4, <2>5 DEF f
<1>8. p.setup # "off" => stage(p) < 7 \/ stage(p) = 7 \/ stage(p) = 8
  BY <1>3
<1> QED
  BY <1>2, <1>5, <1>6, <1>7, <1>8

-----------------------------------------------------------------------------
(* Types; and the status while nothing runs *)

\* A program with its bound on the results; only a measurement waits for the next one.
Fits(p) == p \in Program /\ Len(p.stored) <= StoredMax /\ (p.waiting => p.running)

\* What a slot makes of p
Proper(p, s) ==
  /\ Fits(s.p) /\ s.out \in Seq(Request)
  /\ ~p.running /\ s.p.status # p.status => s.p.running

TypeInv == TypeOK /\ (sec.waiting => sec.running)

LEMMA ProperWhen ==
  ASSUME NEW p, NEW q, Fits(q), NEW out \in Seq(Request),
         q.status = p.status \/ q.running \/ p.running
  PROVE  Proper(p, [p |-> q, out |-> out])
<1> DEFINE s == [p |-> q, out |-> out]
<1>1. s.p = q /\ s.out = out
  OBVIOUS
<1> HIDE DEF s
<1>2. Proper(p, s)
  BY Zenon, <1>1 DEF Proper
<1> QED
  BY <1>2 DEF s

LEMMA ProperNothing ==
  ASSUME NEW p, NEW q, Fits(q), q.status = p.status \/ q.running \/ p.running
  PROVE  Proper(p, does(q))
<1>1. <<>> \in Seq(Request)
  OBVIOUS
<1> QED
  BY <1>1, ProperWhen DEF does

LEMMA ProperSend ==
  ASSUME NEW p, NEW q, Fits(q), NEW x \in Request,
         q.status = p.status \/ q.running \/ p.running
  PROVE  Proper(p, andSend(does(q), x))
<1>1. <<x>> \in Seq(Request)
  OBVIOUS
<1> QED
  BY <1>1, ProperWhen, Sends

LEMMA ProperStop ==
  ASSUME NEW p, Fits(p)
  PROVE  Proper(p, stopECCalculator(p))
<1> DEFINE q == [p EXCEPT !.running = FALSE, !.startStop = FALSE, !.polling = FALSE, !.waiting = FALSE]
<1>1. Fits(q) /\ q.status = p.status
  BY DEF Fits, Program
<1>2. <<stop>> \in Seq(Request)
  BY Requests
<1> QED
  BY <1>1, <1>2, Stops, ProperWhen

LEMMA ProperNext ==
  ASSUME NEW p, Fits(p), p.running
  PROVE  Proper(p, startNext(p))
<1> DEFINE q == [p EXCEPT !.status = {"ARMED", "READY"}, !.final = "zero", !.polling = TRUE]
<1>1. Fits(q)
  BY DEF Fits, Program, StatusBit, FinalCount
<1>2. threeRequests \in Seq(Request)
  <2>1. {stop, start, "actualize"} \subseteq Request
    BY Requests
  <2> QED
    BY <2>1, Sending DEF threeRequests
<1>3. startNext(p) = [p |-> q, out |-> threeRequests]
  BY Continues DEF Fits
<1> QED
  BY <1>1, <1>2, <1>3, ProperWhen

LEMMA ProperSetup ==
  ASSUME NEW p, Fits(p)
  PROVE  Proper(p, setupContinue(p))
<1>1. p \in Program
  BY DEF Fits
<1>2. CASE p.setup = "off"
  BY <1>1, <1>2, Goes, ProperNothing, ZenonT(30)
<1>3. CASE stage(p) < 7
  <2>1. PICK state \in SetupState, r \in SetupRequest :
               setupContinue(p) = [p |-> [p EXCEPT !.setup = state], out |-> <<r>>]
    BY <1>1, <1>3, Goes
  <2>2. Fits([p EXCEPT !.setup = state]) /\ [p EXCEPT !.setup = state].status = p.status
    BY States DEF Fits, Program
  <2>3. <<r>> \in Seq(Request)
    BY Requests
  <2> QED
    BY <2>1, <2>2, <2>3, ProperWhen
<1>4. CASE stage(p) = 7
  <2> DEFINE q == [p EXCEPT !.setup = start, !.status = {"ARMED"}, !.running = TRUE]
  <2>1. setupContinue(p) = [p |-> q, out |-> <<start>>]
    BY <1>1, <1>4, Goes
  <2>2. Fits(q) /\ q.running
    BY States DEF Fits, Program, StatusBit, SetupState
  <2>3. <<start>> \in Seq(Request)
    BY Requests
  <2> HIDE DEF q
  <2>4. Proper(p, [p |-> q, out |-> <<start>>])
    BY <2>2, <2>3, ProperWhen, Zenon
  <2> QED
    BY <2>1, <2>4, Zenon
<1>5. CASE stage(p) = 8
  <2> DEFINE q == [p EXCEPT !.setup = "off", !.final = "zero", !.polling = TRUE]
  <2>1. PICK out \in {<<>>, <<"actualize">>} : setupContinue(p) = [p |-> q, out |-> out]
    BY <1>1, <1>5, Goes
  <2>2. Fits(q) /\ q.status = p.status
    BY DEF Fits, Program, FinalCount
  <2>3. out \in Seq(Request)
    <3>1. "actualize" \in Request
      BY Requests
    <3>2. <<"actualize">> \in Seq(Request) /\ <<>> \in Seq(Request)
      BY <3>1
    <3> QED
      BY <3>2
  <2> QED
    BY <2>1, <2>2, <2>3, ProperWhen
<1> QED
  BY <1>1, <1>2, <1>3, <1>4, <1>5, Goes

LEMMA ProperLife ==
  ASSUME NEW p, Fits(p)
  PROVE  Proper(p, activationContinue(p)) /\ Proper(p, deactivationContinue(p))
<1>1. \A life \in {"freeing", "deactivated", "notifier", "active"} :
         Fits([p EXCEPT !.life = life]) /\ [p EXCEPT !.life = life].status = p.status
                                        /\ [p EXCEPT !.life = life].running = p.running
  BY DEF Fits, Program
<1>2. "freeecalcunits" \in Request /\ "setsecintnotifier" \in Request
  BY Requests
<1>3. Proper(p, does([p EXCEPT !.life = "deactivated"]))
  BY <1>1, ProperNothing
<1>4. /\ Proper(p, andSend(does([p EXCEPT !.life = "freeing"]), "freeecalcunits"))
      /\ Proper(p, andSend(does([p EXCEPT !.life = "notifier"]), "setsecintnotifier"))
  BY <1>1, <1>2, ProperSend
<1>5. Proper(p, stopECCalculator([p EXCEPT !.life = "active"]))
  <2>1. Proper([p EXCEPT !.life = "active"], stopECCalculator([p EXCEPT !.life = "active"]))
    BY <1>1, ProperStop
  <2> QED
    BY <1>1, <2>1 DEF Proper
<1> QED
  BY <1>3, <1>4, <1>5, ProperNothing DEF activationContinue, deactivationContinue

LEMMA ProperRestart ==
  ASSUME NEW p, Fits(p)
  PROVE  Proper(p, checkForRestart(p))
<1> DEFINE counted == [p EXCEPT !.toGo = IF @ > 0 THEN @ - 1 ELSE 0]
           rest(q) == [q EXCEPT !.status = {"READY", "WAIT"}, !.waiting = TRUE]
           next(q) == IF q.hk \/ q.continuous \/ ~q.pause THEN startNext(q) ELSE does(rest(q))
<1>1. Fits(counted) /\ counted.status = p.status /\ counted.running = p.running
  BY DEF Fits, Program
<1>2. ASSUME NEW q, Fits(q), q.running
      PROVE  Proper(q, next(q))
  <2>1. Fits(rest(q)) /\ rest(q).running
    BY <1>2 DEF Fits, Program, StatusBit
  <2>2. Proper(q, does(rest(q)))
    BY <1>2, <2>1, ProperNothing
  <2> QED
    BY <1>2, <2>2, ProperNext
<1>3. p.running => Proper(p, next(p))
  BY <1>2
<1>4. p.running => Proper(p, next(counted))
  <2>1. p.running => Proper(counted, next(counted))
    BY <1>1, <1>2
  <2> QED
    BY <1>1, <2>1 DEF Proper
<1>5. Proper(p, endSequence(counted))
  BY <1>1, ProperStop DEF endSequence, Proper
<1> HIDE DEF counted, next
<1>6. \/ checkForRestart(p) = does(p)
      \/ p.running /\ checkForRestart(p) = next(p)
      \/ p.running /\ checkForRestart(p) = next(counted)
      \/ checkForRestart(p) = endSequence(counted)
  BY DEF checkForRestart, next, counted
<1> QED
  BY <1>3, <1>4, <1>5, <1>6, ProperNothing

LEMMA ProperInterrupt ==
  ASSUME NEW p, Fits(p)
  PROVE  Proper(p, interruptContinue(p)) /\ Proper(p, handleSECInterrupt(p))
<1>1. \A i \in {"off", "read", "reset"} :
         LET q == [p EXCEPT !.interrupt = i]
         IN  Fits(q) /\ q.status = p.status /\ q.running = p.running
  BY DEF Fits, Program
<1>2. readFinalCount \in Request /\ resetInt \in Request
  BY Requests
<1>3. Proper(p, handleSECInterrupt(p))
  BY <1>1, <1>2, ProperSend, ProperNothing DEF handleSECInterrupt, readFinalCount
<1>4. Proper(p, checkForRestart([p EXCEPT !.interrupt = "off"]))
  <2>1. Proper([p EXCEPT !.interrupt = "off"], checkForRestart([p EXCEPT !.interrupt = "off"]))
    BY <1>1, ProperRestart
  <2> QED
    BY <1>1, <2>1 DEF Proper
<1> DEFINE q == [p EXCEPT !.interrupt = "reset"]
           ready == [q EXCEPT !.status = {"READY"} \cup (IF q.continuous THEN {"STARTED"} ELSE {}),
                              !.measNo = @ + 1,
                              !.stored = IF storesMore(q) THEN Append(@, q.final) ELSE @]
           r == IF finished(q) THEN setECResult(ready) ELSE q
<1>5. Proper(p, setECResultAndResetInt(q))
  <2>1. Fits(q) /\ q.status = p.status /\ q.running = p.running
    BY <1>1
  <2> HIDE DEF q
  <2>2. q \in Program /\ q.stored \in Seq(FinalCount) /\ q.final \in FinalCount /\ Len(q.stored) \in Nat
    BY <2>1, LenProperties DEF Fits, Program
  <2> DEFINE st == IF storesMore(q) THEN Append(q.stored, q.final) ELSE q.stored
  <2>3. st \in Seq(FinalCount) /\ Len(st) <= StoredMax
    <3>1. Append(q.stored, q.final) \in Seq(FinalCount)
          /\ Len(Append(q.stored, q.final)) = Len(q.stored) + 1
      BY <2>2, AppendProperties
    <3> QED
      BY <2>1, <2>2, <3>1, Sec1Assumption DEF storesMore, Fits
  <2> HIDE DEF st
  <2>4. ready = [q EXCEPT !.status = {"READY"} \cup (IF q.continuous THEN {"STARTED"} ELSE {}),
                          !.measNo = @ + 1, !.stored = st]
    BY DEF st
  <2> DEFINE st2 == {"READY"} \cup (IF q.continuous THEN {"STARTED"} ELSE {})
  <2>8. st2 \subseteq StatusBit
    BY DEF StatusBit
  <2> HIDE DEF st2
  <2>5. Fits(setECResult(ready))
    <3>1. ready = [q EXCEPT !.status = st2, !.measNo = @ + 1, !.stored = st]
      BY <2>4 DEF st2
    <3> HIDE DEF ready
    <3>4. q.measNo + 1 \in Nat
      BY <2>2 DEF Program
    <3>5. ready \in Program
      BY <2>2, <2>3, <2>8, <3>1, <3>4 DEF Program
    <3>2. ready.stored = st /\ (ready.waiting <=> q.waiting) /\ (ready.running <=> q.running)
      BY <2>2, <3>1 DEF Program
    <3>3. setECResult(ready) \in Program /\ setECResult(ready).stored = st
          /\ (setECResult(ready).waiting <=> q.waiting) /\ (setECResult(ready).running <=> q.running)
      BY <3>2, <3>5 DEF setECResult, Program
    <3> QED
      BY <2>1, <2>3, <3>3 DEF Fits
  <2>6. Fits(r) /\ (r = q \/ p.running)
    BY <2>1, <2>5 DEF finished
  <2>7. setECResultAndResetInt(q) = andSend(does(r), resetInt)
    BY DEF setECResultAndResetInt, resetInt
  <2> HIDE DEF r
  <2> QED
    BY <1>2, <2>1, <2>6, <2>7, ProperSend
<1> HIDE DEF q
<1>6. Proper(p, interruptContinue(p))
  BY <1>4, <1>5, ProperNothing DEF interruptContinue, q
<1> QED
  BY <1>3, <1>6

LEMMA ProperAnswer ==
  ASSUME NEW p, Fits(p), NEW x \in Request, hw \in Calculator
  PROVE  Proper(p, catchInterfaceAnswer(p, x))
<1>1. Fits(readFinal(p)) /\ readFinal(p).status = p.status /\ readFinal(p).running = p.running
  BY DEF readFinal, Fits, Program, Calculator
<1>2. Proper(p, interruptContinue(readFinal(p)))
  <2>1. Proper(readFinal(p), interruptContinue(readFinal(p)))
    BY <1>1, ProperInterrupt
  <2> QED
    BY <1>1, <2>1 DEF Proper
<1> DEFINE q == IF measuring(p) THEN [p EXCEPT !.status = (@ \cap {"READY"}) \cup statusBits(hw)] ELSE p
<1>3. Proper(p, does(q))
  <2>1. statusBits(hw) \subseteq StatusBit
    BY DEF statusBits, StatusBit
  <2>2. Fits(q) /\ (q = p \/ p.running)
    BY <2>1 DEF Fits, Program, measuring, StatusBit
  <2> HIDE DEF q
  <2> QED
    BY <2>2, ProperNothing
<1> HIDE DEF q
<1>4. \/ catchInterfaceAnswer(p, x) = activationContinue(p)
      \/ catchInterfaceAnswer(p, x) = deactivationContinue(p)
      \/ catchInterfaceAnswer(p, x) = does(q)
      \/ catchInterfaceAnswer(p, x) = interruptContinue(readFinal(p))
      \/ catchInterfaceAnswer(p, x) = interruptContinue(p)
      \/ catchInterfaceAnswer(p, x) = setupContinue(p)
  BY DEF catchInterfaceAnswer, q
<1> QED
  BY <1>2, <1>3, <1>4, ProperLife, ProperInterrupt, ProperSetup

\* What every step keeps, whatever interferes
Kept == TypeInv' /\ (~sec.running /\ sec'.status # sec.status => sec'.running)

LEMMA KeptBy ==
  ASSUME TypeInv, NEW s, Proper(sec, s), sec' = s.p, NEW l \in Seq(Request), line' = l \o s.out,
         hw' \in Calculator, writes' \in 0 .. MaxWrites, refusals' \in 0 .. MaxRefusals
  PROVE  Kept
<1>1. Fits(sec') /\ (~sec.running /\ sec'.status # sec.status => sec'.running)
  BY Zenon DEF Proper
<1>2. line' \in Seq(Request)
  BY ConcatProperties DEF Proper
<1> QED
  BY <1>1, <1>2 DEF Kept, TypeInv, TypeOK, Fits

LEMMA KeptWithout ==
  ASSUME TypeInv, UNCHANGED sec, line' \in Seq(Request),
         hw' \in Calculator, writes' \in 0 .. MaxWrites, refusals' \in 0 .. MaxRefusals
  PROVE  Kept
BY DEF Kept, TypeInv, TypeOK

LEMMA KeptByWrite ==
  ASSUME TypeInv, NEW s, Proper(sec, s), write(s), UNCHANGED <<hw, refusals>>
  PROVE  Kept
<1>1. line \in Seq(Request) /\ hw' \in Calculator /\ refusals' \in 0 .. MaxRefusals
  BY DEF TypeInv, TypeOK
<1>2. writes' \in 0 .. MaxWrites
  BY Sec1Assumption DEF write, TypeInv, TypeOK
<1> QED
  BY <1>1, <1>2, KeptBy DEF write, do

LEMMA KeptStep ==
  ASSUME TypeInv, [Next]_vars
  PROVE  Kept
<1>1. /\ Fits(sec) /\ sec \in Program /\ line \in Seq(Request) /\ hw \in Calculator
      /\ writes \in 0 .. MaxWrites /\ refusals \in 0 .. MaxRefusals
  BY DEF TypeInv, TypeOK, Fits
<1>2. CASE Connected
  <2>1. Fits([sec EXCEPT !.life = "fetch"]) /\ [sec EXCEPT !.life = "fetch"].status = sec.status
    BY <1>1 DEF Fits, Program
  <2>2. "fetchecalcunits" \in Request
    BY Requests
  <2>3. Proper(sec, andSend(does([sec EXCEPT !.life = "fetch"]), "fetchecalcunits"))
    BY <2>1, <2>2, ProperSend
  <2> QED
    BY <1>1, <1>2, <2>3, KeptBy DEF Connected, do
<1>3. CASE Answer
  <2>1. Head(line) \in Request /\ Tail(line) \in Seq(Request)
    BY <1>1, <1>3, Answered DEF Answer
  <2>2. carryOut(hw, Head(line)) \in Calculator
    BY <1>1, <2>1, Carried
  <2>3. Proper(sec, catchInterfaceAnswer(sec, Head(line)))
    BY <1>1, <2>1, ProperAnswer
  <2> QED
    BY <1>1, <1>3, <2>1, <2>2, <2>3, KeptBy DEF Answer
<1>4. CASE Refuse
  <2>1. Tail(line) \in Seq(Request)
    BY <1>1, <1>4, Answered DEF Refuse
  <2>2. refusals + 1 \in 0 .. MaxRefusals
    BY <1>1, <1>4, Sec1Assumption DEF Refuse
  <2> QED
    BY <1>1, <1>4, <2>1, <2>2, KeptWithout DEF Refuse
<1>5. CASE FirstPulse
  <2>1. firstPulse(hw) \in Calculator
    BY <1>1 DEF firstPulse, Calculator
  <2> QED
    BY <1>1, <1>5, <2>1, KeptWithout DEF FirstPulse
<1>6. CASE LastPulse
  <2>1. countDown(hw) \in Calculator
    BY <1>1 DEF countDown, Calculator, FinalCount
  <2>2. Proper(sec, does(sec)) /\ Proper(sec, handleSECInterrupt(sec))
    BY <1>1, ProperNothing, ProperInterrupt
  <2> QED
    BY <1>1, <1>6, <2>1, <2>2, KeptBy DEF LastPulse, do
<1>7. CASE Poll
  <2>1. Proper(sec, Actualize(does(sec)))
    <3>1. "actualize" \in Request
      BY Requests
    <3>2. Proper(sec, does(sec)) /\ Proper(sec, andSend(does(sec), "actualize"))
      BY <1>1, <3>1, ProperNothing, ProperSend
    <3> QED
      BY <3>2 DEF Actualize
  <2> QED
    BY <1>1, <1>7, <2>1, KeptBy DEF Poll, do
<1>8. CASE WaitOver
  <2> DEFINE q == [sec EXCEPT !.waiting = FALSE]
  <2>1. Fits(q) /\ q.running /\ q.status = sec.status
    BY <1>1, <1>8 DEF Fits, Program, WaitOver
  <2> HIDE DEF q
  <2>2. Proper(q, startNext(q))
    BY <2>1, ProperNext, Zenon
  <2>3. sec.running
    BY <1>8, Zenon DEF WaitOver, TypeInv
  <2>4. Proper(sec, startNext(q))
    BY <2>2, <2>3, Zenon DEF Proper
  <2> QED
    BY <1>1, <1>8, <2>4, KeptBy DEF WaitOver, do, q
<1>9. CASE ClientStart
  <2>1. PICK count \in Counts, pause \in BOOLEAN :
           LET p == [sec EXCEPT !.startStop = TRUE, !.count = count, !.pause = pause,
                                !.toGo = count, !.measNo = 0, !.stored = <<>>]
           IN  write(IF p.setup = "off" THEN enterSetup(p, setupStates[1]) ELSE does(p))
    BY <1>9 DEF ClientStart
  <2> DEFINE p == [sec EXCEPT !.startStop = TRUE, !.count = count, !.pause = pause,
                              !.toGo = count, !.measNo = 0, !.stored = <<>>]
             q == [p EXCEPT !.setup = "setsync"]
  <2>2. Fits(p) /\ Fits(q) /\ p.status = sec.status /\ q.status = sec.status
    <3>1. count \in Nat /\ StoredMax \in Nat /\ Len(<<>>) = 0 /\ <<>> \in Seq(FinalCount)
      BY Sec1Assumption
    <3>2. "setsync" \in Range1(setupStates)
      BY States DEF SetupState
    <3>3. p \in Program /\ p.stored = <<>> /\ (p.waiting => p.running) /\ p.status = sec.status
      BY <1>1, <3>1 DEF Fits, Program
    <3>4. q \in Program /\ q.stored = <<>> /\ (q.waiting => q.running) /\ q.status = sec.status
      BY <1>1, <3>1, <3>2 DEF Fits, Program
    <3> QED
      BY <3>1, <3>3, <3>4 DEF Fits
  <2>3. enterSetup(p, setupStates[1]) = andSend(does(q), "setsync")
    BY States DEF enterSetup
  <2> HIDE DEF p, q
  <2>4. Proper(sec, does(p)) /\ Proper(sec, andSend(does(q), "setsync"))
    <3>1. "setsync" \in Request
      BY Requests DEF SetupRequest
    <3> QED
      BY <2>2, <3>1, ProperNothing, ProperSend
  <2>5. write(does(p)) \/ write(andSend(does(q), "setsync"))
    BY <2>1, <2>3 DEF p
  <2> QED
    BY <1>9, <2>4, <2>5, KeptByWrite DEF ClientStart
<1>10. CASE ClientStop
  <2> DEFINE q == IF sec.running THEN [sec EXCEPT !.status = {"ABORT"}] ELSE sec
  <2>1. Fits(q) /\ (q = sec \/ sec.running)
    BY <1>1, SMTT(30) DEF Fits, Program, StatusBit
  <2>2. write(stopECCalculator(q)) /\ UNCHANGED <<hw, refusals>>
    BY <1>10 DEF ClientStop
  <2> HIDE DEF q
  <2>3. Proper(q, stopECCalculator(q))
    BY <2>1, ProperStop
  <2>4. Proper(sec, stopECCalculator(q))
    BY <2>1, <2>3, Zenon DEF Proper
  <2> QED
    BY <2>2, <2>4, KeptByWrite
<1>11. CASE ClientSetsMode
  <2>1. PICK continuous \in BOOLEAN, hk \in BOOLEAN :
           write(does([sec EXCEPT !.continuous = continuous, !.hk = hk]))
    BY <1>11 DEF ClientSetsMode
  <2> DEFINE q == [sec EXCEPT !.continuous = continuous, !.hk = hk]
  <2>2. Fits(q) /\ q.status = sec.status
    BY <1>1 DEF Fits, Program
  <2> HIDE DEF q
  <2>3. Proper(sec, does(q))
    BY <2>2, ProperNothing
  <2> QED
    BY <1>11, <2>1, <2>3, KeptByWrite DEF ClientSetsMode, q
<1>12. ASSUME \/ write(does(sec)) \/ write(does(setECResult(sec)))
              \/ write(does([sec EXCEPT !.polling = sec.running])),
              UNCHANGED <<hw, refusals>>
       PROVE  Kept
  <2>1. /\ Fits(setECResult(sec)) /\ setECResult(sec).status = sec.status
        /\ Fits([sec EXCEPT !.polling = sec.running])
        /\ [sec EXCEPT !.polling = sec.running].status = sec.status
    BY <1>1 DEF Fits, Program, setECResult
  <2>2. /\ Proper(sec, does(sec)) /\ Proper(sec, does(setECResult(sec)))
        /\ Proper(sec, does([sec EXCEPT !.polling = sec.running]))
    BY <1>1, <2>1, ProperNothing
  <2> QED
    BY <1>12, <2>2, KeptByWrite
<1>13. CASE newDutConstant
  BY <1>12, <1>13 DEF newDutConstant
<1>14. CASE newDutConstantUnit
  BY <1>12, <1>14 DEF newDutConstantUnit
<1>15. CASE clientActivationChanged
  BY <1>12, <1>15 DEF clientActivationChanged
<1>16. CASE onPowerModuleValuesChanged
  <2>1. Proper(sec, stopECCalculator(sec))
    BY <1>1, ProperStop
  <2> QED
    BY <1>16, <2>1, KeptByWrite DEF onPowerModuleValuesChanged
<1>17. CASE Deactivate
  <2> DEFINE q == [sec EXCEPT !.life = "stopping"]
  <2>1. Fits(q) /\ q.status = sec.status /\ (q.running <=> sec.running)
    BY <1>1 DEF Fits, Program
  <2> HIDE DEF q
  <2>2. Proper(q, stopECCalculator(q))
    BY <2>1, ProperStop
  <2>3. Proper(sec, stopECCalculator(q))
    BY <2>1, <2>2, Zenon DEF Proper
  <2> QED
    BY <1>1, <1>17, <2>3, KeptBy DEF Deactivate, do, q
<1>18. CASE UNCHANGED vars
  BY <1>1, <1>18, KeptWithout DEF vars
<1> QED
  BY <1>2, <1>3, <1>4, <1>5, <1>6, <1>7, <1>8, <1>9, <1>10, <1>11, <1>13, <1>14, <1>15, <1>16,
     <1>17, <1>18 DEF Next, Works

LEMMA TypeInit == Init => TypeInv
<1> SUFFICES ASSUME Init
             PROVE  TypeInv
  OBVIOUS
<1>1. /\ 0 \in 0 .. MaxWrites /\ 0 \in 0 .. MaxRefusals
      /\ StoredMax \in Nat /\ Len(<<>>) = 0 /\ <<>> \in Seq(FinalCount) /\ <<>> \in Seq(Request)
  BY Sec1Assumption
<1>2. sec \in Program /\ sec.stored = <<>> /\ ~sec.waiting
  BY <1>1 DEF Init, Program, FinalCount
<1>3. hw \in Calculator
  BY DEF Init, idleCalculator, Calculator, FinalCount
<1> QED
  BY <1>1, <1>2, <1>3 DEF Init, TypeInv, TypeOK

LEMMA TypeInvAlways == Spec => []TypeInv
<1>1. TypeInv /\ [Next]_vars => TypeInv'
  BY KeptStep DEF Kept
<1> QED
  BY TypeInit, <1>1, PTL DEF Spec

\* Every variable has its type and the bounds hold, whatever interferes and whatever the
\* service refuses.
THEOREM TypeCorrect == Spec => []TypeOK
<1>1. TypeInv => TypeOK
  BY DEF TypeInv
<1> QED
  BY <1>1, TypeInvAlways, PTL

\* No late answer and no late interrupt changes the status of a measurement that is over:
\* whatever interferes and whatever the service refuses.
THEOREM StatusIsLeftAlone == Spec => StatusRests
<1>1. TypeInv /\ [Next]_vars => [~sec.running /\ sec'.status # sec.status => sec'.running]_vars
  BY KeptStep DEF Kept
<1> QED
  BY <1>1, TypeInvAlways, PTL DEF Spec, StatusRests

-----------------------------------------------------------------------------
(* The slots keep the invariant *)

\* A sequence that ends by itself is whole.
Whole(q, p) ==
  q.interrupt = "reset" /\ p.interrupt = "off" /\ q.running /\ ~p.running => p.measNo >= q.count

\* What a slot makes of q with the line l
Well(q, l, h, s) == Inv(s.p, l \o s.out, h) /\ Whole(q, s.p)

LEMMA WellWhen ==
  ASSUME NEW q, NEW p, NEW h, NEW l, NEW out, Inv(p, l \o out, h), p.interrupt = q.interrupt
  PROVE  Well(q, l, h, [p |-> p, out |-> out])
<1> DEFINE s == [p |-> p, out |-> out]
<1>1. s.p = p /\ s.out = out
  OBVIOUS
<1>2. Whole(q, p)
  <2>1. "reset" # "off"
    OBVIOUS
  <2> QED
    BY <2>1, Zenon DEF Whole
<1> HIDE DEF s
<1>3. Well(q, l, h, s)
  BY <1>1, <1>2, Zenon DEF Well
<1> QED
  BY <1>3 DEF s

LEMMA WellNothing ==
  ASSUME NEW q, NEW p, NEW h, NEW l \in Seq(Request), Inv(p, l, h), p.interrupt = q.interrupt
  PROVE  Well(q, l, h, does(p))
<1>1. l \o <<>> = l
  BY Sending
<1> QED
  BY <1>1, WellWhen DEF does

LEMMA WellSend ==
  ASSUME NEW q, NEW p, NEW h, NEW l, NEW x, Inv(p, l \o <<x>>, h), p.interrupt = q.interrupt
  PROVE  Well(q, l, h, andSend(does(p), x))
BY Sends, WellWhen

\* A stop of r, which differs from q where that does not matter
LEMMA WellStop ==
  ASSUME NEW q, NEW l, NEW h, Typed(q, l, h), Inv(q, l, h),
         NEW r \in Program, r.setup = q.setup, r.interrupt = q.interrupt,
         r.continuous = q.continuous, r.hk = q.hk,
         r.final = q.final, r.result = q.result, r.stored = q.stored,
         q.setup = "off" \/ (q.running /\ start \notin Elems(l) /\ r.life = q.life)
  PROVE  Well(q, l, h, stopECCalculator(r))
<1> DEFINE p == [r EXCEPT !.running = FALSE, !.startStop = FALSE, !.polling = FALSE, !.waiting = FALSE]
<1>1. /\ ~p.running /\ ~p.waiting /\ p.setup = q.setup /\ p.interrupt = q.interrupt
      /\ p.continuous = q.continuous /\ p.hk = q.hk
      /\ p.final = q.final /\ p.result = q.result /\ p.stored = q.stored
      /\ p.life = r.life
  BY DEF Program
<1>2. stopECCalculator(r) = [p |-> p, out |-> <<stop>>]
  BY Stops
<1> HIDE DEF p
<1>3. Inv(p, l \o <<stop>>, h)
  BY <1>1, StopStep
<1> QED
  BY <1>1, <1>2, <1>3, WellWhen

LEMMA WellNext ==
  ASSUME NEW q, NEW l, NEW h, Typed(q, l, h), Inv(q, l, h),
         q.running, ~counting(h),
         Elems(l) \cap {start, stop, readFinalCount, resetInt} = {},
         NEW r \in Program, r.life = q.life, r.startStop = q.startStop, r.running, ~r.waiting,
         r.setup = q.setup, r.interrupt = q.interrupt, r.continuous = q.continuous, r.hk = q.hk,
         r.result = q.result, r.stored = q.stored, r.measNo + r.toGo >= r.count
  PROVE  Well(q, l, h, startNext(r))
<1> DEFINE p == [r EXCEPT !.status = {"ARMED", "READY"}, !.final = "zero", !.polling = TRUE]
           m == (l \o <<stop>>) \o <<start>>
<1>1. /\ p.running /\ ~p.waiting /\ p.final = "zero"
      /\ p.life = q.life /\ p.startStop = q.startStop
      /\ p.setup = q.setup /\ p.interrupt = q.interrupt /\ p.continuous = q.continuous /\ p.hk = q.hk
      /\ p.result = q.result /\ p.stored = q.stored /\ p.measNo + p.toGo >= p.count
  BY DEF Program
<1>2. p \in Program
  BY DEF Program, StatusBit, FinalCount
<1>3. startNext(r) = [p |-> p, out |-> threeRequests]
  BY Continues
<1>4. l \in Seq(Request) /\ h \in Calculator /\ {start, stop, "actualize"} \subseteq Request
  BY Requests DEF Typed
<1>5. /\ <<stop>> \in Seq(Request) /\ Append(<<stop>>, start) \in Seq(Request)
      /\ l \o <<stop>> \in Seq(Request) /\ m \in Seq(Request)
  BY <1>4, Sending, More
<1>6. l \o threeRequests = m \o <<"actualize">>
  <2>1. l \o Append(<<stop>>, start) = m
    <3>1. start \in Request
      BY <1>4
    <3>2. \A n \in Seq(Request), x \in Request : l \o Append(n, x) = (l \o n) \o <<x>>
      BY <1>4, Sending
    <3> QED
      BY <1>5, <3>1, <3>2, Zenon
  <2>2. l \o threeRequests = (l \o Append(<<stop>>, start)) \o <<"actualize">>
    BY <1>4, <1>5, Sending DEF threeRequests
  <2> QED
    BY <2>1, <2>2
<1> HIDE DEF p
<1>7. Inv(p, m, h)
  BY <1>1, NextMeasurement
<1> HIDE DEF m
<1>8. Inv(p, m \o <<"actualize">>, h)
  BY <1>2, <1>4, <1>5, <1>7, Harmless DEF Typed
<1> QED
  BY <1>1, <1>3, <1>6, <1>8, WellWhen

LEMMA WellSetup ==
  ASSUME NEW q, NEW l, NEW h, Typed(q, l, h), Inv(q, l, h),
         NEW x \in SetupRequest \cup {start}, HeadFacts(q, x, l, h)
  PROVE  Well(q, l, h, setupContinue(q))
<1>1. q \in Program /\ l \in Seq(Request) /\ h \in Calculator
  BY DEF Typed
<1>2. CASE q.setup = "off"
  <2>1. setupContinue(q) = does(q)
    BY <1>1, <1>2, Goes
  <2> QED
    BY <1>1, <2>1, WellNothing
<1>3. CASE stage(q) < 7
  <2>1. PICK state \in SetupState, r \in SetupRequest :
           /\ setupContinue(q) = [p |-> [q EXCEPT !.setup = state], out |-> <<r>>]
           /\ number(state) = stage(q) + 1 /\ number(r) = stage(q) + 1
           /\ r \in Mode => r = masterMeasMode(q)
    BY <1>1, <1>3, Goes
  <2> DEFINE p == [q EXCEPT !.setup = state]
  <2>2. /\ stage(p) = stage(q) + 1
        /\ p.life = q.life /\ p.startStop = q.startStop /\ p.running = q.running
        /\ p.waiting = q.waiting /\ p.interrupt = q.interrupt
        /\ p.continuous = q.continuous /\ p.hk = q.hk
        /\ p.final = q.final /\ p.result = q.result /\ p.stored = q.stored
        /\ p.measNo = q.measNo /\ p.toGo = q.toGo /\ p.count = q.count
    BY <1>1, <2>1 DEF Program, stage
  <2>3. setupContinue(q) = [p |-> p, out |-> <<r>>]
    BY <2>1
  <2> HIDE DEF p
  <2>4. Inv(p, l \o <<r>>, h)
    BY <1>3, <2>1, <2>2, AdvanceStep
  <2> QED
    BY <2>2, <2>3, <2>4, WellWhen
<1>4. CASE stage(q) = 7
  <2> DEFINE p == [q EXCEPT !.setup = start, !.status = {"ARMED"}, !.running = TRUE]
  <2>1. /\ p.setup = start /\ p.running
        /\ p.life = q.life /\ p.startStop = q.startStop
        /\ p.waiting = q.waiting /\ p.interrupt = q.interrupt
        /\ p.continuous = q.continuous /\ p.hk = q.hk
        /\ p.final = q.final /\ p.result = q.result /\ p.stored = q.stored
        /\ p.measNo = q.measNo /\ p.toGo = q.toGo /\ p.count = q.count
    BY <1>1 DEF Program
  <2>2. setupContinue(q) = [p |-> p, out |-> <<start>>]
    BY <1>1, <1>4, Goes
  <2> HIDE DEF p
  <2>3. Inv(p, l \o <<start>>, h)
    BY <1>4, <2>1, StartStep
  <2> QED
    BY <2>1, <2>2, <2>3, WellWhen
<1>5. CASE stage(q) = 8
  <2> DEFINE p == [q EXCEPT !.setup = "off", !.final = "zero", !.polling = TRUE]
  <2>1. /\ p.setup = "off" /\ p.running = q.running
        /\ p.life = q.life /\ p.startStop = q.startStop
        /\ p.waiting = q.waiting /\ p.interrupt = q.interrupt
        /\ p.continuous = q.continuous /\ p.hk = q.hk
        /\ p.final = "zero" /\ p.result = q.result /\ p.stored = q.stored
        /\ p.measNo = q.measNo /\ p.toGo = q.toGo /\ p.count = q.count
        /\ p \in Program
    BY <1>1 DEF Program, FinalCount
  <2>2. PICK out \in {<<>>, <<"actualize">>} : setupContinue(q) = [p |-> p, out |-> out]
    BY <1>1, <1>5, Goes
  <2> HIDE DEF p
  <2>3. Inv(p, l, h)
    BY <1>5, <2>1, EndStep
  <2>4. Inv(p, l \o <<"actualize">>, h)
    BY <1>1, <2>1, <2>3, Harmless DEF Typed
  <2>5. Inv(p, l \o <<>>, h)
    BY <1>1, <2>3, Sending
  <2> QED
    BY <2>1, <2>2, <2>4, <2>5, WellWhen
<1> QED
  BY <1>1, <1>2, <1>3, <1>4, <1>5, Goes

\* The handling of an interrupt is over.
LEMMA OverStep ==
  ASSUME NEW q, NEW l, NEW h, Inv(q, l, h), Elems(l) \cap {readFinalCount, resetInt} = {},
         NEW p, p.life = q.life, p.startStop = q.startStop, p.running = q.running,
         p.waiting = q.waiting, p.setup = q.setup,
         p.continuous = q.continuous, p.hk = q.hk,
         p.final = q.final, p.result = q.result, p.stored = q.stored,
         p.measNo = q.measNo, p.toGo = q.toGo, p.count = q.count
  PROVE  Inv(p, l, h)
<1>1. stage(p) = stage(q) /\ masterMeasMode(p) = masterMeasMode(q)
  BY DEF stage, masterMeasMode
<1>2. SettingUp(p, l, h) /\ ModeIsSet(p, l, h) /\ ReadsInTime(p, l)
  BY <1>1 DEF Inv, SettingUp, ModeIsSet, ReadsInTime
<1>3. Measuring(p, l, h) /\ Stopping(p, l, h) /\ Enough(p, l) /\ Complete(p)
  BY <1>1 DEF Inv, Measuring, Stopping, Enough, Complete
<1> QED
  BY <1>2, <1>3 DEF Inv

\* ... and a sequence goes on, pauses or ends; with what HeadFacts tells of the answer to
\* the reset.
LEMMA RestartStep ==
  ASSUME NEW q, NEW l, NEW h, Typed(q, l, h), Inv(q, l, h),
         Elems(l) \cap {readFinalCount, resetInt} = {},
         q.running => /\ start \notin Elems(l) /\ stop \notin Elems(l) /\ ~q.waiting
                      /\ h.mode = "SINGLEERRORMASTER" => ~counting(h)
                      /\ q.measNo + q.toGo >= q.count + 1
  PROVE  LET s == checkForRestart(q)
         IN  Inv(s.p, l \o s.out, h) /\ (q.running /\ ~s.p.running => s.p.measNo >= q.count)
<1> DEFINE counted == [q EXCEPT !.toGo = IF @ > 0 THEN @ - 1 ELSE 0]
           rest(p) == [p EXCEPT !.status = {"READY", "WAIT"}, !.waiting = TRUE]
           next(p) == IF p.hk \/ p.continuous \/ ~p.pause THEN startNext(p) ELSE does(rest(p))
           s == checkForRestart(q)
<1>1. q \in Program /\ l \in Seq(Request) /\ q.measNo \in Nat /\ q.toGo \in Nat /\ q.count \in Nat
      /\ q.running \in BOOLEAN
  BY Sec1Assumption DEF Typed, Program
<1>2. CASE ~q.running \/ (q.continuous /\ ~q.hk)
  <2>1. s = does(q)
    BY <1>2 DEF checkForRestart
  <2>2. l \o <<>> = l
    BY <1>1, Sending
  <2> HIDE DEF s
  <2>3. s.p = q /\ s.out = <<>>
    BY <2>1 DEF does
  <2> QED
    BY <2>2, <2>3 DEF s
<1>3. CASE q.running /\ ~(q.continuous /\ ~q.hk)
  <2>1. /\ Elems(l) \cap {start, stop, readFinalCount, resetInt} = {} /\ ~q.waiting
        /\ q.measNo + q.toGo >= q.count + 1
    BY <1>3
  <2>2. ~counting(h)
    <3>1. q.running /\ (~q.continuous \/ q.hk)
      BY <1>3
    <3>2. masterMeasMode(q) = "SINGLEERRORMASTER"
      BY <3>1 DEF masterMeasMode
    <3>3. h.mode = "SINGLEERRORMASTER"
      BY <3>1, <3>2 DEF Inv, ModeIsSet
    <3> QED
      BY <1>3, <3>3
  \* the next one, of a program that has counted or not
  <2>3. ASSUME NEW p \in Program, p.life = q.life, p.startStop = q.startStop, p.running, ~p.waiting,
               p.setup = q.setup, p.interrupt = q.interrupt, p.continuous = q.continuous, p.hk = q.hk,
               p.final = q.final, p.result = q.result, p.stored = q.stored,
               p.measNo = q.measNo, p.count = q.count, p.measNo + p.toGo >= p.count
        PROVE  Inv(next(p).p, l \o next(p).out, h) /\ next(p).p.running
    <3>1. CASE p.hk \/ p.continuous \/ ~p.pause
      <4>1. Well(q, l, h, startNext(p))
        BY <1>3, <2>1, <2>2, <2>3, WellNext
      <4>2. startNext(p).p.running
        <5> DEFINE r == [p EXCEPT !.status = {"ARMED", "READY"}, !.final = "zero", !.polling = TRUE]
        <5>1. r.running
          BY <2>3 DEF Program
        <5>2. startNext(p) = [p |-> r, out |-> threeRequests]
          BY <2>3, Continues
        <5> HIDE DEF r
        <5>3. startNext(p).p = r
          BY <5>2
        <5> QED
          BY <5>1, <5>3, Zenon
      <4>3. next(p) = startNext(p)
        BY <3>1
      <4> HIDE DEF next
      <4> QED
        BY <4>1, <4>2, <4>3, Zenon DEF Well
    <3>2. CASE ~(p.hk \/ p.continuous \/ ~p.pause)
      <4> DEFINE r == rest(p)
      <4>1. /\ r.life = q.life /\ r.startStop = q.startStop /\ r.running
            /\ r.setup = q.setup /\ r.interrupt = q.interrupt /\ r.continuous = q.continuous
            /\ r.hk = q.hk /\ r.final = q.final /\ r.result = q.result /\ r.stored = q.stored
            /\ r.measNo + r.toGo >= r.count
        BY <2>3 DEF Program
      <4>2. next(p) = does(r)
        BY <3>2
      <4> HIDE DEF r, next
      <4>3. Inv(r, l, h)
        BY <1>3, <2>1, <2>2, <4>1, PauseStep
      <4>4. l \o <<>> = l
        BY <1>1, Sending
      <4>5. next(p).p = r /\ next(p).out = <<>>
        BY <4>2 DEF does
      <4> QED
        BY <4>1, <4>3, <4>4, <4>5, Zenon
    <3> QED
      BY <3>1, <3>2
  <2>4. /\ counted \in Program /\ counted.life = q.life /\ counted.startStop = q.startStop
        /\ counted.running = q.running /\ counted.waiting = q.waiting
        /\ counted.setup = q.setup /\ counted.interrupt = q.interrupt
        /\ counted.continuous = q.continuous /\ counted.hk = q.hk
        /\ counted.final = q.final /\ counted.result = q.result /\ counted.stored = q.stored
        /\ counted.measNo = q.measNo /\ counted.count = q.count
        /\ counted.toGo = IF q.toGo > 0 THEN q.toGo - 1 ELSE 0
    BY <1>1, SMTT(30) DEF Program
  <2> HIDE DEF counted
  <2>5. CASE q.continuous /\ q.hk
    <3>1. s = next(q)
      BY <1>3, <2>5 DEF checkForRestart
    <3>2. q.measNo + q.toGo >= q.count
      BY <1>1, <2>1
    <3> HIDE DEF next, s
    <3>3. Inv(next(q).p, l \o next(q).out, h) /\ next(q).p.running
      BY <1>1, <1>3, <2>1, <2>3, <3>2
    <3>4. Inv(s.p, l \o s.out, h) /\ s.p.running
      BY <3>1, <3>3, Zenon
    <3> QED
      BY <3>4, Zenon DEF s
  <2>6. CASE ~q.continuous /\ restarts(counted.toGo)
    <3>1. s = next(counted)
      BY <1>3, <2>6 DEF checkForRestart, counted
    <3>2. counted.measNo + counted.toGo >= counted.count
      BY <1>1, <2>1, <2>4
    <3> HIDE DEF next, s
    <3>3. counted.running /\ ~counted.waiting
      BY <1>3, <2>1, <2>4, Zenon
    <3>4. Inv(next(counted).p, l \o next(counted).out, h) /\ next(counted).p.running
      BY <2>3, <2>4, <3>2, <3>3, Zenon
    <3>5. Inv(s.p, l \o s.out, h) /\ s.p.running
      BY <3>1, <3>4, Zenon
    <3> QED
      BY <3>5, Zenon DEF s
  <2>7. CASE ~q.continuous /\ ~restarts(counted.toGo)
    <3>1. s = stopECCalculator(counted)
      BY <1>3, <2>7 DEF checkForRestart, counted, endSequence
    <3>2. counted.measNo >= q.count
      <4>1. ~(counted.toGo > 0)
        BY <2>7 DEF restarts
      <4>2. q.toGo <= 1
        BY <1>1, <2>4, <4>1
      <4>3. q.measNo >= q.count
        BY <1>1, <2>1, <4>2
      <4> QED
        BY <2>4, <4>3
    <3> DEFINE p == [counted EXCEPT !.running = FALSE, !.startStop = FALSE,
                                    !.polling = FALSE, !.waiting = FALSE]
    <3> HIDE DEF s
    <3>8. stopECCalculator(counted) = [p |-> p, out |-> <<stop>>]
      BY Stops
    <3>3. s.p = p
      <4> HIDE DEF p
      <4> QED
        BY <3>1, <3>8
    <3>4. p.measNo = counted.measNo
      BY <2>4 DEF Program
    <3> HIDE DEF p
    <3>5. s.p.measNo >= q.count
      BY <3>2, <3>3, <3>4
    <3>6. Well(q, l, h, stopECCalculator(counted))
      BY <1>3, <2>1, <2>4, WellStop
    <3>7. Inv(s.p, l \o s.out, h)
      BY <3>1, <3>6, Zenon DEF Well
    <3> QED
      BY <3>5, <3>7, Zenon DEF s
  <2> QED
    BY <1>3, <2>5, <2>6, <2>7
<1> QED
  BY <1>1, <1>2, <1>3

\* The answer to the reading of the final count
LEMMA ReadAnswered ==
  ASSUME NEW q, NEW l, NEW h, Typed(q, l, h), Inv(q, l, h),
         HeadFacts(q, readFinalCount, l, h), h.final = hw.final
  PROVE  Well(q, l, h, interruptContinue(readFinal(q)))
<1>1. /\ q \in Program /\ l \in Seq(Request) /\ h \in Calculator /\ q.interrupt = "read"
      /\ q.running => h.final = "complete"
  BY DEF Typed, HeadFacts
<1> DEFINE r == [readFinal(q) EXCEPT !.interrupt = "reset"]
           ready == [r EXCEPT !.status = {"READY"} \cup (IF r.continuous THEN {"STARTED"} ELSE {}),
                              !.measNo = @ + 1,
                              !.stored = IF storesMore(r) THEN Append(@, r.final) ELSE @]
           p == IF finished(r) THEN setECResult(ready) ELSE r
<1>2. interruptContinue(readFinal(q)) = setECResultAndResetInt(r)
  <2>1. readFinal(q).interrupt = "read"
    BY <1>1 DEF readFinal, Program
  <2> HIDE DEF r
  <2> QED
    BY <2>1 DEF interruptContinue, r
<1>3. setECResultAndResetInt(r) = andSend(does(p), resetInt)
  BY DEF setECResultAndResetInt, resetInt
<1>4. /\ r \in Program /\ r.life = q.life /\ r.startStop = q.startStop /\ r.running = q.running
      /\ r.waiting = q.waiting /\ r.setup = q.setup /\ r.interrupt = "reset"
      /\ r.continuous = q.continuous /\ r.hk = q.hk /\ r.toGo = q.toGo /\ r.count = q.count
      /\ r.measNo = q.measNo /\ r.stored = q.stored /\ r.result = q.result
      /\ r.final = IF q.running THEN h.final ELSE q.final
  BY <1>1 DEF readFinal, Program, Calculator
<1> HIDE DEF r
<1>5. /\ p.life = q.life /\ p.startStop = q.startStop /\ p.running = q.running
      /\ p.waiting = q.waiting /\ p.setup = q.setup /\ p.interrupt = "reset"
      /\ p.continuous = q.continuous /\ p.hk = q.hk /\ p.toGo = q.toGo /\ p.count = q.count
      /\ IF q.running THEN p.measNo = q.measNo + 1 ELSE p.measNo = q.measNo
      /\ Complete(p)
  <2>1. CASE ~q.running
    <3>1. p = r
      BY <1>4, <2>1 DEF finished
    <3> QED
      BY <1>4, <2>1, <3>1 DEF Inv, Complete
  <2>2. CASE q.running
    <3> DEFINE st == IF storesMore(r) THEN Append(r.stored, r.final) ELSE r.stored
               bits == {"READY"} \cup (IF r.continuous THEN {"STARTED"} ELSE {})
               full == [r EXCEPT !.status = bits, !.measNo = @ + 1, !.stored = st]
    <3>1. p = [full EXCEPT !.result = full.final]
      BY <1>4, <2>2 DEF finished, setECResult
    <3>2. r.final = "complete" /\ r.stored \in Seq(FinalCount) /\ r.final \in FinalCount
      BY <1>1, <1>4, <2>2 DEF FinalCount, Program
    <3>3. \A i \in DOMAIN st : st[i] = "complete"
      <4>1. \A i \in DOMAIN r.stored : r.stored[i] = "complete"
        BY <1>4 DEF Inv, Complete
      <4> DEFINE a == Append(r.stored, r.final)
                 n == Len(r.stored)
      <4>2. /\ a \in Seq(FinalCount) /\ Len(a) = n + 1 /\ n \in Nat
            /\ \A i \in 1 .. n : a[i] = r.stored[i] /\ a[n + 1] = r.final
            /\ DOMAIN a = 1 .. Len(a) /\ DOMAIN r.stored = 1 .. n
            /\ a[n + 1] = r.final
        BY <3>2, AppendProperties, LenProperties
      <4> HIDE DEF a, n
      <4>3. \A i \in DOMAIN a : a[i] = "complete"
        <5>1. \A i \in 1 .. n + 1 : i \in 1 .. n \/ i = n + 1
          BY <4>2
        <5> QED
          BY <3>2, <4>1, <4>2, <5>1
      <4> QED
        BY <4>1, <4>3 DEF a
    <3> HIDE DEF st, bits, p
    <3>4. /\ full.final = r.final /\ full.stored = st /\ full.measNo = r.measNo + 1
          /\ full.life = r.life /\ full.startStop = r.startStop /\ full.running = r.running
          /\ full.waiting = r.waiting /\ full.setup = r.setup /\ full.interrupt = r.interrupt
          /\ full.continuous = r.continuous /\ full.hk = r.hk /\ full.toGo = r.toGo
          /\ full.count = r.count
          /\ p.final = full.final /\ p.stored = full.stored /\ p.measNo = full.measNo
          /\ p.life = full.life /\ p.startStop = full.startStop /\ p.running = full.running
          /\ p.waiting = full.waiting /\ p.setup = full.setup /\ p.interrupt = full.interrupt
          /\ p.continuous = full.continuous /\ p.hk = full.hk /\ p.toGo = full.toGo
          /\ p.count = full.count /\ p.result = full.final
      BY <1>4, <3>1 DEF Program
    <3> HIDE DEF full
    <3>5. Complete(p)
      BY <3>2, <3>3, <3>4 DEF Complete
    <3> QED
      BY <1>4, <2>2, <3>4, <3>5
  <2> QED
    BY <1>1, <2>1, <2>2 DEF Program
<1> HIDE DEF p
<1>6. Inv(p, l \o <<resetInt>>, h)
  BY <1>5, ResetStep
<1> DEFINE s == interruptContinue(readFinal(q))
<1>7. s = [p |-> p, out |-> <<resetInt>>]
  BY <1>2, <1>3, Sends
<1> HIDE DEF s
<1>8. s.p = p /\ s.out = <<resetInt>>
  BY <1>7
<1>9. Whole(q, s.p)
  BY <1>1 DEF Whole
<1> QED
  BY <1>6, <1>8, <1>9 DEF Well, s

\* The answer to the reset of the interrupt
LEMMA ResetAnswered ==
  ASSUME NEW q, NEW l, NEW h, Typed(q, l, h), Inv(q, l, h), HeadFacts(q, resetInt, l, h)
  PROVE  Well(q, l, h, interruptContinue(q))
<1> DEFINE p == [q EXCEPT !.interrupt = "off"]
           s == checkForRestart(p)
<1>1. /\ q \in Program /\ l \in Seq(Request) /\ q.interrupt = "reset"
      /\ Elems(l) \cap {readFinalCount, resetInt} = {}
      /\ q.running => /\ start \notin Elems(l) /\ stop \notin Elems(l) /\ ~q.waiting
                      /\ h.mode = "SINGLEERRORMASTER" => ~counting(h)
                      /\ q.measNo + q.toGo >= q.count + 1
  BY DEF Typed, HeadFacts
<1>2. interruptContinue(q) = s
  BY <1>1 DEF interruptContinue
<1>3. /\ p.life = q.life /\ p.startStop = q.startStop /\ p.running = q.running
      /\ p.waiting = q.waiting /\ p.setup = q.setup
      /\ p.continuous = q.continuous /\ p.hk = q.hk
      /\ p.final = q.final /\ p.result = q.result /\ p.stored = q.stored
      /\ p.measNo = q.measNo /\ p.toGo = q.toGo /\ p.count = q.count
      /\ p \in Program
  BY <1>1 DEF Program
<1> HIDE DEF p
<1>4. Typed(p, l, h) /\ Inv(p, l, h)
  BY <1>1, <1>3, OverStep DEF Typed
<1>5. p.running => /\ start \notin Elems(l) /\ stop \notin Elems(l) /\ ~p.waiting
                   /\ h.mode = "SINGLEERRORMASTER" => ~counting(h)
                   /\ p.measNo + p.toGo >= p.count + 1
  BY <1>1, <1>3
<1>6. Inv(s.p, l \o s.out, h) /\ (p.running /\ ~s.p.running => s.p.measNo >= p.count)
  BY <1>1, <1>4, <1>5, RestartStep
<1> HIDE DEF s
<1>7. Whole(q, s.p)
  BY <1>3, <1>6 DEF Whole
<1> QED
  BY <1>2, <1>6, <1>7 DEF Well

\* The life of the module goes on; nothing is set up but while it is active.
LEMMA LifeStep ==
  ASSUME NEW q, NEW l, NEW h, Typed(q, l, h), Inv(q, l, h), q.life # "active",
         NEW p, p.startStop = q.startStop, p.running = q.running, p.setup = q.setup,
         p.interrupt = q.interrupt, p.waiting = q.waiting,
         p.continuous = q.continuous, p.hk = q.hk,
         p.final = q.final, p.result = q.result, p.stored = q.stored,
         p.measNo = q.measNo, p.toGo = q.toGo, p.count = q.count
  PROVE  Inv(p, l, h) /\ q.setup = "off"
<1>1. stage(p) = stage(q) /\ masterMeasMode(p) = masterMeasMode(q)
  BY DEF stage, masterMeasMode
<1>2. stage(q) = 9
  BY DEF Inv, SettingUp
<1>3. q.setup = "off"
  BY <1>2, States, Numbers DEF Typed, Program, stage
<1>4. SettingUp(p, l, h) /\ ModeIsSet(p, l, h) /\ ReadsInTime(p, l)
  BY <1>1, <1>2 DEF Inv, SettingUp, ModeIsSet, ReadsInTime
<1>5. Measuring(p, l, h) /\ Stopping(p, l, h) /\ Enough(p, l) /\ Complete(p)
  BY <1>1 DEF Inv, Measuring, Stopping, Enough, Complete
<1> QED
  BY <1>3, <1>4, <1>5 DEF Inv

LEMMA WellLife ==
  ASSUME NEW q, NEW l, NEW h, Typed(q, l, h), Inv(q, l, h)
  PROVE  Well(q, l, h, activationContinue(q)) /\ Well(q, l, h, deactivationContinue(q))
<1>1. q \in Program /\ l \in Seq(Request) /\ h \in Calculator
  BY DEF Typed
<1>2. Well(q, l, h, does(q))
  BY <1>1, WellNothing
<1>3. ASSUME NEW life \in {"freeing", "deactivated", "notifier", "active"}, q.life # "active"
      PROVE  LET p == [q EXCEPT !.life = life]
             IN  /\ Well(q, l, h, does(p))
                 /\ \A x \in {"freeecalcunits", "setsecintnotifier"} : Well(q, l, h, andSend(does(p), x))
                 /\ Well(q, l, h, stopECCalculator(p))
  <2> DEFINE p == [q EXCEPT !.life = life]
  <2>1. /\ p \in Program
        /\ p.startStop = q.startStop /\ p.running = q.running /\ p.setup = q.setup
        /\ p.interrupt = q.interrupt /\ p.waiting = q.waiting
        /\ p.continuous = q.continuous /\ p.hk = q.hk
        /\ p.final = q.final /\ p.result = q.result /\ p.stored = q.stored
        /\ p.measNo = q.measNo /\ p.toGo = q.toGo /\ p.count = q.count
    BY <1>1, <1>3 DEF Program
  <2> HIDE DEF p
  <2>2. Inv(p, l, h) /\ q.setup = "off"
    BY <1>3, <2>1, LifeStep
  <2>3. Well(q, l, h, does(p))
    BY <1>1, <2>1, <2>2, WellNothing
  <2>4. ASSUME NEW x \in {"freeecalcunits", "setsecintnotifier"}
        PROVE  Well(q, l, h, andSend(does(p), x))
    <3>1. Inv(p, l \o <<x>>, h)
      BY <1>1, <2>1, <2>2, Harmless DEF Typed
    <3> QED
      BY <2>1, <3>1, WellSend
  <2>5. Well(q, l, h, stopECCalculator(p))
    BY <2>1, <2>2, WellStop
  <2> QED
    BY <2>3, <2>4, <2>5 DEF p
<1>4. Well(q, l, h, activationContinue(q))
  BY <1>2, <1>3 DEF activationContinue
<1>5. Well(q, l, h, deactivationContinue(q))
  BY <1>2, <1>3 DEF deactivationContinue
<1> QED
  BY <1>4, <1>5

\* Whatever is answered
LEMMA WellAnswered ==
  ASSUME NEW q, NEW l, NEW h, Typed(q, l, h), Inv(q, l, h),
         NEW x \in Request, HeadFacts(q, x, l, h), x = readFinalCount => h.final = hw.final
  PROVE  Well(q, l, h, catchInterfaceAnswer(q, x))
<1>1. q \in Program /\ l \in Seq(Request)
  BY DEF Typed
<1>2. CASE x \in {"fetchecalcunits", "setsecintnotifier"}
  BY <1>2, WellLife DEF catchInterfaceAnswer
<1>3. CASE x \in {"freeecalcunits", stop}
  BY <1>3, WellLife DEF catchInterfaceAnswer, stop
<1>4. CASE x = "actualize"
  <2> DEFINE p == IF measuring(q) THEN [q EXCEPT !.status = (@ \cap {"READY"}) \cup statusBits(hw)] ELSE q
  <2>1. Like(q, p)
    BY <1>1 DEF Like, Program
  <2>2. catchInterfaceAnswer(q, x) = does(p)
    BY <1>4 DEF catchInterfaceAnswer, does
  <2> HIDE DEF p
  <2>3. Inv(p, l, h)
    BY <2>1, Frame
  <2> QED
    BY <1>1, <2>1, <2>2, <2>3, WellNothing DEF Like
<1>5. CASE x = readFinalCount
  BY <1>5, ReadAnswered DEF catchInterfaceAnswer, readFinalCount
<1>6. CASE x = resetInt
  BY <1>6, ResetAnswered DEF catchInterfaceAnswer, resetInt
<1>7. CASE x \in SetupRequest \cup {start}
  <2>1. x \notin {"fetchecalcunits", "setsecintnotifier", "freeecalcunits", "stopmeas", "actualize",
                  "readfinalenegrycounter", "resetintregister"}
    BY <1>7 DEF SetupRequest, Mode, start
  <2>2. catchInterfaceAnswer(q, x) = setupContinue(q)
    BY <2>1 DEF catchInterfaceAnswer
  <2> QED
    BY <1>7, <2>2, WellSetup
<1> QED
  BY <1>2, <1>3, <1>4, <1>5, <1>6, <1>7, Requests

-----------------------------------------------------------------------------
(* The writes of clients *)

\* A start that finds the set-up machine at its end: only the parameters change.
LEMMA LateStartStep ==
  ASSUME NEW q, NEW l, NEW h, Typed(q, l, h), Inv(q, l, h), ~q.startStop, q.setup # "off",
         NEW p, p.life = q.life, p.running = q.running, p.waiting = q.waiting, p.setup = q.setup,
         p.interrupt = q.interrupt, p.continuous = q.continuous, p.hk = q.hk,
         p.final = q.final, p.result = q.result, p.stored = <<>>
  PROVE  Inv(p, l, h)
<1>1. stage(p) = stage(q) /\ masterMeasMode(p) = masterMeasMode(q)
  BY DEF stage, masterMeasMode
<1>2. ~q.running /\ ~(stage(q) < 8)
  BY DEF Inv, SettingUp, Measuring
<1>3. SettingUp(p, l, h) /\ ModeIsSet(p, l, h) /\ ReadsInTime(p, l)
  BY <1>1, <1>2 DEF Inv, SettingUp, ModeIsSet, ReadsInTime
<1>4. Measuring(p, l, h) /\ Stopping(p, l, h) /\ Enough(p, l) /\ Complete(p)
  BY <1>1, <1>2 DEF Inv, Measuring, Stopping, Enough, Complete
<1> QED
  BY <1>2, <1>3, <1>4 DEF Inv

\* The mode is changed while nothing is set up and nothing runs.
LEMMA ModeStep ==
  ASSUME NEW q, NEW l, NEW h, Typed(q, l, h), Inv(q, l, h), ~q.running, q.setup = "off",
         NEW p, p.life = q.life, p.startStop = q.startStop, p.running = q.running,
         p.waiting = q.waiting, p.setup = q.setup, p.interrupt = q.interrupt,
         p.final = q.final, p.result = q.result, p.stored = q.stored,
         p.measNo = q.measNo, p.toGo = q.toGo, p.count = q.count
  PROVE  Inv(p, l, h)
<1>1. stage(p) = stage(q) /\ stage(q) = 9
  BY Numbers DEF stage
<1>2. Elems(l) \cap SetupRequest = {} /\ Mode \subseteq SetupRequest
  <2>1. ASSUME NEW y \in Elems(l) \cap SetupRequest
        PROVE  FALSE
    <3>1. 9 <= number(y) + 1
      BY <1>1 DEF Inv, SettingUp
    <3> QED
      BY <3>1, Numbers
  <2> QED
    BY <2>1 DEF SetupRequest
<1>3. SettingUp(p, l, h) /\ ModeIsSet(p, l, h) /\ ReadsInTime(p, l)
  BY <1>1, <1>2 DEF Inv, SettingUp, ModeIsSet, ReadsInTime
<1>4. Measuring(p, l, h) /\ Stopping(p, l, h) /\ Enough(p, l) /\ Complete(p)
  BY <1>1 DEF Inv, Measuring, Stopping, Enough, Complete
<1> QED
  BY <1>3, <1>4 DEF Inv

\* The result shown is computed again.
LEMMA ResultStep ==
  ASSUME NEW q \in Program, NEW l \in Seq(Request), NEW h, Inv(q, l, h)
  PROVE  Well(q, l, h, does(setECResult(q)))
<1> DEFINE p == setECResult(q)
<1>1. /\ p.life = q.life /\ p.startStop = q.startStop /\ p.running = q.running
      /\ p.setup = q.setup /\ p.interrupt = q.interrupt /\ p.waiting = q.waiting
      /\ p.continuous = q.continuous /\ p.hk = q.hk
      /\ p.final = q.final /\ p.result = q.final /\ p.stored = q.stored
      /\ p.measNo = q.measNo /\ p.toGo = q.toGo /\ p.count = q.count
  BY DEF setECResult, Program
<1> HIDE DEF p
<1>2. stage(p) = stage(q) /\ masterMeasMode(p) = masterMeasMode(q)
  BY <1>1 DEF stage, masterMeasMode
<1>3. SettingUp(p, l, h) /\ ModeIsSet(p, l, h) /\ ReadsInTime(p, l)
  BY <1>1, <1>2 DEF Inv, SettingUp, ModeIsSet, ReadsInTime
<1>4. Measuring(p, l, h) /\ Stopping(p, l, h) /\ Enough(p, l) /\ Complete(p)
  BY <1>1, <1>2 DEF Inv, Measuring, Stopping, Enough, Complete
<1>5. Inv(p, l, h)
  BY <1>1, <1>3, <1>4 DEF Inv
<1> QED
  BY <1>1, <1>5, WellNothing DEF p

-----------------------------------------------------------------------------
(* Every step *)

\* What every step keeps if nothing interferes
Holds == Inv(sec, line, hw)' /\ Whole(sec, sec')

LEMMA HoldsBy ==
  ASSUME NEW s, sec' = s.p, line' = line \o s.out, Well(sec, line, hw', s)
  PROVE  Holds
BY Zenon DEF Well, Holds

LEMMA HoldsByWrite ==
  ASSUME NEW s, write(s), UNCHANGED <<hw, refusals>>, Well(sec, line, hw, s)
  PROVE  Holds
<1>1. hw' = hw /\ sec' = s.p /\ line' = line \o s.out
  BY DEF write, do
<1>2. Well(sec, line, hw', s)
  BY <1>1
<1> QED
  BY <1>1, <1>2, HoldsBy

LEMMA HoldsStep ==
  ASSUME Undisturbed, TypeInv, Inv(sec, line, hw), [Next]_vars
  PROVE  Holds
<1>1. /\ sec \in Program /\ line \in Seq(Request) /\ hw \in Calculator /\ Typed(sec, line, hw)
      /\ Interference = {} /\ \A x \in Refusable : x \notin {stop} \cup Mode
  BY DEF TypeInv, TypeOK, Typed, Undisturbed
<1>2. CASE Connected
  <2> DEFINE p == [sec EXCEPT !.life = "fetch"]
  <2>1. /\ p \in Program
        /\ p.startStop = sec.startStop /\ p.running = sec.running /\ p.setup = sec.setup
        /\ p.interrupt = sec.interrupt /\ p.waiting = sec.waiting
        /\ p.continuous = sec.continuous /\ p.hk = sec.hk
        /\ p.final = sec.final /\ p.result = sec.result /\ p.stored = sec.stored
        /\ p.measNo = sec.measNo /\ p.toGo = sec.toGo /\ p.count = sec.count
    BY <1>1 DEF Program
  <2>2. /\ sec.life # "active" /\ hw' = hw
        /\ sec' = andSend(does(p), "fetchecalcunits").p
        /\ line' = line \o andSend(does(p), "fetchecalcunits").out
    BY <1>2 DEF Connected, do
  <2> HIDE DEF p
  <2>3. Inv(p, line, hw)
    BY <1>1, <2>1, <2>2, LifeStep
  <2>4. Inv(p, line \o <<"fetchecalcunits">>, hw)
    BY <1>1, <2>1, <2>3, Harmless DEF Typed
  <2>5. Well(sec, line, hw', andSend(does(p), "fetchecalcunits"))
    BY <2>1, <2>2, <2>4, WellSend
  <2> QED
    BY <2>2, <2>5, HoldsBy
<1>3. CASE Answer
  <2> DEFINE x == Head(line)
             l == Tail(line)
             k == carryOut(hw, x)
             s == catchInterfaceAnswer(sec, x)
  <2>1. line # <<>> /\ sec' = s.p /\ line' = l \o s.out /\ hw' = k
    BY <1>3 DEF Answer
  <2>2. x \in Request
    BY <1>1, <2>1, Answered
  <2>3. HeadFacts(sec, x, l, hw)
    BY <1>1, <2>1, Heads
  <2>4. Typed(sec, l, k) /\ Inv(sec, l, k)
    BY <1>1, <2>1, Taken
  <2>5. x \in {readFinalCount, resetInt} =>
           k.mode = hw.mode /\ (counting(k) <=> counting(hw)) /\ k.final = hw.final
    <3>1. readFinalCount \notin {start, stop} \cup Mode /\ resetInt \notin {start, stop} \cup Mode
      BY DEF readFinalCount, resetInt, start, stop, Mode
    <3> QED
      BY <1>1, <2>2, <3>1, Carried
  <2> HIDE DEF x, l, k, s
  <2>6. HeadFacts(sec, x, l, k)
    BY <2>3, <2>5 DEF HeadFacts
  <2>7. Well(sec, l, k, s)
    BY <2>2, <2>4, <2>5, <2>6, WellAnswered DEF s
  <2> QED
    BY <2>1, <2>7, Zenon DEF Well, Holds
<1>4. CASE Refuse
  <2>1. line # <<>> /\ Head(line) \notin {stop} \cup Mode /\ line' = Tail(line) /\ sec' = sec /\ hw' = hw
    BY <1>1, <1>4 DEF Refuse
  <2>2. Inv(sec, Tail(line), hw)
    BY <1>1, <2>1, Taken
  <2> QED
    BY <2>1, <2>2 DEF Holds, Whole
<1>5. CASE FirstPulse
  <2>1. /\ sec' = sec /\ line' = line /\ hw' = firstPulse(hw) /\ hw.phase = "armed"
    BY <1>5 DEF FirstPulse
  <2>2. /\ hw'.mode = hw.mode /\ hw'.final = hw.final /\ counting(hw') /\ counting(hw)
    BY <1>1, <2>1 DEF firstPulse, Calculator, counting
  <2>3. Inv(sec, line, hw')
    <3>1. SettingUp(sec, line, hw') /\ ModeIsSet(sec, line, hw')
      BY <2>2 DEF Inv, SettingUp, ModeIsSet
    <3>2. Measuring(sec, line, hw') /\ Stopping(sec, line, hw')
      BY <2>2 DEF Inv, Measuring, Stopping
    <3> QED
      BY <3>1, <3>2 DEF Inv
  <2> QED
    BY <2>1, <2>3 DEF Holds, Whole
<1>6. CASE LastPulse
  <2> DEFINE k == countDown(hw)
             p == [sec EXCEPT !.interrupt = "read"]
  <2>1. /\ counting(hw) /\ hw' = k
        /\ do(IF hw.intBit THEN does(sec) ELSE handleSECInterrupt(sec))
    BY <1>6 DEF LastPulse, counting
  <2>2. /\ k \in Calculator /\ Inv(sec, line, k)
        /\ sec.running => /\ start \notin Elems(line) /\ k.final = "complete"
                          /\ k.mode = "SINGLEERRORMASTER" => ~counting(k)
    BY <1>1, <2>1, CountedDown
  <2> HIDE DEF k
  <2>3. Well(sec, line, k, does(sec))
    BY <1>1, <2>2, WellNothing
  <2>4. Well(sec, line, k, handleSECInterrupt(sec))
    <3>1. CASE sec.interrupt = "off"
      <4>1. /\ p.life = sec.life /\ p.startStop = sec.startStop /\ p.running = sec.running
            /\ p.waiting = sec.waiting /\ p.setup = sec.setup /\ p.interrupt = "read"
            /\ p.continuous = sec.continuous /\ p.hk = sec.hk
            /\ p.final = sec.final /\ p.result = sec.result /\ p.stored = sec.stored
            /\ p.measNo = sec.measNo /\ p.toGo = sec.toGo /\ p.count = sec.count
        BY <1>1 DEF Program
      <4>2. handleSECInterrupt(sec) = [p |-> p, out |-> <<readFinalCount>>]
        BY <3>1, Sends DEF handleSECInterrupt, readFinalCount
      <4> HIDE DEF p
      <4>3. Inv(p, line \o <<readFinalCount>>, k)
        BY <1>1, <2>1, <2>2, <3>1, <4>1, InterruptStep DEF Typed
      <4> DEFINE s == handleSECInterrupt(sec)
      <4> HIDE DEF s
      <4>4. s.p = p /\ s.out = <<readFinalCount>>
        BY <4>2 DEF s
      <4>5. Whole(sec, s.p)
        BY <3>1 DEF Whole
      <4> QED
        BY <4>3, <4>4, <4>5 DEF Well, s
    <3>2. CASE sec.interrupt # "off"
      BY <2>3, <3>2 DEF handleSECInterrupt
    <3> QED
      BY <3>1, <3>2
  <2> QED
    BY <2>1, <2>3, <2>4, HoldsBy DEF do
<1>7. CASE Poll
  <2>1. Inv(sec, line \o <<"actualize">>, hw)
    BY <1>1, Harmless
  <2>2. Well(sec, line, hw, does(sec)) /\ Well(sec, line, hw, andSend(does(sec), "actualize"))
    BY <1>1, <2>1, WellNothing, WellSend
  <2>3. Well(sec, line, hw, Actualize(does(sec)))
    BY <2>2 DEF Actualize
  <2>4. /\ hw' = hw /\ sec' = Actualize(does(sec)).p /\ line' = line \o Actualize(does(sec)).out
    BY <1>7 DEF Poll, do
  <2> DEFINE s == Actualize(does(sec))
  <2> HIDE DEF s
  <2>5. sec' = s.p /\ line' = line \o s.out /\ Well(sec, line, hw', s)
    BY <2>3, <2>4 DEF s
  <2> QED
    BY <2>5, HoldsBy
<1>8. CASE WaitOver
  <2> DEFINE r == [sec EXCEPT !.waiting = FALSE]
  <2>1. sec.waiting /\ sec.running
    BY <1>8 DEF WaitOver, TypeInv
  <2>2. /\ ~counting(hw) /\ Elems(line) \cap {start, stop, readFinalCount, resetInt} = {}
        /\ sec.measNo + sec.toGo >= sec.count
    BY <2>1 DEF Inv, Measuring, Enough
  <2>3. /\ r \in Program /\ r.life = sec.life /\ r.startStop = sec.startStop /\ r.running /\ ~r.waiting
        /\ r.setup = sec.setup /\ r.interrupt = sec.interrupt
        /\ r.continuous = sec.continuous /\ r.hk = sec.hk
        /\ r.result = sec.result /\ r.stored = sec.stored /\ r.measNo + r.toGo >= r.count
    BY <1>1, <2>1, <2>2 DEF Program
  <2>4. hw' = hw /\ do(startNext(r))
    BY <1>8 DEF WaitOver
  <2> HIDE DEF r
  <2>5. Well(sec, line, hw, startNext(r))
    BY <1>1, <2>1, <2>2, <2>3, WellNext
  <2>6. Well(sec, line, hw', startNext(r))
    BY <2>4, <2>5
  <2> QED
    BY <2>4, <2>6, HoldsBy DEF do
<1>9. CASE ClientStart
  <2>1. PICK count \in Counts, pause \in BOOLEAN :
           LET p == [sec EXCEPT !.startStop = TRUE, !.count = count, !.pause = pause,
                                !.toGo = count, !.measNo = 0, !.stored = <<>>]
           IN  write(IF p.setup = "off" THEN enterSetup(p, setupStates[1]) ELSE does(p))
    BY <1>9 DEF ClientStart
  <2> DEFINE p == [sec EXCEPT !.startStop = TRUE, !.count = count, !.pause = pause,
                              !.toGo = count, !.measNo = 0, !.stored = <<>>]
             q == [p EXCEPT !.setup = "setsync"]
  <2>2. ~sec.startStop /\ ~sec.running /\ sec.life = "active" /\ UNCHANGED <<hw, refusals>>
    BY <1>9, <2>1 DEF ClientStart, write, Inv, Measuring
  <2>3. /\ p.life = sec.life /\ p.running = sec.running /\ p.waiting = sec.waiting /\ p.setup = sec.setup
        /\ p.interrupt = sec.interrupt /\ p.continuous = sec.continuous /\ p.hk = sec.hk
        /\ p.final = sec.final /\ p.result = sec.result /\ p.stored = <<>>
    BY <1>1 DEF Program
  <2>4. /\ q.life = sec.life /\ q.startStop /\ q.running = sec.running /\ q.waiting = sec.waiting
        /\ q.setup = "setsync" /\ q.interrupt = sec.interrupt
        /\ q.continuous = sec.continuous /\ q.hk = sec.hk
        /\ q.final = sec.final /\ q.result = sec.result /\ q.stored = <<>>
        /\ q.measNo = 0 /\ q.toGo = count /\ q.count = count
    BY <1>1 DEF Program
  <2>5. q.measNo + q.toGo >= q.count
    <3>1. count \in Nat
      BY Sec1Assumption
    <3> QED
      BY <2>4, <3>1
  <2>6. enterSetup(p, setupStates[1]) = andSend(does(q), "setsync")
    BY States DEF enterSetup
  <2> HIDE DEF q
  <2>7. write(IF p.setup = "off" THEN andSend(does(q), "setsync") ELSE does(p))
    BY <2>1, <2>6
  <2> HIDE DEF p
  <2>8. CASE sec.setup = "off"
    <3>1. Inv(q, line \o <<"setsync">>, hw)
      BY <1>1, <2>2, <2>4, <2>5, <2>8, BeginStep
    <3>2. Well(sec, line, hw, andSend(does(q), "setsync"))
      BY <2>4, <3>1, WellSend
    <3> QED
      BY <2>2, <2>3, <2>7, <2>8, <3>2, HoldsByWrite
  <2>9. CASE sec.setup # "off"
    <3>1. Inv(p, line, hw)
      BY <1>1, <2>2, <2>3, <2>9, LateStartStep
    <3>2. Well(sec, line, hw, does(p))
      BY <1>1, <2>3, <3>1, WellNothing
    <3> QED
      BY <2>2, <2>3, <2>7, <2>9, <3>2, HoldsByWrite
  <2> QED
    BY <2>8, <2>9
<1>10. CASE ClientStop
  <2> DEFINE r == IF sec.running THEN [sec EXCEPT !.status = {"ABORT"}] ELSE sec
  <2>1. sec.setup = "off" /\ write(stopECCalculator(r)) /\ UNCHANGED <<hw, refusals>>
    BY <1>1, <1>10 DEF ClientStop, stopAllowed
  <2>2. /\ r \in Program /\ r.setup = sec.setup /\ r.interrupt = sec.interrupt
        /\ r.continuous = sec.continuous /\ r.hk = sec.hk
        /\ r.final = sec.final /\ r.result = sec.result /\ r.stored = sec.stored
    BY <1>1, SMTT(30) DEF Program, StatusBit
  <2> HIDE DEF r
  <2>3. Well(sec, line, hw, stopECCalculator(r))
    BY <1>1, <2>1, <2>2, WellStop
  <2> QED
    BY <2>1, <2>3, HoldsByWrite
<1>11. CASE ClientSetsMode
  <2>1. PICK continuous \in BOOLEAN, hk \in BOOLEAN :
           write(does([sec EXCEPT !.continuous = continuous, !.hk = hk]))
    BY <1>11 DEF ClientSetsMode
  <2>2. sec.setup = "off" /\ ~sec.running /\ UNCHANGED <<hw, refusals>>
    BY <1>1, <1>11 DEF ClientSetsMode, modeAllowed
  <2> DEFINE p == [sec EXCEPT !.continuous = continuous, !.hk = hk]
  <2>3. /\ p.life = sec.life /\ p.startStop = sec.startStop /\ p.running = sec.running
        /\ p.waiting = sec.waiting /\ p.setup = sec.setup /\ p.interrupt = sec.interrupt
        /\ p.final = sec.final /\ p.result = sec.result /\ p.stored = sec.stored
        /\ p.measNo = sec.measNo /\ p.toGo = sec.toGo /\ p.count = sec.count
    BY <1>1 DEF Program
  <2>4. write(does(p))
    BY <2>1
  <2> HIDE DEF p
  <2>5. Inv(p, line, hw)
    BY <1>1, <2>2, <2>3, ModeStep
  <2>6. Well(sec, line, hw, does(p))
    BY <1>1, <2>3, <2>5, WellNothing
  <2> QED
    BY <2>2, <2>4, <2>6, HoldsByWrite
<1>12. ASSUME \/ write(does(sec)) \/ write(does(setECResult(sec)))
              \/ write(does([sec EXCEPT !.polling = sec.running])),
              UNCHANGED <<hw, refusals>>
       PROVE  Holds
  <2> DEFINE p == [sec EXCEPT !.polling = sec.running]
  <2>1. Like(sec, p) /\ p.interrupt = sec.interrupt
    BY <1>1 DEF Like, Program
  <2> HIDE DEF p
  <2>2. Inv(p, line, hw)
    BY <2>1, Frame
  <2>3. /\ Well(sec, line, hw, does(sec)) /\ Well(sec, line, hw, does(setECResult(sec)))
        /\ Well(sec, line, hw, does(p))
    BY <1>1, <2>1, <2>2, WellNothing, ResultStep
  <2> QED
    BY <1>12, <2>3, HoldsByWrite DEF p
<1>13. CASE newDutConstant
  BY <1>12, <1>13 DEF newDutConstant
<1>14. CASE newDutConstantUnit
  BY <1>12, <1>14 DEF newDutConstantUnit
<1>15. CASE clientActivationChanged
  BY <1>12, <1>15 DEF clientActivationChanged
<1>16. CASE onPowerModuleValuesChanged
  <2>1. sec.setup = "off" /\ write(stopECCalculator(sec)) /\ UNCHANGED <<hw, refusals>>
    BY <1>1, <1>16 DEF onPowerModuleValuesChanged, stopAllowed
  <2>2. Well(sec, line, hw, stopECCalculator(sec))
    BY <1>1, <2>1, WellStop
  <2> QED
    BY <2>1, <2>2, HoldsByWrite
<1>17. CASE Deactivate
  <2> DEFINE r == [sec EXCEPT !.life = "stopping"]
  <2>1. sec.setup = "off" /\ do(stopECCalculator(r)) /\ hw' = hw
    BY <1>1, <1>17 DEF Deactivate, stopAllowed
  <2>2. /\ r \in Program /\ r.setup = sec.setup /\ r.interrupt = sec.interrupt
        /\ r.continuous = sec.continuous /\ r.hk = sec.hk
        /\ r.final = sec.final /\ r.result = sec.result /\ r.stored = sec.stored
    BY <1>1 DEF Program
  <2> HIDE DEF r
  <2>3. Well(sec, line, hw', stopECCalculator(r))
    BY <1>1, <2>1, <2>2, WellStop
  <2> QED
    BY <2>1, <2>3, HoldsBy DEF do
<1>18. CASE UNCHANGED vars
  BY <1>18 DEF vars, Holds, Whole
<1> QED
  BY <1>2, <1>3, <1>4, <1>5, <1>6, <1>7, <1>8, <1>9, <1>10, <1>11, <1>13, <1>14, <1>15, <1>16,
     <1>17, <1>18 DEF Next, Works

\* While nothing interferes the invariant holds, and every step keeps sequences whole.
LEMMA HoldsAlways ==
  ASSUME Undisturbed
  PROVE  Spec => []IInv /\ [][Whole(sec, sec')]_vars
<1>1. Init => IInv
  <2> SUFFICES ASSUME Init
               PROVE  IInv
    OBVIOUS
  <2>1. Elems(line) = {} /\ \A wrong : InOrder(line, wrong)
    BY Few DEF Init
  <2>2. /\ sec.setup = "off" /\ ~sec.running /\ ~sec.waiting /\ ~counting(hw)
        /\ sec.final = "zero" /\ sec.result = "zero" /\ sec.stored = <<>>
    BY DEF Init, idleCalculator, counting
  <2>3. stage(sec) = 9
    BY <2>2, Numbers DEF stage
  <2>4. DOMAIN sec.stored = {}
    BY <2>2
  <2>5. SettingUp(sec, line, hw) /\ ModeIsSet(sec, line, hw) /\ ReadsInTime(sec, line)
    BY <2>1, <2>2, <2>3 DEF SettingUp, ModeIsSet, ReadsInTime
  <2>6. Measuring(sec, line, hw) /\ Stopping(sec, line, hw) /\ Enough(sec, line) /\ Complete(sec)
    BY <2>1, <2>2, <2>3, <2>4 DEF Measuring, Stopping, Enough, Complete
  <2>7. TypeOK
    BY TypeInit DEF TypeInv
  <2> QED
    BY <2>1, <2>2, <2>5, <2>6, <2>7 DEF IInv, Inv
<1>2. IInv /\ TypeInv /\ [Next]_vars => IInv' /\ [Whole(sec, sec')]_vars
  BY HoldsStep, KeptStep DEF IInv, TypeInv, Holds, Kept
<1>3. IInv => TypeInv
  BY DEF IInv, TypeInv, Inv
<1> QED
  BY <1>1, <1>2, <1>3, PTL DEF Spec

\* No result comes from a count that a stop cut off or that belongs to a measurement
\* before, as long as stops and changes of the mode do not meet a measurement being set up
\* and the service refuses neither stops nor the mode.
THEOREM OnlyCompleteResults == Undisturbed => (Spec => []ResultsAreComplete)
<1> SUFFICES ASSUME Undisturbed
             PROVE  Spec => []ResultsAreComplete
  OBVIOUS
<1>1. IInv => ResultsAreComplete
  BY DEF IInv, Inv, Complete, ResultsAreComplete
<1> QED
  BY <1>1, HoldsAlways, PTL

\* Under the same conditions a sequence that ends by itself has all the results asked for.
THEOREM SequencesEndWhole == Undisturbed => (Spec => SequencesAreWhole)
<1> SUFFICES ASSUME Undisturbed
             PROVE  Spec => SequencesAreWhole
  OBVIOUS
<1>1. [Whole(sec, sec')]_vars =>
        [sec.interrupt = "reset" /\ sec'.interrupt = "off" /\ sec.running /\ ~sec'.running
           => sec'.measNo >= sec.count]_vars
  BY DEF Whole
<1> QED
  BY <1>1, HoldsAlways, PTL DEF SequencesAreWhole
=============================================================================
