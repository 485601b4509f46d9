---------------------------- MODULE SemSpmProofs ----------------------------
(***************************************************************************)
(* What holds of SemSpm for any number of writes, checked by TLAPS: the    *)
(* types whatever interferes, and that what is shown as ready is final     *)
(* under Undisturbed.                                                      *)
(***************************************************************************)
EXTENDS SemSpm, LineProofs

-----------------------------------------------------------------------------
(* The requests and their order *)

start == "startmeasurement"
stop == "stopmeas"
readEnergy == "readfinalenegrycount"
readTime == "readfinaltimecount"
resetInt == "resetintregister"

\* What a state of the set-up sends
request(state) == IF state = "setmastermeasmode" THEN "SINGLEERRORMASTER" ELSE state

SetupRequest == {"setsync", "setmeaspulses", "setmastermux", "setslavemux", "SINGLEERRORMASTER",
                 "setslavemeasmode", "enableinterrupt", start}

\* The number of a state of the set-up, and of the request it sends
number(x) ==
  CASE x = "setsync" -> 1
    [] x = "setmeaspulses" -> 2
    [] x = "setmastermux" -> 3
    [] x = "setslavemux" -> 4
    [] x \in {"SINGLEERRORMASTER", "setmastermeasmode"} -> 5
    [] x = "setslavemeasmode" -> 6
    [] x = "enableinterrupt" -> 7
    [] x = start -> 8
    [] OTHER -> 9

stage(q) == number(q.setup)

\* y never follows x in the line: the set-up has one request under way and is not stopped,
\* and each reading of something final is over before the set-up is a step further.
misplaced(x, y) ==
  \/ x \in SetupRequest /\ y \in SetupRequest \cup {stop}
  \/ x = y /\ x \in {readEnergy, readTime, resetInt}
  \/ x \in SetupRequest /\ number(x) >= 2 /\ y = readEnergy
  \/ x \in SetupRequest /\ number(x) >= 3 /\ y = readTime
  \/ x \in SetupRequest /\ number(x) >= 4 /\ y = resetInt

Misplaced == {xy \in Request \X Request : misplaced(xy[1], xy[2])}

-----------------------------------------------------------------------------
(* The inductive invariant, of a program q, a line l and calculators h *)

Typed(q, l, h) == q \in Program /\ l \in Seq(Request) /\ h \in Calculator

busy(h) == h.phase \in {"armed", "started", "done"}

\* The set-up and its request go together, and no measurement of before is left from its
\* second state on.
SettingUp(q, l, h) ==
  /\ \A x \in Elems(l) \cap SetupRequest :
       x = request(q.setup) /\ (stage(q) >= 2 => q.startValue = q.stopMode)
  /\ stage(q) # 9 => q.life = "active"
  /\ q.startStop <=> q.running \/ q.setup # "off"
  /\ stage(q) < 8 => ~q.running
  /\ stage(q) = 8 => q.running
  /\ stage(q) \in 2 .. 8 => stop \notin Elems(l) /\ ~busy(h)

\* What is read at the end of a measurement is read after it and before the next one.
Finishing(q, l, h) ==
  /\ readEnergy \in Elems(l) =>
       /\ q.final = "energy" /\ (stage(q) < 9 => stage(q) <= 2)
       /\ h.phase # "idle"
       /\ counting(h) => ~q.running /\ EndsWith(l, readEnergy, stop)
  /\ readTime \in Elems(l) =>
       /\ q.final = "time" /\ (stage(q) < 9 => stage(q) <= 3)
       /\ ~q.running /\ ~counting(h) /\ h.phase # "idle"
       /\ q.energy = "frozen"
  /\ resetInt \in Elems(l) =>
       /\ q.final = "reset" /\ (stage(q) < 9 => stage(q) <= 4)
       /\ ~q.running /\ ~counting(h)
       /\ q.energy = "frozen" /\ q.time = "frozen" /\ q.timeRight

\* The calculators do what the program thinks, or a stop is under way.
Measuring(q, l, h) ==
  /\ h.mode = "SINGLEERRORMASTER"
  /\ q.final = "off" => ~h.intBit
  /\ q.running /\ q.final = "off" => h.phase # "done"
  /\ q.running /\ q.setup = "off" => h.phase # "idle"
  /\ busy(h) /\ ~q.running => stop \in Elems(l)

\* The mode does not change between the start of a measurement and its final time.
SameMode(q, l, h) ==
  q.running \/ counting(h) \/ readEnergy \in Elems(l) \/ readTime \in Elems(l) =>
    q.startValue = q.countsFrom /\ q.startValue = q.stopMode

finalResult == [energy |-> "frozen", time |-> "frozen", timeRight |-> TRUE]

Ready(q) ==
  "READY" \in q.status /\ q.final = "off" =>
    q.energy = "frozen" /\ q.time = "frozen" /\ q.timeRight /\ q.result = finalResult

Inv(q, l, h) ==
  /\ InOrder(l, Misplaced)
  /\ SettingUp(q, l, h)
  /\ Finishing(q, l, h)
  /\ Measuring(q, l, h)
  /\ SameMode(q, l, h)
  /\ Ready(q)

IInv == TypeOK /\ Inv(prog, line, hw)

\* Stops do not meet a set-up, the mode is left alone while something is under way, clients
\* stop what runs, and the service does not refuse stops.
Undisturbed == Interference = {} /\ stop \notin Refusable

-----------------------------------------------------------------------------
(* Names *)

LEMMA States ==
  /\ SetupState = {"setsync", "setmeaspulses", "setmastermux", "setslavemux", "setmastermeasmode",
                   "setslavemeasmode", "enableinterrupt", start}
  /\ \A state \in SetupState :
       /\ setupNext(state) \in SetupState \cup {"off"}
       /\ number(state) \in 1 .. 8 /\ number(setupNext(state)) = number(state) + 1
  /\ setupStates[1] = "setsync"
<1> DEFINE s == setupStates
<1>1. /\ Len(s) = 8 /\ DOMAIN s = 1 .. 8
      /\ s[1] = "setsync" /\ s[2] = "setmeaspulses" /\ s[3] = "setmastermux"
      /\ s[4] = "setslavemux" /\ s[5] = "setmastermeasmode" /\ s[6] = "setslavemeasmode"
      /\ s[7] = "enableinterrupt" /\ s[8] = start
  BY DEF setupStates, start
<1>2. \A i : i \in 1 .. 8 <=> i \in {1, 2, 3, 4, 5, 6, 7, 8}
  OBVIOUS
<1> HIDE DEF s
<1>3. {s[i] : i \in DOMAIN s} =
        {"setsync", "setmeaspulses", "setmastermux", "setslavemux", "setmastermeasmode",
         "setslavemeasmode", "enableinterrupt", start}
  BY <1>1, <1>2
<1>4. ASSUME NEW k \in 1 .. 8
      PROVE  number(s[k]) = k /\ (CHOOSE i \in DOMAIN s : s[i] = s[k]) = k
  <2>1. \A i \in 1 .. 8 : number(s[i]) = i
    BY <1>1, <1>2 DEF number, start
  <2>2. \A i \in DOMAIN s : s[i] = s[k] => i = k
    BY <1>1, <2>1
  <2> QED
    BY <1>1, <2>1, <2>2
<1>5. ASSUME NEW k \in 1 .. 8
      PROVE  setupNext(s[k]) = IF k = 8 THEN "off" ELSE s[k + 1]
  BY <1>1, <1>4 DEF setupNext, s
<1>6. number("off") = 9
  BY DEF number, start
<1>7. SetupState = {s[i] : i \in DOMAIN s}
  BY DEF SetupState, s
<1>8. ASSUME NEW state \in SetupState
      PROVE  /\ setupNext(state) \in SetupState \cup {"off"}
             /\ number(state) \in 1 .. 8 /\ number(setupNext(state)) = number(state) + 1
  <2>1. PICK k \in 1 .. 8 : state = s[k]
    BY <1>1, <1>7
  <2>2. CASE k = 8
    BY <1>4, <1>5, <1>6, <2>1, <2>2
  <2>3. CASE k # 8
    <3>1. k + 1 \in 1 .. 8
      BY <2>3
    <3> QED
      BY <1>1, <1>4, <1>5, <1>7, <2>1, <2>3, <3>1
  <2> QED
    BY <2>2, <2>3
<1> QED
  BY <1>1, <1>3, <1>7, <1>8 DEF s

LEMMA Requests ==
  Request = SetupRequest \cup {stop, readEnergy, readTime, resetInt, "fetchecalcunits",
                               "setsecintnotifier", "freeecalcunits", "actualize"}
BY States DEF Request, SetupRequest, start, stop, readEnergy, readTime, resetInt

LEMMA Numbers ==
  /\ \A x \in SetupRequest : number(x) \in 1 .. 8
  /\ \A state \in SetupState \cup {"off"} :
       /\ number(state) \in 1 .. 9
       /\ number(state) = 9 <=> state = "off"
       /\ number(state) = 8 <=> state = start
       /\ number(state) = 2 <=> state = "setmeaspulses"
       /\ state # "off" => request(state) \in SetupRequest /\ number(request(state)) = number(state)
       /\ request(state) = start <=> state = start
  /\ number("setsync") = 1 /\ "setsync" \in SetupRequest \cap SetupState /\ request("setsync") = "setsync"
  /\ start \in SetupRequest /\ number(start) = 8
  /\ {stop, readEnergy, readTime, resetInt, "actualize", "fetchecalcunits", "setsecintnotifier",
      "freeecalcunits"} \cap SetupRequest = {}
  /\ readEnergy # readTime /\ readTime # resetInt /\ readEnergy # resetInt
  /\ stop \notin {readEnergy, readTime, resetInt}
BY States DEF number, request, SetupRequest, start, stop, readEnergy, readTime, resetInt

-----------------------------------------------------------------------------
(* What the operators of the program do, written out *)

\* What a slot makes of the program, and the requests it sends
Slot == [p : Program, out : Seq(Request)]

\* The status after stopECCalculator, and the program
aborted(p) ==
  IF p.stopMode = "timed" /\ p.status \cap {"ARMED", "STARTED"} # {} THEN {"ABORT"} ELSE p.status

stopped(p) ==
  [p EXCEPT !.running = FALSE, !.startStop = FALSE, !.polling = FALSE, !.status = aborted(p)]

LEMMA Sends ==
  ASSUME NEW p, NEW x, NEW out
  PROVE  /\ does(p) = [p |-> p, out |-> <<>>]
         /\ andSend(does(p), x) = [p |-> p, out |-> <<x>>]
         /\ andSend([p |-> p, out |-> out], x) = [p |-> p, out |-> Append(out, x)]
<1>1. does(p) = [p |-> p, out |-> <<>>] /\ andSend(does(p), x) = [p |-> p, out |-> <<x>>]
  BY DEF andSend, does
<1>2. andSend([p |-> p, out |-> out], x) = [p |-> p, out |-> Append(out, x)]
  BY SMTT(30) DEF andSend
<1> QED
  BY <1>1, <1>2

\* A slot changes the program only.
LEMMA Changes ==
  ASSUME NEW p, NEW out, NEW q
  PROVE  [[p |-> p, out |-> out] EXCEPT !.p = q] = [p |-> q, out |-> out]
OBVIOUS

LEMMA StoppedIs ==
  ASSUME NEW p \in Program
  PROVE  /\ stopped(p) \in Program
         /\ ~stopped(p).running /\ ~stopped(p).startStop /\ ~stopped(p).polling
         /\ stopped(p).status = aborted(p)
         /\ "READY" \in aborted(p) => "READY" \in p.status
         /\ stopped(p).life = p.life /\ stopped(p).stopMode = p.stopMode
         /\ stopped(p).startValue = p.startValue /\ stopped(p).setup = p.setup
         /\ stopped(p).final = p.final /\ stopped(p).energy = p.energy
         /\ stopped(p).countsFrom = p.countsFrom /\ stopped(p).time = p.time
         /\ stopped(p).timeRight = p.timeRight /\ stopped(p).result = p.result
<1>1. /\ aborted(p) \in SUBSET {"ARMED", "STARTED", "READY", "ABORT"}
      /\ "READY" \in aborted(p) => "READY" \in p.status
  BY DEF aborted, Program
<1> QED
  BY <1>1 DEF stopped, Program

LEMMA Stops ==
  ASSUME NEW p, NEW out
  PROVE  stopECCalculator([p |-> p, out |-> out]) =
           IF p.running THEN [p |-> stopped(p), out |-> Append(out, stop)]
           ELSE [p |-> p, out |-> out]
<1> DEFINE s == [p |-> p, out |-> out]
           st(r) == IF r.stopMode = "timed" /\ r.status \cap {"ARMED", "STARTED"} # {}
                    THEN {"ABORT"} ELSE r.status
           q(r) == [r EXCEPT !.running = FALSE, !.startStop = FALSE, !.polling = FALSE,
                             !.status = st(r)]
<1>1. s.p = p
  OBVIOUS
<1>2. stopECCalculator(s) = IF ~s.p.running THEN s ELSE andSend([s EXCEPT !.p = q(s.p)], stop)
  BY Zenon DEF stopECCalculator, stop
<1>3. q(p) = stopped(p)
  <2>1. st(p) = aborted(p)
    BY DEF aborted
  <2> HIDE DEF st
  <2> QED
    BY <2>1 DEF stopped
<1> HIDE DEF q
<1>4. [s EXCEPT !.p = q(s.p)] = [p |-> stopped(p), out |-> out]
  BY <1>1, <1>3, Changes
<1> QED
  BY <1>1, <1>2, <1>4, Sends

LEMMA Finals ==
  ASSUME NEW p, NEW out
  PROVE  startFinal([p |-> p, out |-> out]) =
           IF p.final # "off" THEN [p |-> p, out |-> out]
           ELSE [p |-> [p EXCEPT !.final = "energy"], out |-> Append(out, readEnergy)]
<1> DEFINE s == [p |-> p, out |-> out]
           e == [p EXCEPT !.final = "energy"]
<1>1. s.p = p /\ [s EXCEPT !.p = [@ EXCEPT !.final = "energy"]] = [p |-> e, out |-> out]
  OBVIOUS
<1> HIDE DEF e
<1> QED
  BY <1>1, Sends, SMTT(30) DEF startFinal, readEnergy, e

\* The final time is read; whatever still runs is stopped, and shown as ready all the same.
LEMMA TimeRead ==
  ASSUME NEW p \in Program
  PROVE  readFinalTimeCounter(p) =
           IF p.running
           THEN [p |-> [p EXCEPT !.final = "time", !.running = FALSE, !.startStop = FALSE,
                                 !.polling = FALSE, !.status = {"READY"}],
                 out |-> Append(<<readTime>>, stop)]
           ELSE [p |-> [p EXCEPT !.final = "time", !.status = {"READY"}], out |-> <<readTime>>]
<1> DEFINE r == [p EXCEPT !.final = "time"]
           s == stopECCalculator([p |-> r, out |-> <<readTime>>])
           ready(x) == [x EXCEPT !.status = {"READY"}]
<1>1. readFinalTimeCounter(p) = [s EXCEPT !.p = ready(s.p)]
  <2>1. andSend(does(r), readTime) = [p |-> r, out |-> <<readTime>>]
    BY Sends
  <2> QED
    BY <2>1, Zenon DEF readFinalTimeCounter, readTime
<1>2. r \in Program /\ (r.running <=> p.running) /\ ready(r) = [p EXCEPT !.final = "time", !.status = {"READY"}]
  BY DEF Program
<1>3. ready(stopped(r)) = [p EXCEPT !.final = "time", !.running = FALSE, !.startStop = FALSE,
                                    !.polling = FALSE, !.status = {"READY"}]
  <2> DEFINE st == aborted(r)
  <2>1. stopped(r) = [r EXCEPT !.running = FALSE, !.startStop = FALSE, !.polling = FALSE, !.status = st]
    BY DEF stopped
  <2> HIDE DEF st
  <2> QED
    BY <2>1 DEF Program
<1>4. CASE p.running
  <2> DEFINE b == stopped(r)
             out == Append(<<readTime>>, stop)
  <2>1. s = [p |-> b, out |-> out]
    BY <1>2, <1>4, Stops
  <2> HIDE DEF s, r, b, out
  <2>2. s.p = b
    BY <2>1
  <2> HIDE DEF ready
  <2>3. [s EXCEPT !.p = ready(s.p)] = [p |-> ready(b), out |-> out]
    BY <2>1, <2>2, Changes
  <2> QED
    BY <1>1, <1>3, <1>4, <2>3 DEF b, out
<1>5. CASE ~p.running
  <2> DEFINE out == <<readTime>>
  <2>1. s = [p |-> r, out |-> out]
    BY <1>2, <1>5, Stops
  <2> HIDE DEF s, r, out
  <2>2. s.p = r
    BY <2>1
  <2> HIDE DEF ready
  <2>3. [s EXCEPT !.p = ready(s.p)] = [p |-> ready(r), out |-> out]
    BY <2>1, <2>2, Changes
  <2> QED
    BY <1>1, <1>2, <1>5, <2>3 DEF out
<1> QED
  BY <1>4, <1>5

\* The set-up: where it is off, goes on, starts the measurement, or ends
LEMMA Goes ==
  ASSUME NEW p \in Program
  PROVE  /\ p.setup = "off" => setupContinue(p) = does(p)
         /\ stage(p) < 7 =>
              \E state \in SetupState, v \in StopMode :
                 /\ setupContinue(p) = [p |-> [p EXCEPT !.setup = state, !.startValue = v],
                                        out |-> <<request(state)>>]
                 /\ number(state) = stage(p) + 1 /\ request(state) \in SetupRequest
                 /\ v = IF stage(p) = 1 THEN p.stopMode ELSE p.startValue
         /\ stage(p) = 7 =>
              setupContinue(p) =
                [p |-> [p EXCEPT !.setup = start, !.status = {"ARMED"}, !.running = TRUE,
                                 !.energy = "zero", !.countsFrom = p.startValue],
                 out |-> <<start>>]
         /\ stage(p) = 8 =>
              setupContinue(p) = [p |-> [p EXCEPT !.setup = "off", !.polling = TRUE],
                                  out |-> <<"actualize">>]
         /\ p.setup # "off" => stage(p) < 7 \/ stage(p) = 7 \/ stage(p) = 8
<1>1. p.setup \in SetupState \cup {"off"} /\ stage(p) = number(p.setup)
  BY DEF Program, stage
<1>2. p.setup = "off" => setupContinue(p) = does(p)
  BY DEF setupContinue
<1> DEFINE n == setupNext(p.setup)
           e == [p EXCEPT !.setup = n]
<1>3. ASSUME p.setup # "off"
      PROVE  /\ setupContinue(p) = enterSetup(p, n)
             /\ n \in SetupState \cup {"off"}
             /\ stage(p) \in 1 .. 8 /\ number(n) = stage(p) + 1
  BY <1>1, <1>3, States DEF setupContinue
<1>4. number("off") = 9
  BY DEF number, start
<1>5. stage(p) < 9 => p.setup # "off"
  BY <1>1, <1>4
<1> HIDE DEF n
<1>6. ASSUME stage(p) < 7
      PROVE  \E state \in SetupState, v \in StopMode :
                 /\ setupContinue(p) = [p |-> [p EXCEPT !.setup = state, !.startValue = v],
                                        out |-> <<request(state)>>]
                 /\ number(state) = stage(p) + 1 /\ request(state) \in SetupRequest
                 /\ v = IF stage(p) = 1 THEN p.stopMode ELSE p.startValue
  <2>1. p.setup # "off" /\ stage(p) \in 1 .. 8 /\ number(n) = stage(p) + 1 /\ n \in SetupState \cup {"off"}
    BY <1>1, <1>3, <1>5, <1>6, Numbers
  <2>2. n \in SetupState /\ n # start /\ n # "off" /\ request(n) \in SetupRequest
        /\ (n = "setmeaspulses" <=> stage(p) = 1)
    <3>1. number(n) < 8 /\ (number(n) = 2 <=> stage(p) = 1)
      BY <1>6, <2>1
    <3> QED
      BY <1>4, <2>1, <3>1, Numbers
  <2>3. CASE n = "setmeaspulses"
    <3>1. [e EXCEPT !.startValue = p.stopMode] = [p EXCEPT !.setup = n, !.startValue = p.stopMode]
      BY DEF Program
    <3>2. enterSetup(p, n) = andSend(does([e EXCEPT !.startValue = p.stopMode]), n)
      BY <2>3 DEF enterSetup
    <3>3. enterSetup(p, n) = [p |-> [p EXCEPT !.setup = n, !.startValue = p.stopMode], out |-> <<n>>]
      BY <3>1, <3>2, Sends
    <3>4. p.stopMode \in StopMode /\ request(n) = n
      BY <2>3 DEF Program, request
    <3> QED
      BY <1>3, <2>1, <2>2, <2>3, <3>3, <3>4
  <2>4. CASE n # "setmeaspulses"
    <3>1. enterSetup(p, n) = andSend(does(e), request(n))
      BY <2>2, <2>4 DEF enterSetup, request, start
    <3>2. e = [p EXCEPT !.setup = n, !.startValue = p.startValue] /\ p.startValue \in StopMode
      BY DEF Program
    <3> HIDE DEF e
    <3>3. enterSetup(p, n) = [p |-> e, out |-> <<request(n)>>]
      BY <3>1, Sends
    <3> QED
      BY <1>3, <2>1, <2>2, <2>4, <3>2, <3>3
  <2> QED
    BY <2>3, <2>4
<1>7. ASSUME stage(p) = 7
      PROVE  setupContinue(p) =
                [p |-> [p EXCEPT !.setup = start, !.status = {"ARMED"}, !.running = TRUE,
                                 !.energy = "zero", !.countsFrom = p.startValue],
                 out |-> <<start>>]
  <2>1. p.setup # "off" /\ n = start
    <3>1. p.setup # "off"
      BY <1>5, <1>7
    <3>2. number(n) = 8
      BY <1>3, <1>7, <3>1
    <3> QED
      BY <1>3, <3>1, <3>2, Numbers
  <2> DEFINE f == [e EXCEPT !.status = {"ARMED"}, !.running = TRUE, !.energy = "zero",
                            !.countsFrom = p.startValue]
             g == [p EXCEPT !.setup = start, !.status = {"ARMED"}, !.running = TRUE,
                            !.energy = "zero", !.countsFrom = p.startValue]
  <2>2. enterSetup(p, n) = andSend(does(f), start)
    BY <2>1 DEF enterSetup, start
  <2>3. f = g
    BY <2>1 DEF Program
  <2> HIDE DEF f, g
  <2>4. andSend(does(f), start) = [p |-> f, out |-> <<start>>]
    BY Sends
  <2>5. setupContinue(p) = [p |-> g, out |-> <<start>>]
    BY <1>3, <2>1, <2>2, <2>3, <2>4
  <2> QED
    BY <2>5 DEF g
<1>8. ASSUME stage(p) = 8
      PROVE  setupContinue(p) = [p |-> [p EXCEPT !.setup = "off", !.polling = TRUE],
                                 out |-> <<"actualize">>]
  <2>1. p.setup # "off" /\ n = "off"
    <3>1. p.setup # "off"
      BY <1>5, <1>8
    <3>2. number(n) = 9
      BY <1>3, <1>8, <3>1
    <3> QED
      BY <1>3, <3>1, <3>2, Numbers
  <2> DEFINE f == [e EXCEPT !.polling = TRUE]
             g == [p EXCEPT !.setup = "off", !.polling = TRUE]
  <2>2. f = g
    BY <2>1 DEF Program
  <2>3. enterSetup(p, n) = startMeasurementDone(does(e))
    BY <2>1 DEF enterSetup
  <2>4. startMeasurementDone(does(e)) = andSend(does(f), "actualize")
    <3>1. does(e).p = e /\ [does(e) EXCEPT !.p = f] = does(f)
      BY Changes DEF does
    <3> HIDE DEF e
    <3> QED
      BY <3>1 DEF startMeasurementDone, Actualize
  <2> HIDE DEF f, g
  <2>5. setupContinue(p) = [p |-> g, out |-> <<"actualize">>]
    BY <1>3, <2>1, <2>2, <2>3, <2>4, Sends
  <2> QED
    BY <2>5 DEF g
<1>9. p.setup # "off" => stage(p) < 7 \/ stage(p) = 7 \/ stage(p) = 8
  BY <1>3
<1> QED
  BY <1>2, <1>6, <1>7, <1>8, <1>9

-----------------------------------------------------------------------------
(* Types *)

LEMMA Slots ==
  ASSUME NEW p \in Program, NEW x \in Request, NEW s \in Slot
  PROVE  /\ does(p) \in Slot
         /\ andSend(s, x) \in Slot
         /\ stopECCalculator(s) \in Slot
         /\ startFinal(s) \in Slot
         /\ \E q \in Program, out \in Seq(Request) : s = [p |-> q, out |-> out]
<1>1. PICK q \in Program, out \in Seq(Request) : s = [p |-> q, out |-> out]
  BY DEF Slot
<1>2. stop \in Request /\ readEnergy \in Request
  BY Requests
<1>3. \A y \in Request : Append(out, y) \in Seq(Request)
  BY AppendProperties
<1>4. \A r \in Program, o \in Seq(Request) : [p |-> r, out |-> o] \in Slot
  BY DEF Slot
<1>5. <<>> \in Seq(Request)
  OBVIOUS
<1>6. does(p) \in Slot
  BY <1>4, <1>5 DEF does
<1>7. andSend(s, x) \in Slot
  <2>1. andSend([p |-> q, out |-> out], x) = [p |-> q, out |-> Append(out, x)]
    BY Sends
  <2> QED
    BY <1>1, <1>3, <1>4, <2>1
<1>8. stopECCalculator(s) \in Slot
  <2>1. stopECCalculator([p |-> q, out |-> out]) =
           IF q.running THEN [p |-> stopped(q), out |-> Append(out, stop)] ELSE [p |-> q, out |-> out]
    BY Stops
  <2>2. stopped(q) \in Program
    BY StoppedIs
  <2>3. /\ [p |-> stopped(q), out |-> Append(out, stop)] \in Slot
        /\ [p |-> q, out |-> out] \in Slot
    BY <1>2, <1>3, <1>4, <2>2
  <2> QED
    BY <1>1, <2>1, <2>3
<1>9. startFinal(s) \in Slot
  <2>1. [q EXCEPT !.final = "energy"] \in Program
    BY DEF Program
  <2> QED
    BY <1>1, <1>2, <1>3, <1>4, <2>1, Finals
<1> QED
  BY <1>1, <1>6, <1>7, <1>8, <1>9

LEMMA SlotOfSetup ==
  ASSUME NEW p \in Program
  PROVE  setupContinue(p) \in Slot
<1>1. \A q \in Program, x \in Request : [p |-> q, out |-> <<x>>] \in Slot
  BY DEF Slot
<1>2. CASE p.setup = "off"
  <2>1. <<>> \in Seq(Request)
    OBVIOUS
  <2>2. setupContinue(p) = does(p)
    BY <1>2, Goes
  <2> QED
    BY <2>1, <2>2 DEF does, Slot
<1>3. CASE stage(p) < 7
  <2>1. PICK state \in SetupState, v \in StopMode :
          /\ setupContinue(p) = [p |-> [p EXCEPT !.setup = state, !.startValue = v],
                                 out |-> <<request(state)>>]
          /\ request(state) \in SetupRequest
    BY <1>3, Goes
  <2>2. [p EXCEPT !.setup = state, !.startValue = v] \in Program
    BY DEF Program
  <2> QED
    BY <1>1, <2>1, <2>2, Requests
<1>4. CASE stage(p) = 7
  <2> DEFINE q == [p EXCEPT !.setup = start, !.status = {"ARMED"}, !.running = TRUE,
                            !.energy = "zero", !.countsFrom = p.startValue]
  <2>1. q \in Program
    BY States, ZenonT(30) DEF Program, Reading
  <2>2. setupContinue(p) = [p |-> q, out |-> <<start>>] /\ start \in Request
    BY <1>4, Goes, Requests, Numbers
  <2> HIDE DEF q
  <2> QED
    BY <1>1, <2>1, <2>2
<1>5. CASE stage(p) = 8
  <2> DEFINE q == [p EXCEPT !.setup = "off", !.polling = TRUE]
  <2>1. q \in Program
    BY DEF Program
  <2>2. setupContinue(p) = [p |-> q, out |-> <<"actualize">>] /\ "actualize" \in Request
    BY <1>5, Goes, Requests
  <2> HIDE DEF q
  <2> QED
    BY <1>1, <2>1, <2>2
<1> QED
  BY <1>2, <1>3, <1>4, <1>5, Goes

LEMMA SlotOfLife ==
  ASSUME NEW p \in Program
  PROVE  activationContinue(p) \in Slot /\ deactivationContinue(p) \in Slot
<1>1. \A life \in {"freeing", "deactivated", "notifier", "active"} : [p EXCEPT !.life = life] \in Program
  BY DEF Program
<1>2. "freeecalcunits" \in Request /\ "setsecintnotifier" \in Request
  BY Requests
<1>3. \A q \in Program : does(q) \in Slot
  <2>1. <<>> \in Seq(Request)
    OBVIOUS
  <2> QED
    BY <2>1 DEF does, Slot
<1>4. \A q \in Program, x \in Request : andSend(does(q), x) \in Slot /\ stopECCalculator(does(q)) \in Slot
  BY <1>3, Slots
<1>5. freeECalculator(does(p)) = andSend(does([p EXCEPT !.life = "freeing"]), "freeecalcunits")
  <2> DEFINE q == [p EXCEPT !.life = "freeing"]
  <2>1. does(p).p = p /\ [does(p) EXCEPT !.p = q] = does(q)
    BY Changes DEF does
  <2> HIDE DEF q
  <2> QED
    BY <2>1 DEF freeECalculator, q
<1>6. activationContinue(p) \in Slot
  BY <1>1, <1>2, <1>3, <1>4 DEF activationContinue
<1>7. deactivationContinue(p) \in Slot
  BY <1>1, <1>2, <1>3, <1>4, <1>5 DEF deactivationContinue
<1> QED
  BY <1>6, <1>7

LEMMA SlotOfInterrupt ==
  ASSUME NEW p \in Program
  PROVE  interruptContinue(p) \in Slot /\ handleSECInterrupt(p) \in Slot /\ setEMResult(p) \in Program
<1>1. \A final \in {"off", "energy", "time", "reset"} : [p EXCEPT !.final = final] \in Program
  BY DEF Program
<1>2. {resetInt, readTime, stop} \subseteq Request
  BY Requests
<1>3. \A q \in Program : setEMResult(q) \in Program
  <2> SUFFICES ASSUME NEW q \in Program
               PROVE  setEMResult(q) \in Program
    OBVIOUS
  <2> DEFINE r == [energy |-> q.energy, time |-> q.time, timeRight |-> q.timeRight]
  <2>1. r \in [energy : Reading, time : Reading, timeRight : BOOLEAN]
    BY DEF Program
  <2> HIDE DEF r
  <2>2. [q EXCEPT !.result = r] \in Program
    BY <2>1 DEF Program
  <2> QED
    BY <2>2 DEF setEMResult, r
<1>4. \A q \in Program : does(q) \in Slot /\ andSend(does(q), resetInt) \in Slot
  <2> SUFFICES ASSUME NEW q \in Program
               PROVE  does(q) \in Slot /\ andSend(does(q), resetInt) \in Slot
    OBVIOUS
  <2>1. <<>> \in Seq(Request)
    OBVIOUS
  <2>2. does(q) \in Slot
    BY <2>1 DEF does, Slot
  <2> QED
    BY <1>2, <2>2, Slots
<1>5. readFinalTimeCounter(p) \in Slot
  <2> DEFINE a == [p EXCEPT !.final = "time", !.running = FALSE, !.startStop = FALSE,
                            !.polling = FALSE, !.status = {"READY"}]
             b == [p EXCEPT !.final = "time", !.status = {"READY"}]
  <2>1. a \in Program /\ b \in Program
    BY DEF Program
  <2>2. readFinalTimeCounter(p) = IF p.running THEN [p |-> a, out |-> Append(<<readTime>>, stop)]
                                  ELSE [p |-> b, out |-> <<readTime>>]
    BY TimeRead
  <2>3. <<readTime>> \in Seq(Request)
    BY <1>2
  <2>4. Append(<<readTime>>, stop) \in Seq(Request)
    BY <1>2, <2>3, AppendProperties
  <2> HIDE DEF a, b
  <2> QED
    BY <2>1, <2>2, <2>3, <2>4 DEF Slot
<1>6. interruptContinue(p) \in Slot
  <2>1. does(setEMResult([p EXCEPT !.final = "off"])) \in Slot
    BY <1>1, <1>3, <1>4
  <2>2. andSend(does([p EXCEPT !.final = "reset"]), resetInt) \in Slot
    BY <1>1, <1>4
  <2> QED
    BY <1>4, <1>5, <2>1, <2>2 DEF interruptContinue, resetInt
<1>7. handleSECInterrupt(p) \in Slot
  <2>1. [p EXCEPT !.polling = FALSE] \in Program
    BY DEF Program
  <2>2. startFinal(does([p EXCEPT !.polling = FALSE])) \in Slot
    BY <1>2, <1>4, <2>1, Slots
  <2> QED
    BY <1>4, <2>2 DEF handleSECInterrupt
<1> QED
  BY <1>3, <1>6, <1>7

LEMMA SlotOfAnswer ==
  ASSUME NEW p \in Program, NEW x \in Request, hw \in Calculator
  PROVE  catchInterfaceAnswer(p, x) \in Slot
<1>1. counterNow \in Reading
  BY DEF counterNow, Reading
<1>2. statusBits(hw) \in SUBSET {"ARMED", "STARTED", "READY", "ABORT"}
  BY DEF statusBits
<1> DEFINE a == IF showsActual(p) THEN [p EXCEPT !.status = statusBits(hw), !.energy = counterNow] ELSE p
           right == p.startValue = p.countsFrom
           e == [p EXCEPT !.energy = counterNow]
           t == [p EXCEPT !.time = counterNow, !.timeRight = right]
<1>3. a \in Program /\ e \in Program /\ t \in Program
  <2>1. right \in BOOLEAN
    OBVIOUS
  <2> HIDE DEF right
  <2> DEFINE bits == statusBits(hw)
  <2>2. bits \in SUBSET {"ARMED", "STARTED", "READY", "ABORT"}
    BY <1>2
  <2> DEFINE c == counterNow
  <2>3. c \in Reading
    BY <1>1
  <2> HIDE DEF bits, c
  <2>4. /\ [p EXCEPT !.status = bits, !.energy = c] \in Program
        /\ [p EXCEPT !.energy = c] \in Program
        /\ [p EXCEPT !.time = c, !.timeRight = right] \in Program
    BY <2>1, <2>2, <2>3 DEF Program
  <2> QED
    BY <2>4 DEF bits, c
<1> HIDE DEF a, e, t
<1>4. does(a) \in Slot
  <2>1. <<>> \in Seq(Request)
    OBVIOUS
  <2> QED
    BY <1>3, <2>1 DEF does, Slot
<1>5. \/ catchInterfaceAnswer(p, x) = activationContinue(p)
      \/ catchInterfaceAnswer(p, x) = deactivationContinue(p)
      \/ catchInterfaceAnswer(p, x) = does(a)
      \/ catchInterfaceAnswer(p, x) = interruptContinue(e)
      \/ catchInterfaceAnswer(p, x) = interruptContinue(t)
      \/ catchInterfaceAnswer(p, x) = interruptContinue(p)
      \/ catchInterfaceAnswer(p, x) = setupContinue(p)
  BY DEF catchInterfaceAnswer, a, e, t
<1> QED
  BY <1>3, <1>4, <1>5, SlotOfLife, SlotOfInterrupt, SlotOfSetup

LEMMA Carried ==
  ASSUME NEW h \in Calculator, NEW x \in Request
  PROVE  /\ carryOut(h, x) \in Calculator
         /\ h.mode = "SINGLEERRORMASTER" => carryOut(h, x).mode = "SINGLEERRORMASTER"
         /\ x = start => carryOut(h, x).phase = "armed"
         /\ x = stop => carryOut(h, x).phase = "stopped"
         /\ x \notin {start, stop} => carryOut(h, x).phase = h.phase
         /\ x = resetInt => ~carryOut(h, x).intBit
         /\ x # resetInt => (carryOut(h, x).intBit <=> h.intBit)
<1> DEFINE k == carryOut(h, x)
<1>1. CASE x = start
  <2>1. k = [h EXCEPT !.phase = "armed", !.final = IF @ = "zero" THEN @ ELSE "stale"]
    BY <1>1 DEF carryOut, start
  <2>2. x # stop /\ x # resetInt
    BY <1>1 DEF start, stop, resetInt
  <2> QED
    BY <1>1, <2>1, <2>2 DEF Calculator, FinalCount
<1>2. CASE x = stop
  <2>1. k = [h EXCEPT !.phase = "stopped", !.final = IF counting(h) THEN "partial" ELSE @]
    BY <1>2 DEF carryOut, stop
  <2>2. x # start /\ x # resetInt
    BY <1>2 DEF start, stop, resetInt
  <2> QED
    BY <1>2, <2>1, <2>2 DEF Calculator, FinalCount
<1>3. CASE x = resetInt
  <2>1. k = [h EXCEPT !.intBit = FALSE]
    BY <1>3 DEF carryOut, resetInt
  <2>2. x # start /\ x # stop
    BY <1>3 DEF start, stop, resetInt
  <2> QED
    BY <1>3, <2>1, <2>2 DEF Calculator
<1>4. CASE x \notin {start, stop, resetInt}
  <2>1. k = h \/ k = [h EXCEPT !.freed = TRUE]
             \/ (x \in {"SINGLEERRORMASTER", "CONTERRORMASTER"} /\ k = [h EXCEPT !.mode = x])
    BY <1>4 DEF carryOut, start, stop, resetInt
  <2>2. x # "CONTERRORMASTER"
    BY Requests DEF SetupRequest, start, stop, readEnergy, readTime, resetInt
  <2> QED
    BY <1>4, <2>1, <2>2 DEF Calculator
<1> QED
  BY <1>1, <1>2, <1>3, <1>4

LEMMA TypeInit == Init => TypeOK
<1> SUFFICES ASSUME Init
             PROVE  TypeOK
  OBVIOUS
<1>1. 0 \in 0 .. MaxWrites /\ 0 \in 0 .. MaxRefusals /\ <<>> \in Seq(Request)
  BY SemSpmAssumption
<1>2. prog \in Program
  BY DEF Init, Program, Reading
<1>3. hw \in Calculator
  BY DEF Init, idleCalculator, Calculator, FinalCount
<1> QED
  BY <1>1, <1>2, <1>3 DEF Init, TypeOK

LEMMA TypeBy ==
  ASSUME NEW s \in Slot, prog' = s.p, NEW l \in Seq(Request), line' = l \o s.out,
         hw' \in Calculator, writes' \in 0 .. MaxWrites, refusals' \in 0 .. MaxRefusals
  PROVE  TypeOK'
<1>1. prog' \in Program /\ s.out \in Seq(Request)
  BY DEF Slot
<1>2. line' \in Seq(Request)
  BY <1>1, ConcatProperties
<1> QED
  BY <1>1, <1>2 DEF TypeOK

LEMMA TypeByWrite ==
  ASSUME TypeOK, NEW s \in Slot, write(s), UNCHANGED <<hw, refusals>>
  PROVE  TypeOK'
<1>1. writes' \in 0 .. MaxWrites
  BY SemSpmAssumption DEF write, TypeOK
<1> QED
  BY <1>1, TypeBy DEF write, do, TypeOK

LEMMA TypeStep == TypeOK /\ [Next]_vars => TypeOK'
<1> SUFFICES ASSUME TypeOK, [Next]_vars
             PROVE  TypeOK'
  OBVIOUS
<1>1. /\ prog \in Program /\ line \in Seq(Request) /\ hw \in Calculator
      /\ writes \in 0 .. MaxWrites /\ refusals \in 0 .. MaxRefusals
  BY DEF TypeOK
<1>2. \A q \in Program : does(q) \in Slot
  <2>1. <<>> \in Seq(Request)
    OBVIOUS
  <2> QED
    BY <2>1 DEF does, Slot
<1>3. \A q \in Program, x \in Request :
         /\ andSend(does(q), x) \in Slot /\ stopECCalculator(does(q)) \in Slot
         /\ startFinal(stopECCalculator(does(q))) \in Slot
  BY <1>2, Slots
<1>4. stop \in Request
  BY Requests
<1>5. CASE Connected
  <2> DEFINE s == andSend(does([prog EXCEPT !.life = "fetch"]), "fetchecalcunits")
  <2>1. [prog EXCEPT !.life = "fetch"] \in Program /\ "fetchecalcunits" \in Request
    BY <1>1, Requests DEF Program
  <2>2. s \in Slot
    BY <1>3, <2>1
  <2>3. do(s) /\ UNCHANGED <<hw, writes, refusals>>
    BY <1>5 DEF Connected
  <2> HIDE DEF s
  <2> QED
    BY <1>1, <2>2, <2>3, TypeBy DEF do
<1>6. CASE Answer
  <2>1. Head(line) \in Request /\ Tail(line) \in Seq(Request)
    BY <1>1, <1>6, Answered DEF Answer
  <2> DEFINE s == catchInterfaceAnswer(prog, Head(line))
  <2>2. carryOut(hw, Head(line)) \in Calculator /\ s \in Slot
    BY <1>1, <2>1, Carried, SlotOfAnswer
  <2>3. /\ prog' = s.p /\ line' = Tail(line) \o s.out /\ hw' = carryOut(hw, Head(line))
        /\ UNCHANGED <<writes, refusals>>
    BY <1>6 DEF Answer
  <2> HIDE DEF s
  <2> QED
    BY <1>1, <2>1, <2>2, <2>3, TypeBy
<1>7. CASE Refuse
  <2>1. Tail(line) \in Seq(Request)
    BY <1>1, <1>7, Answered DEF Refuse
  <2>2. refusals + 1 \in 0 .. MaxRefusals
    BY <1>1, <1>7, SemSpmAssumption DEF Refuse
  <2> QED
    BY <1>1, <1>7, <2>1, <2>2 DEF Refuse, TypeOK
<1>8. CASE FirstTick
  <2>1. firstPulse(hw) \in Calculator
    BY <1>1 DEF firstPulse, Calculator
  <2> QED
    BY <1>1, <1>8, <2>1 DEF FirstTick, TypeOK
<1>9. CASE TimeOver
  <2>1. countDown(hw) \in Calculator
    BY <1>1 DEF countDown, Calculator, FinalCount
  <2> DEFINE s == IF hw.intBit THEN does(prog) ELSE handleSECInterrupt(prog)
  <2>2. s \in Slot
    BY <1>1, <1>2, SlotOfInterrupt
  <2>3. do(s) /\ hw' = countDown(hw) /\ UNCHANGED <<writes, refusals>>
    BY <1>9 DEF TimeOver
  <2> HIDE DEF s
  <2> QED
    BY <1>1, <2>1, <2>2, <2>3, TypeBy DEF do
<1>10. CASE Poll
  <2>1. Actualize(does(prog)) \in Slot
    BY <1>1, <1>3, Requests DEF Actualize
  <2>2. do(Actualize(does(prog))) /\ UNCHANGED <<hw, writes, refusals>>
    BY <1>10 DEF Poll
  <2> QED
    BY <1>1, <2>1, <2>2, TypeBy DEF do
<1>11. CASE ClientStart
  <2> DEFINE p == [prog EXCEPT !.startStop = TRUE]
             q == [p EXCEPT !.setup = "setsync"]
  <2>1. enterSetup(p, setupStates[1]) = andSend(does(q), "setsync")
    BY States DEF enterSetup
  <2>2. p \in Program /\ q \in Program /\ "setsync" \in Request
    BY <1>1, Requests, Numbers DEF Program
  <2>3. does(p) \in Slot /\ andSend(does(q), "setsync") \in Slot
    BY <1>2, <1>3, <2>2
  <2>4. (write(does(p)) \/ write(andSend(does(q), "setsync"))) /\ UNCHANGED <<hw, refusals>>
    BY <1>11, <2>1 DEF ClientStart
  <2> HIDE DEF p, q
  <2> QED
    BY <2>3, <2>4, TypeByWrite
<1>12. CASE ClientStop
  <2> DEFINE p == [prog EXCEPT !.startStop = FALSE]
  <2>1. p \in Program
    BY <1>1 DEF Program
  <2>2. /\ write(startFinal(stopECCalculator(does(p)))) \/ write(stopECCalculator(does(p)))
        /\ UNCHANGED <<hw, refusals>>
    BY <1>12 DEF ClientStop
  <2> HIDE DEF p
  <2> QED
    BY <1>3, <1>4, <2>1, <2>2, TypeByWrite
<1>13. CASE newStopMode
  <2>1. PICK stopMode \in StopMode : write(does([prog EXCEPT !.stopMode = stopMode]))
    BY <1>13 DEF newStopMode
  <2>2. [prog EXCEPT !.stopMode = stopMode] \in Program
    BY <1>1 DEF Program
  <2> QED
    BY <1>2, <1>13, <2>1, <2>2, TypeByWrite DEF newStopMode
<1>14. CASE newInput
  BY <1>1, <1>2, <1>14, SlotOfInterrupt, TypeByWrite DEF newInput
<1>15. CASE onPowerModuleValuesChanged
  <2> DEFINE s == stopECCalculator(does(prog))
  <2>1. s \in Slot
    BY <1>1, <1>3, <1>4
  <2>2. (write(s) \/ write([s EXCEPT !.p = setEMResult(s.p)])) /\ UNCHANGED <<hw, refusals>>
    BY <1>15 DEF onPowerModuleValuesChanged
  <2> HIDE DEF s
  <2>3. [s EXCEPT !.p = setEMResult(s.p)] \in Slot
    <3>1. s.p \in Program
      BY <2>1 DEF Slot
    <3>2. setEMResult(s.p) \in Program
      BY <3>1, SlotOfInterrupt
    <3> QED
      BY <2>1, <3>2 DEF Slot
  <2> QED
    BY <2>1, <2>2, <2>3, TypeByWrite
<1>16. CASE clientActivationChanged
  <2>1. [prog EXCEPT !.polling = prog.running] \in Program
    BY <1>1 DEF Program
  <2> QED
    BY <1>2, <1>16, <2>1, TypeByWrite DEF clientActivationChanged
<1>17. CASE Deactivate
  <2> DEFINE p == [prog EXCEPT !.life = "stopping"]
             s == IF p.running THEN stopECCalculator(does(p)) ELSE deactivationContinue(p)
  <2>1. p \in Program
    BY <1>1 DEF Program
  <2>2. do(s) /\ UNCHANGED <<hw, writes, refusals>>
    BY <1>17 DEF Deactivate
  <2> HIDE DEF p
  <2>3. s \in Slot
    BY <1>3, <1>4, <2>1, SlotOfLife
  <2> HIDE DEF s
  <2> QED
    BY <1>1, <2>2, <2>3, TypeBy DEF do
<1>18. CASE UNCHANGED vars
  BY <1>1, <1>18 DEF vars, TypeOK
<1> QED
  BY <1>5, <1>6, <1>7, <1>8, <1>9, <1>10, <1>11, <1>12, <1>13, <1>14, <1>15, <1>16, <1>17,
     <1>18 DEF Next

\* Every variable has its type and the bounds hold, whatever interferes and whatever the
\* service refuses.
THEOREM TypeCorrect == Spec => []TypeOK
BY TypeInit, TypeStep, PTL DEF Spec

-----------------------------------------------------------------------------
(* Answers take the head off the line *)

\* What is known when a request is answered, by its kind
HeadFacts(q, x, t, h) ==
  /\ x = readEnergy =>
       /\ q.final = "energy" /\ (stage(q) < 9 => stage(q) <= 2)
       /\ h.phase # "idle" /\ ~counting(h)
       /\ Elems(t) \cap {readEnergy, readTime, resetInt} = {}
       /\ q.startValue = q.countsFrom /\ q.startValue = q.stopMode
  /\ x = readTime =>
       /\ q.final = "time" /\ (stage(q) < 9 => stage(q) <= 3)
       /\ h.phase # "idle" /\ ~counting(h) /\ ~q.running
       /\ Elems(t) \cap {readEnergy, readTime, resetInt} = {}
       /\ q.startValue = q.countsFrom /\ q.energy = "frozen"
  /\ x = resetInt =>
       /\ q.final = "reset" /\ ~q.running
       /\ Elems(t) \cap {readEnergy, readTime, resetInt} = {}
       /\ q.energy = "frozen" /\ q.time = "frozen" /\ q.timeRight
  /\ x \in SetupRequest =>
       /\ q.setup # "off" /\ x = request(q.setup)
       /\ stage(q) >= 2 => q.startValue = q.stopMode
       /\ Elems(t) \cap SetupRequest = {} /\ stop \notin Elems(t)
       /\ readEnergy \in Elems(t) => stage(q) <= 1
       /\ readTime \in Elems(t) => stage(q) <= 2
       /\ resetInt \in Elems(t) => stage(q) <= 3

LEMMA Heads ==
  ASSUME NEW q, NEW l, NEW h, Typed(q, l, h), Inv(q, l, h), l # <<>>
  PROVE  HeadFacts(q, Head(l), Tail(l), h)
<1> DEFINE x == Head(l)
           t == Tail(l)
<1>1. /\ x \in Request /\ t \in Seq(Request)
      /\ Elems(l) = {x} \cup Elems(t)
      /\ EndsWith(l, readEnergy, stop) =>
           EndsWith(t, readEnergy, stop) \/ (x = readEnergy /\ stop \notin Elems(t))
      /\ Elems(t) \subseteq Request
      /\ \A y \in Elems(t) : ~misplaced(x, y)
  <2>1. /\ l \in Seq(Request) /\ InOrder(l, Misplaced)
    BY DEF Typed, Inv
  <2>2. /\ x \in Request /\ t \in Seq(Request) /\ Elems(l) = {x} \cup Elems(t)
        /\ \A y \in Elems(t) : <<x, y>> \notin Misplaced
        /\ EndsWith(l, readEnergy, stop) =>
             EndsWith(t, readEnergy, stop) \/ (x = readEnergy /\ stop \notin Elems(t))
    BY <2>1, Answered
  <2>3. Elems(t) \subseteq Request
    BY <2>2 DEF Elems
  <2> QED
    BY <2>2, <2>3 DEF Misplaced
<1>2. q.setup \in SetupState \cup {"off"} /\ stage(q) \in 1 .. 9 /\ stage(q) = number(q.setup)
      /\ (stage(q) = 9 <=> q.setup = "off")
  BY Numbers DEF Typed, Program, stage
<1> HIDE DEF x, t
<1>3. SettingUp(q, l, h) /\ Finishing(q, l, h) /\ Measuring(q, l, h) /\ SameMode(q, l, h)
  BY DEF Inv
<1>4. \A final : q.final = final =>
        /\ readEnergy \in Elems(l) => final = "energy"
        /\ readTime \in Elems(l) => final = "time"
        /\ resetInt \in Elems(l) => final = "reset"
  BY <1>3 DEF Finishing
<1>5. ASSUME x = readEnergy
      PROVE  HeadFacts(q, x, t, h)
  <2>1. readEnergy \in Elems(l) /\ readEnergy \notin Elems(t) /\ stop # readEnergy
    BY <1>1, <1>5, Numbers DEF misplaced
  <2>2. x # readTime /\ x # resetInt /\ x \notin SetupRequest
    BY <1>5, Numbers
  <2>3. Elems(t) \cap {readEnergy, readTime, resetInt} = {}
    BY <1>1, <1>4, <2>1
  <2>4. ~counting(h)
    <3>1. SUFFICES ASSUME counting(h)
                   PROVE  FALSE
      OBVIOUS
    <3>2. ~q.running /\ EndsWith(l, readEnergy, stop)
      BY <1>3, <2>1, <3>1 DEF Finishing
    <3>3. stop \in Elems(t)
      BY <1>1, <1>3, <1>5, <2>1, <3>1, <3>2 DEF Measuring, busy, counting
    <3>4. ~EndsWith(t, readEnergy, stop)
      BY <2>1 DEF EndsWith, Elems
    <3> QED
      BY <1>1, <3>2, <3>3, <3>4
  <2>5. q.startValue = q.countsFrom /\ q.startValue = q.stopMode
    BY <1>3, <2>1 DEF SameMode
  <2>6. q.final = "energy" /\ (stage(q) < 9 => stage(q) <= 2) /\ h.phase # "idle"
    BY <1>3, <2>1 DEF Finishing
  <2> QED
    BY <2>2, <2>3, <2>4, <2>5, <2>6 DEF HeadFacts
<1>6. ASSUME x = readTime
      PROVE  HeadFacts(q, x, t, h)
  <2>1. readTime \in Elems(l) /\ readTime \notin Elems(t)
    BY <1>1, <1>6 DEF misplaced
  <2>2. x # readEnergy /\ x # resetInt /\ x \notin SetupRequest
    BY <1>6, Numbers
  <2>3. Elems(t) \cap {readEnergy, readTime, resetInt} = {}
    BY <1>1, <1>4, <2>1
  <2>4. q.startValue = q.countsFrom
    BY <1>3, <2>1 DEF SameMode
  <2> QED
    BY <1>3, <2>1, <2>2, <2>3, <2>4 DEF HeadFacts, Finishing
<1>7. ASSUME x = resetInt
      PROVE  HeadFacts(q, x, t, h)
  <2>1. resetInt \in Elems(l) /\ resetInt \notin Elems(t)
    BY <1>1, <1>7 DEF misplaced
  <2>2. x # readEnergy /\ x # readTime /\ x \notin SetupRequest
    BY <1>7, Numbers
  <2>3. Elems(t) \cap {readEnergy, readTime, resetInt} = {}
    BY <1>1, <1>4, <2>1
  <2> QED
    BY <1>3, <2>1, <2>2, <2>3 DEF HeadFacts, Finishing
<1>8. ASSUME x \in SetupRequest
      PROVE  HeadFacts(q, x, t, h)
  <2>1. x \notin {readEnergy, readTime, resetInt}
    BY <1>8, Numbers
  <2>2. x = request(q.setup) /\ (stage(q) >= 2 => q.startValue = q.stopMode)
    BY <1>1, <1>3, <1>8 DEF SettingUp
  <2>3. q.setup # "off"
    BY <1>8, <2>2 DEF request, SetupRequest, start
  <2>4. number(x) = stage(q)
    BY <1>2, <2>2, <2>3, Numbers
  <2>5. Elems(t) \cap SetupRequest = {} /\ stop \notin Elems(t)
    BY <1>1, <1>8 DEF misplaced
  <2>6. /\ readEnergy \in Elems(t) => ~(number(x) >= 2)
        /\ readTime \in Elems(t) => ~(number(x) >= 3)
        /\ resetInt \in Elems(t) => ~(number(x) >= 4)
    BY <1>1, <1>8 DEF misplaced
  <2> QED
    BY <1>2, <2>1, <2>2, <2>3, <2>4, <2>5, <2>6 DEF HeadFacts
<1>9. ASSUME x \notin SetupRequest \cup {readEnergy, readTime, resetInt}
      PROVE  HeadFacts(q, x, t, h)
  BY <1>9 DEF HeadFacts
<1> QED
  BY <1>5, <1>6, <1>7, <1>8, <1>9 DEF x, t

\* The service has carried out the oldest request, not a start; or it has refused it, not
\* a stop: the invariant holds before the program takes notice.
LEMMA Taken ==
  ASSUME NEW q, NEW l, NEW h, Typed(q, l, h), Inv(q, l, h), l # <<>>, NEW k,
         \/ k = carryOut(h, Head(l)) /\ Head(l) # start
         \/ k = h /\ Head(l) # stop
  PROVE  Typed(q, Tail(l), k) /\ Inv(q, Tail(l), k)
<1> DEFINE x == Head(l)
           t == Tail(l)
<1>1. /\ x \in Request /\ t \in Seq(Request)
      /\ Elems(l) = {x} \cup Elems(t)
      /\ InOrder(t, Misplaced)
      /\ EndsWith(l, readEnergy, stop) =>
           EndsWith(t, readEnergy, stop) \/ (x = readEnergy /\ stop \notin Elems(t))
      /\ \A y \in Elems(t) : ~misplaced(x, y)
  <2>1. /\ l \in Seq(Request) /\ InOrder(l, Misplaced)
    BY DEF Typed, Inv
  <2>2. /\ x \in Request /\ t \in Seq(Request) /\ Elems(l) = {x} \cup Elems(t)
        /\ InOrder(t, Misplaced) /\ \A y \in Elems(t) : <<x, y>> \notin Misplaced
        /\ EndsWith(l, readEnergy, stop) =>
             EndsWith(t, readEnergy, stop) \/ (x = readEnergy /\ stop \notin Elems(t))
    BY <2>1, Answered
  <2>3. Elems(t) \subseteq Request
    BY <2>2 DEF Elems
  <2> QED
    BY <2>2, <2>3 DEF Misplaced
<1>2. /\ k \in Calculator
      /\ h.mode = "SINGLEERRORMASTER" => k.mode = "SINGLEERRORMASTER"
      /\ k.phase = IF x = stop THEN "stopped" ELSE h.phase
      /\ ~h.intBit => ~k.intBit
  <2>1. h \in Calculator
    BY DEF Typed
  <2>2. CASE k = h /\ Head(l) # stop
    BY <2>1, <2>2
  <2>3. CASE k = carryOut(h, Head(l)) /\ Head(l) # start
    BY <1>1, <2>1, <2>3, Carried
  <2> QED
    BY <2>2, <2>3
<1>3. /\ counting(k) => counting(h) /\ x # stop
      /\ busy(k) => busy(h) /\ x # stop
      /\ h.phase # "idle" => k.phase # "idle"
      /\ h.phase # "done" => k.phase # "done"
  BY <1>2 DEF counting, busy
<1>4. q \in Program
  BY DEF Typed
<1> HIDE DEF x, t
<1>5. SettingUp(q, t, k)
  BY <1>1, <1>3 DEF Inv, SettingUp
<1>6. Finishing(q, t, k)
  <2>1. readEnergy \in Elems(t) => x # readEnergy
    BY <1>1 DEF misplaced
  <2>2. Finishing(q, l, h)
    BY DEF Inv
  <2>3. readEnergy \in Elems(t) =>
          /\ q.final = "energy" /\ (stage(q) < 9 => stage(q) <= 2)
          /\ k.phase # "idle"
          /\ counting(k) => ~q.running /\ EndsWith(t, readEnergy, stop)
    BY <1>1, <1>3, <2>1, <2>2 DEF Finishing
  <2> QED
    BY <1>1, <1>3, <2>2, <2>3 DEF Finishing
<1>7. Measuring(q, t, k)
  BY <1>1, <1>2, <1>3 DEF Inv, Measuring
<1>8. SameMode(q, t, k)
  BY <1>1, <1>3 DEF Inv, SameMode
<1>9. Typed(q, t, k)
  BY <1>1, <1>2, <1>4 DEF Typed
<1>10. Inv(q, t, k)
  BY <1>1, <1>5, <1>6, <1>7, <1>8 DEF Inv
<1> QED
  BY <1>9, <1>10 DEF t

-----------------------------------------------------------------------------
(* What the program does then: from q to p, sending requests *)

\* All that the invariant speaks of but the status and the result is the same.
Like(q, p) ==
  /\ p.life = q.life /\ p.startStop = q.startStop /\ p.running = q.running /\ p.setup = q.setup
  /\ p.final = q.final /\ p.stopMode = q.stopMode /\ p.startValue = q.startValue
  /\ p.countsFrom = q.countsFrom /\ p.time = q.time /\ p.timeRight = q.timeRight
  /\ p.energy = q.energy \/ (q.running /\ q.final = "off")

LEMMA Frame ==
  ASSUME NEW q, NEW p, NEW l, NEW h, Inv(q, l, h), Like(q, p), Ready(p)
  PROVE  Inv(p, l, h)
<1>1. stage(p) = stage(q)
  BY DEF Like, stage
<1>2. SettingUp(p, l, h) /\ Measuring(p, l, h) /\ SameMode(p, l, h)
  BY <1>1 DEF Like, Inv, SettingUp, Measuring, SameMode
<1>3. Finishing(p, l, h)
  BY <1>1 DEF Like, Inv, Finishing
<1> QED
  BY <1>2, <1>3 DEF Inv

\* One request more
LEMMA More ==
  ASSUME NEW l \in Seq(Request), NEW x \in Request
  PROVE  /\ l \o <<x>> \in Seq(Request)
         /\ Elems(l \o <<x>>) = Elems(l) \cup {x}
         /\ InOrder(l, Misplaced) /\ (\A y \in Elems(l) : ~misplaced(y, x))
              => InOrder(l \o <<x>>, Misplaced)
         /\ \A last, first : EndsWith(l, last, first) /\ first # x => EndsWith(l \o <<x>>, last, first)
         /\ \A first : first # x => EndsWith(l \o <<x>>, x, first)
         /\ Elems(l) \subseteq Request
<1>1. <<x>> \in Seq(Request)
  OBVIOUS
<1>2. Elems(<<x>>) = {x} /\ (\A wrong : InOrder(<<x>>, wrong)) /\ \A first : x # first => EndsWith(<<x>>, x, first)
  BY Few
<1>3. Elems(l) \subseteq Request
  BY DEF Elems
<1> HIDE DEF Elems
<1>4. /\ l \o <<x>> \in Seq(Request)
      /\ Elems(l \o <<x>>) = Elems(l) \cup Elems(<<x>>)
      /\ \A wrong : InOrder(l, wrong) /\ InOrder(<<x>>, wrong)
              /\ (\A y \in Elems(l), z \in Elems(<<x>>) : <<y, z>> \notin wrong) => InOrder(l \o <<x>>, wrong)
      /\ \A last, first : EndsWith(l, last, first) /\ first \notin Elems(<<x>>) => EndsWith(l \o <<x>>, last, first)
      /\ \A last, first : EndsWith(<<x>>, last, first) => EndsWith(l \o <<x>>, last, first)
  BY <1>1, Sent
<1>5. \A y : ~misplaced(y, x) => <<y, x>> \notin Misplaced
  BY DEF Misplaced
<1> QED
  BY <1>2, <1>3, <1>4, <1>5

LEMMA Same ==
  ASSUME NEW q, NEW l, NEW h, Typed(q, l, h)
  PROVE  /\ l \in Seq(Request) /\ q \in Program /\ h \in Calculator
         /\ q.setup \in SetupState \cup {"off"} /\ stage(q) \in 1 .. 9
         /\ stage(q) = 9 <=> q.setup = "off"
         /\ Elems(l) \subseteq Request
         /\ Inv(q, l, h) => \A y \in Elems(l) \cap SetupRequest : q.setup # "off" /\ number(y) = stage(q)
<1>1. l \in Seq(Request) /\ q \in Program /\ h \in Calculator /\ Elems(l) \subseteq Request
  BY DEF Typed, Elems
<1>2. q.setup \in SetupState \cup {"off"} /\ stage(q) \in 1 .. 9 /\ (stage(q) = 9 <=> q.setup = "off")
  BY <1>1, Numbers DEF Program, stage
<1>3. ASSUME Inv(q, l, h), NEW y \in Elems(l) \cap SetupRequest
      PROVE  q.setup # "off" /\ number(y) = stage(q)
  <2>1. y = request(q.setup)
    BY <1>3 DEF Inv, SettingUp
  <2>2. q.setup # "off"
    BY <1>3, <2>1 DEF request, SetupRequest, start
  <2> QED
    BY <1>2, <2>1, <2>2, Numbers DEF stage
<1> QED
  BY <1>1, <1>2, <1>3

\* Requests that neither start nor stop nor read anything final
LEMMA Harmless ==
  ASSUME NEW q, NEW l, NEW h, Typed(q, l, h), Inv(q, l, h),
         NEW x \in {"actualize", "fetchecalcunits", "setsecintnotifier", "freeecalcunits"}
  PROVE  Inv(q, l \o <<x>>, h)
<1> DEFINE m == l \o <<x>>
<1>1. /\ x \in Request /\ x \notin SetupRequest \cup {stop, readEnergy, readTime, resetInt}
  BY Requests, Numbers DEF stop, readEnergy, readTime, resetInt, start, SetupRequest
<1>2. /\ Elems(m) = Elems(l) \cup {x}
      /\ InOrder(m, Misplaced)
      /\ EndsWith(l, readEnergy, stop) => EndsWith(m, readEnergy, stop)
  <2>1. \A y : ~misplaced(y, x)
    BY <1>1 DEF misplaced
  <2>2. InOrder(l, Misplaced)
    BY DEF Inv
  <2> QED
    BY <1>1, <2>1, <2>2, Same, More
<1> HIDE DEF m
<1>3. SettingUp(q, m, h) /\ Measuring(q, m, h) /\ SameMode(q, m, h)
  BY <1>1, <1>2 DEF Inv, SettingUp, Measuring, SameMode
<1>4. Finishing(q, m, h)
  BY <1>1, <1>2 DEF Inv, Finishing
<1>5. Inv(q, m, h)
  BY <1>2, <1>3, <1>4 DEF Inv
<1> QED
  BY <1>5 DEF m

\* A stop, whatever its reason, that does not meet a set-up
LEMMA StopStep ==
  ASSUME NEW q, NEW l, NEW h, Typed(q, l, h), Inv(q, l, h), q.running, q.setup = "off",
         NEW p, ~p.running, ~p.startStop, p.setup = "off",
         p.final = q.final, p.stopMode = q.stopMode, p.startValue = q.startValue,
         p.countsFrom = q.countsFrom, p.energy = q.energy, p.time = q.time,
         p.timeRight = q.timeRight, Ready(p)
  PROVE  Inv(p, l \o <<stop>>, h)
<1> DEFINE m == l \o <<stop>>
<1>1. /\ stop \in Request /\ stop \notin SetupRequest \cup {readEnergy, readTime, resetInt}
      /\ Elems(l) \cap SetupRequest = {}
  BY Requests, Numbers, Same
<1>2. stage(p) = 9 /\ stage(q) = 9
  BY Same DEF stage
<1>3. Elems(m) = Elems(l) \cup {stop} /\ InOrder(m, Misplaced)
  <2>1. \A y \in Elems(l) : ~misplaced(y, stop)
    BY <1>1 DEF misplaced
  <2>2. InOrder(l, Misplaced)
    BY DEF Inv
  <2> QED
    BY <1>1, <2>1, <2>2, Same, More
<1> HIDE DEF m
<1>4. SettingUp(p, m, h)
  BY <1>1, <1>2, <1>3 DEF SettingUp
<1>5. Finishing(p, m, h)
  BY <1>1, <1>2, <1>3 DEF Inv, Finishing
<1>6. Measuring(p, m, h)
  BY <1>3 DEF Inv, Measuring
<1>7. SameMode(p, m, h)
  BY <1>1, <1>3 DEF Inv, SameMode
<1>8. Inv(p, m, h)
  BY <1>3, <1>4, <1>5, <1>6, <1>7 DEF Inv
<1> QED
  BY <1>8 DEF m

\* A measurement has ended, by the user or by itself, and its final energy is read.
LEMMA EnergyStep ==
  ASSUME NEW q, NEW l, NEW h, Typed(q, l, h), Inv(q, l, h), q.final = "off",
         q.startValue = q.countsFrom, q.startValue = q.stopMode,
         NEW k, k.mode = h.mode, k.phase # "idle",
         \/ k = h /\ ~q.running /\ q.setup = "off"
         \/ counting(h) /\ k.phase = "done",
         NEW p, p.life = q.life, p.startStop = q.startStop, p.running = q.running,
         p.setup = q.setup, p.final = "energy", p.stopMode = q.stopMode,
         p.startValue = q.startValue, p.countsFrom = q.countsFrom
  PROVE  Inv(p, l \o <<readEnergy>>, k)
<1> DEFINE m == l \o <<readEnergy>>
<1>1. /\ readEnergy \in Request
      /\ readEnergy \notin SetupRequest \cup {stop, readTime, resetInt}
  BY Requests, Numbers
<1>2. stage(p) = stage(q) /\ (stage(q) = 1 \/ stage(q) = 9)
  <2>1. stage(p) = stage(q)
    BY DEF stage
  <2>2. counting(h) => busy(h)
    BY DEF counting, busy
  <2>3. stage(q) \notin 2 .. 8
    BY <2>2, Same DEF Inv, SettingUp
  <2> QED
    BY <2>1, <2>3, Same
<1>3. Elems(l) \cap {readEnergy, readTime, resetInt} = {}
  BY DEF Inv, Finishing
<1>4. /\ Elems(m) = Elems(l) \cup {readEnergy}
      /\ InOrder(m, Misplaced)
      /\ EndsWith(m, readEnergy, stop)
  <2>1. \A y \in Elems(l) \cap SetupRequest : ~(number(y) >= 2)
    BY <1>2, Same
  <2>2. \A y \in Elems(l) : ~misplaced(y, readEnergy)
    BY <1>1, <1>3, <2>1 DEF misplaced
  <2>3. InOrder(l, Misplaced)
    BY DEF Inv
  <2> QED
    BY <1>1, <2>2, <2>3, Same, More
<1> HIDE DEF m
<1>5. (counting(k) => ~q.running) /\ (busy(k) => busy(h))
  BY DEF counting, busy
<1>6. SettingUp(p, m, k)
  BY <1>1, <1>2, <1>4, <1>5 DEF Inv, SettingUp
<1>7. Finishing(p, m, k)
  BY <1>1, <1>2, <1>3, <1>4, <1>5 DEF Finishing
<1>8. Measuring(p, m, k)
  BY <1>1, <1>4, <1>5 DEF Inv, Measuring
<1>9. SameMode(p, m, k)
  BY DEF SameMode
<1>10. Ready(p)
  BY DEF Ready
<1>11. Inv(p, m, k)
  BY <1>4, <1>6, <1>7, <1>8, <1>9, <1>10 DEF Inv
<1> QED
  BY <1>11 DEF m

\* The set time is over while the end of the measurement is handled already.
LEMMA CountedDown ==
  ASSUME NEW q, NEW l, NEW h, Inv(q, l, h), q.final # "off", counting(h),
         NEW k, k.mode = h.mode, k.phase = "done"
  PROVE  Inv(q, l, k)
<1>1. ~counting(k) /\ busy(h) /\ busy(k) /\ k.phase # "idle"
  BY DEF counting, busy
<1>2. SettingUp(q, l, k) /\ Measuring(q, l, k) /\ SameMode(q, l, k)
  BY <1>1 DEF Inv, SettingUp, Measuring, SameMode
<1>3. Finishing(q, l, k)
  BY <1>1 DEF Inv, Finishing
<1> QED
  BY <1>2, <1>3 DEF Inv

\* The final energy is there: the measurement is stopped, if it still runs, and ready.
LEMMA TimeStep ==
  ASSUME NEW q, NEW l, NEW h, Typed(q, l, h), Inv(q, l, h), HeadFacts(q, readEnergy, l, h),
         NEW p, ~p.running, p.life = q.life, p.setup = q.setup, p.final = "time",
         p.startStop = IF q.running THEN FALSE ELSE q.startStop,
         p.stopMode = q.stopMode, p.startValue = q.startValue, p.countsFrom = q.countsFrom,
         p.energy = "frozen"
  PROVE  /\ ~q.running => Inv(p, l \o <<readTime>>, h)
         /\ q.running => Inv(p, (l \o <<readTime>>) \o <<stop>>, h)
<1> DEFINE m == l \o <<readTime>>
           n == m \o <<stop>>
<1>1. /\ readTime \in Request /\ stop \in Request
      /\ readTime \notin SetupRequest \cup {readEnergy, resetInt, stop}
      /\ stop \notin SetupRequest \cup {readEnergy, readTime, resetInt}
  BY Requests, Numbers
<1>2. /\ q.final = "energy" /\ (stage(q) < 9 => stage(q) <= 2)
      /\ h.phase # "idle" /\ ~counting(h)
      /\ Elems(l) \cap {readEnergy, readTime, resetInt} = {}
      /\ q.startValue = q.countsFrom /\ q.startValue = q.stopMode
  BY DEF HeadFacts
<1>3. stage(p) = stage(q) /\ stage(q) \in 1 .. 9
  BY Same DEF stage
<1>4. Elems(m) = Elems(l) \cup {readTime} /\ InOrder(m, Misplaced) /\ m \in Seq(Request)
  <2>1. \A y \in Elems(l) \cap SetupRequest : ~(number(y) >= 3)
    BY <1>2, <1>3, Same
  <2>2. \A y \in Elems(l) : ~misplaced(y, readTime)
    BY <1>1, <1>2, <2>1 DEF misplaced
  <2>3. InOrder(l, Misplaced)
    BY DEF Inv
  <2> QED
    BY <1>1, <2>2, <2>3, Same, More
<1> HIDE DEF m
<1>5. Ready(p) /\ \A e : SameMode(p, e, h)
  BY <1>2 DEF Ready, SameMode
<1>6. ASSUME ~q.running
      PROVE  Inv(p, m, h)
  <2>1. SettingUp(p, m, h)
    BY <1>1, <1>3, <1>4, <1>6 DEF Inv, SettingUp
  <2>2. Finishing(p, m, h)
    BY <1>1, <1>2, <1>3, <1>4 DEF Finishing
  <2>3. Measuring(p, m, h)
    BY <1>4, <1>6 DEF Inv, Measuring
  <2> QED
    BY <1>4, <1>5, <2>1, <2>2, <2>3 DEF Inv
<1>7. ASSUME q.running
      PROVE  Inv(p, n, h)
  <2>1. stage(q) = 9 /\ q.setup = "off"
    <3>1. ~(stage(q) < 8)
      BY <1>7 DEF Inv, SettingUp
    <3> QED
      BY <1>2, <1>3, <3>1, Same
  <2>2. Elems(m) \cap SetupRequest = {}
    BY <1>1, <1>4, <2>1, Same
  <2>3. Elems(n) = Elems(m) \cup {stop} /\ InOrder(n, Misplaced)
    <3>1. \A y \in Elems(m) : ~misplaced(y, stop)
      BY <1>1, <2>2 DEF misplaced
    <3> QED
      BY <1>1, <1>4, <3>1, More
  <2> HIDE DEF n
  <2>4. SettingUp(p, n, h)
    BY <1>1, <1>3, <1>7, <2>1, <2>2, <2>3 DEF SettingUp
  <2>5. Finishing(p, n, h)
    BY <1>1, <1>2, <1>3, <1>4, <2>3 DEF Finishing
  <2>6. Measuring(p, n, h)
    BY <2>3 DEF Inv, Measuring
  <2> QED
    BY <1>5, <2>3, <2>4, <2>5, <2>6 DEF Inv
<1> QED
  BY <1>6, <1>7 DEF m, n

\* The final time is there, and the interrupt is reset.
LEMMA ResetStep ==
  ASSUME NEW q, NEW l, NEW h, Typed(q, l, h), Inv(q, l, h), HeadFacts(q, readTime, l, h),
         NEW p, ~p.running, p.life = q.life, p.setup = q.setup, p.final = "reset",
         p.startStop = q.startStop, p.stopMode = q.stopMode, p.startValue = q.startValue,
         p.countsFrom = q.countsFrom,
         p.energy = "frozen", p.time = "frozen", p.timeRight
  PROVE  Inv(p, l \o <<resetInt>>, h)
<1> DEFINE m == l \o <<resetInt>>
<1>1. resetInt \in Request /\ resetInt \notin SetupRequest \cup {readEnergy, readTime, stop}
  BY Requests, Numbers
<1>2. /\ q.final = "time" /\ (stage(q) < 9 => stage(q) <= 3)
      /\ ~counting(h) /\ ~q.running
      /\ Elems(l) \cap {readEnergy, readTime, resetInt} = {}
  BY DEF HeadFacts
<1>3. stage(p) = stage(q) /\ stage(q) \in 1 .. 9
  BY Same DEF stage
<1>4. Elems(m) = Elems(l) \cup {resetInt} /\ InOrder(m, Misplaced)
  <2>1. \A y \in Elems(l) \cap SetupRequest : ~(number(y) >= 4)
    BY <1>2, <1>3, Same
  <2>2. \A y \in Elems(l) : ~misplaced(y, resetInt)
    BY <1>1, <1>2, <2>1 DEF misplaced
  <2>3. InOrder(l, Misplaced)
    BY DEF Inv
  <2> QED
    BY <1>1, <2>2, <2>3, Same, More
<1> HIDE DEF m
<1>5. SettingUp(p, m, h)
  BY <1>1, <1>2, <1>3, <1>4 DEF Inv, SettingUp
<1>6. Finishing(p, m, h)
  BY <1>1, <1>2, <1>3, <1>4 DEF Finishing
<1>7. Measuring(p, m, h)
  BY <1>2, <1>4 DEF Inv, Measuring
<1>8. Ready(p) /\ SameMode(p, m, h)
  BY <1>1, <1>2, <1>4 DEF Ready, SameMode
<1>9. Inv(p, m, h)
  BY <1>4, <1>5, <1>6, <1>7, <1>8 DEF Inv
<1> QED
  BY <1>9 DEF m

\* The interrupt is reset, and the result computed from what was read.
LEMMA ResultStep ==
  ASSUME NEW q, NEW l, NEW h, Inv(q, l, h), HeadFacts(q, resetInt, l, h), ~h.intBit,
         NEW p, ~p.running, p.life = q.life, p.setup = q.setup, p.final = "off",
         p.startStop = q.startStop, p.stopMode = q.stopMode, p.startValue = q.startValue,
         p.countsFrom = q.countsFrom,
         p.energy = q.energy, p.time = q.time, p.timeRight = q.timeRight,
         p.result = [energy |-> q.energy, time |-> q.time, timeRight |-> q.timeRight]
  PROVE  Inv(p, l, h)
<1>1. /\ ~q.running /\ Elems(l) \cap {readEnergy, readTime, resetInt} = {}
      /\ q.energy = "frozen" /\ q.time = "frozen" /\ q.timeRight
  BY Zenon DEF HeadFacts
<1>2. stage(p) = stage(q)
  BY DEF stage
<1>3. SettingUp(p, l, h)
  BY <1>1, <1>2 DEF Inv, SettingUp
<1>4. Finishing(p, l, h)
  BY <1>1 DEF Finishing
<1>5. Measuring(p, l, h) /\ SameMode(p, l, h)
  BY <1>1 DEF Inv, Measuring, SameMode
<1>6. Ready(p)
  BY <1>1 DEF Ready, finalResult
<1> QED
  BY <1>3, <1>4, <1>5, <1>6 DEF Inv

\* A start of the user begins the set-up.
LEMMA BeginStep ==
  ASSUME NEW q, NEW l, NEW h, Typed(q, l, h), Inv(q, l, h), ~q.startStop, q.life = "active",
         NEW p, p.life = q.life, p.startStop, p.running = q.running, p.setup = "setsync",
         p.final = q.final, p.stopMode = q.stopMode, p.startValue = q.startValue,
         p.countsFrom = q.countsFrom, p.energy = q.energy, p.time = q.time,
         p.timeRight = q.timeRight, Ready(p)
  PROVE  Inv(p, l \o <<"setsync">>, h)
<1> DEFINE m == l \o <<"setsync">>
<1>1. /\ "setsync" \in Request \cap SetupRequest
      /\ "setsync" \notin {readEnergy, readTime, resetInt, stop}
      /\ request("setsync") = "setsync"
  BY Requests, Numbers
<1>2. stage(p) = 1
  BY Numbers DEF stage
<1>3. ~q.running /\ q.setup = "off" /\ Elems(l) \cap SetupRequest = {}
  <2>1. ~q.running /\ q.setup = "off"
    BY DEF Inv, SettingUp
  <2> QED
    BY <2>1, Same
<1>4. /\ Elems(m) = Elems(l) \cup {"setsync"}
      /\ InOrder(m, Misplaced)
      /\ EndsWith(l, readEnergy, stop) => EndsWith(m, readEnergy, stop)
  <2>1. \A y \in Elems(l) : ~misplaced(y, "setsync")
    BY <1>1, <1>3 DEF misplaced
  <2>2. InOrder(l, Misplaced)
    BY DEF Inv
  <2> QED
    BY <1>1, <2>1, <2>2, Same, More
<1> HIDE DEF m
<1>5. SettingUp(p, m, h)
  BY <1>1, <1>2, <1>3, <1>4 DEF SettingUp
<1>6. Finishing(p, m, h)
  BY <1>1, <1>2, <1>3, <1>4 DEF Inv, Finishing
<1>7. Measuring(p, m, h)
  BY <1>3, <1>4 DEF Inv, Measuring
<1>8. SameMode(p, m, h)
  BY <1>1, <1>3, <1>4 DEF Inv, SameMode
<1>9. Inv(p, m, h)
  BY <1>4, <1>5, <1>6, <1>7, <1>8 DEF Inv
<1> QED
  BY <1>9 DEF m

\* The set-up goes one state on.
LEMMA AdvanceStep ==
  ASSUME NEW q, NEW l, NEW h, Typed(q, l, h), Inv(q, l, h),
         NEW x \in SetupRequest, HeadFacts(q, x, l, h), stage(q) < 7,
         NEW p, p.life = q.life, p.startStop = q.startStop, p.running = q.running,
         p.setup \in SetupState, stage(p) = stage(q) + 1, request(p.setup) \in SetupRequest,
         p.startValue = IF stage(q) = 1 THEN q.stopMode ELSE q.startValue,
         p.final = q.final, p.stopMode = q.stopMode,
         p.countsFrom = q.countsFrom, p.energy = q.energy, p.time = q.time,
         p.timeRight = q.timeRight, Ready(p)
  PROVE  Inv(p, l \o <<request(p.setup)>>, h)
<1> DEFINE r == request(p.setup)
           m == l \o <<r>>
<1>1. /\ r \in Request \cap SetupRequest
      /\ r \notin {readEnergy, readTime, resetInt, stop}
  BY Requests, Numbers
<1>2. stage(q) \in 1 .. 6 /\ stage(p) \in 2 .. 7 /\ q.setup # "off" /\ p.setup # "off"
  <2>1. stage(q) \in 1 .. 6 /\ q.setup # "off"
    BY Same, SMTT(30)
  <2> QED
    BY <2>1, Numbers DEF stage
<1>3. /\ stage(q) >= 2 => q.startValue = q.stopMode
      /\ Elems(l) \cap SetupRequest = {} /\ stop \notin Elems(l)
      /\ readEnergy \in Elems(l) => stage(q) <= 1
      /\ readTime \in Elems(l) => stage(q) <= 2
      /\ resetInt \in Elems(l) => stage(q) <= 3
  BY DEF HeadFacts
<1>4. ~q.running /\ q.startStop /\ ~busy(h)
  BY <1>2, <1>3 DEF Inv, SettingUp, Measuring
<1>5. /\ Elems(m) = Elems(l) \cup {r}
      /\ InOrder(m, Misplaced)
      /\ EndsWith(l, readEnergy, stop) => EndsWith(m, readEnergy, stop)
  <2>1. \A y \in Elems(l) : ~misplaced(y, r)
    BY <1>1, <1>3 DEF misplaced
  <2>2. InOrder(l, Misplaced)
    BY DEF Inv
  <2> QED
    BY <1>1, <2>1, <2>2, Same, More
<1>6. p.startValue = p.stopMode /\ (q.startValue = q.stopMode => p.startValue = q.startValue)
  BY <1>2, <1>3
<1> HIDE DEF m
<1>7. SettingUp(p, m, h)
  <2>1. \A y \in Elems(m) \cap SetupRequest : y = r
    BY <1>3, <1>5
  <2>2. stage(p) # 9 => p.life = "active"
    BY <1>2 DEF Inv, SettingUp
  <2>3. stop \notin Elems(m)
    BY <1>1, <1>3, <1>5
  <2> QED
    BY <1>2, <1>4, <1>6, <2>1, <2>2, <2>3 DEF SettingUp
<1> HIDE DEF r
<1>8. Finishing(p, m, h)
  <2>1. /\ readEnergy \in Elems(m) => readEnergy \in Elems(l) /\ stage(p) <= 2
        /\ readTime \in Elems(m) => readTime \in Elems(l) /\ stage(p) <= 3
        /\ resetInt \in Elems(m) => resetInt \in Elems(l) /\ stage(p) <= 4
    BY <1>1, <1>2, <1>3, <1>5
  <2> QED
    BY <1>5, <2>1 DEF Inv, Finishing
<1>9. Measuring(p, m, h)
  BY <1>4, <1>5 DEF Inv, Measuring
<1>10. SameMode(p, m, h)
  BY <1>1, <1>4, <1>5, <1>6 DEF Inv, SameMode
<1>11. Inv(p, m, h)
  BY <1>5, <1>7, <1>8, <1>9, <1>10 DEF Inv
<1> QED
  BY <1>11 DEF m, r

\* The set-up starts the measurement.
LEMMA StartStep ==
  ASSUME NEW q, NEW l, NEW h, Typed(q, l, h), Inv(q, l, h),
         NEW x \in SetupRequest, HeadFacts(q, x, l, h), stage(q) = 7,
         NEW p, p.life = q.life, p.startStop = q.startStop, p.running, p.setup = start,
         p.startValue = q.startValue, p.countsFrom = q.startValue,
         p.final = q.final, p.stopMode = q.stopMode, "READY" \notin p.status
  PROVE  Inv(p, l \o <<start>>, h)
<1> DEFINE m == l \o <<start>>
<1>1. /\ start \in Request \cap SetupRequest
      /\ start \notin {readEnergy, readTime, resetInt, stop}
      /\ request(start) = start /\ start # "off"
  BY Requests, Numbers DEF start, request
<1>2. stage(p) = 8
  BY Numbers DEF stage
<1>3. /\ q.startValue = q.stopMode /\ q.setup # "off"
      /\ Elems(l) \cap (SetupRequest \cup {stop, readEnergy, readTime, resetInt}) = {}
  BY DEF HeadFacts
<1>4. ~q.running /\ q.startStop /\ ~busy(h) /\ q.life = "active"
  BY <1>3 DEF Inv, SettingUp, Measuring
<1>5. Elems(m) = Elems(l) \cup {start} /\ InOrder(m, Misplaced)
  <2>1. \A y \in Elems(l) : ~misplaced(y, start)
    BY <1>1, <1>3 DEF misplaced
  <2>2. InOrder(l, Misplaced)
    BY DEF Inv
  <2> QED
    BY <1>1, <2>1, <2>2, Same, More
<1> HIDE DEF m
<1>6. SettingUp(p, m, h)
  <2>1. \A y \in Elems(m) \cap SetupRequest : y = request(p.setup)
    BY <1>1, <1>3, <1>5
  <2>2. stop \notin Elems(m)
    BY <1>1, <1>3, <1>5
  <2> QED
    BY <1>1, <1>2, <1>3, <1>4, <2>1, <2>2 DEF SettingUp
<1>7. Finishing(p, m, h)
  BY <1>1, <1>3, <1>5 DEF Finishing
<1>8. Measuring(p, m, h)
  <2>1. h.phase # "done"
    BY <1>4 DEF busy
  <2> QED
    BY <1>1, <2>1 DEF Inv, Measuring
<1>9. SameMode(p, m, h) /\ Ready(p)
  BY <1>3 DEF SameMode, Ready
<1>10. Inv(p, m, h)
  BY <1>5, <1>6, <1>7, <1>8, <1>9 DEF Inv
<1> QED
  BY <1>10 DEF m

\* The service has started the measurement, which ends the set-up.
LEMMA EndStep ==
  ASSUME NEW q, NEW l, NEW h, Typed(q, l, h), Inv(q, l, h), l # <<>>, Head(l) = start,
         NEW k, k.mode = h.mode, k.phase = "armed", k.intBit <=> h.intBit,
         NEW p, p.life = q.life, p.startStop = q.startStop, p.running = q.running,
         p.setup = "off",
         p.final = q.final, p.stopMode = q.stopMode, p.startValue = q.startValue,
         p.countsFrom = q.countsFrom, Ready(p)
  PROVE  stage(q) = 8 /\ Inv(p, Tail(l), k)
<1> DEFINE t == Tail(l)
<1>1. /\ Elems(l) = {start} \cup Elems(t) /\ InOrder(t, Misplaced)
  <2>1. l \in Seq(Request) /\ InOrder(l, Misplaced)
    BY DEF Typed, Inv
  <2> QED
    BY <2>1, Answered
<1>2. HeadFacts(q, start, t, h) /\ start \in SetupRequest /\ number(start) = 8
  BY Heads, Numbers
<1> HIDE DEF t
<1>3. stage(q) = 8
  <2>1. start \in Elems(l) \cap SetupRequest
    BY <1>1, <1>2
  <2> QED
    BY <1>2, <2>1, Same
<1>4. Elems(t) \cap (SetupRequest \cup {stop, readEnergy, readTime, resetInt}) = {}
  BY <1>2, <1>3 DEF HeadFacts
<1>5. q.running /\ q.startStop
  BY <1>3 DEF Inv, SettingUp
<1>6. stage(p) = 9
  BY Numbers DEF stage
<1>7. SettingUp(p, t, k)
  BY <1>4, <1>5, <1>6 DEF SettingUp
<1>8. Finishing(p, t, k)
  BY <1>4 DEF Finishing
<1>9. Measuring(p, t, k)
  BY <1>5 DEF Inv, Measuring
<1>10. SameMode(p, t, k)
  BY <1>5 DEF Inv, SameMode
<1>11. Inv(p, t, k)
  BY <1>1, <1>7, <1>8, <1>9, <1>10 DEF Inv
<1> QED
  BY <1>3, <1>11 DEF t

\* The program comes up, or goes down, while nothing is set up.
LEMMA LifeStep ==
  ASSUME NEW q, NEW l, NEW h, Typed(q, l, h), Inv(q, l, h), q.life # "active" \/ q.setup = "off",
         NEW p, p.startStop = q.startStop, p.running = q.running, p.setup = q.setup,
         p.final = q.final, p.stopMode = q.stopMode, p.startValue = q.startValue,
         p.countsFrom = q.countsFrom, p.energy = q.energy, p.time = q.time,
         p.timeRight = q.timeRight, Ready(p)
  PROVE  Inv(p, l, h) /\ q.setup = "off"
<1>1. stage(p) = stage(q) /\ stage(q) = 9 /\ q.setup = "off"
  <2>1. stage(p) = stage(q)
    BY DEF stage
  <2>2. q.life # "active" => stage(q) = 9
    BY DEF Inv, SettingUp
  <2> QED
    BY <2>1, <2>2, Same
<1>2. SettingUp(p, l, h) /\ Measuring(p, l, h) /\ SameMode(p, l, h)
  BY <1>1 DEF Inv, SettingUp, Measuring, SameMode
<1>3. Finishing(p, l, h)
  BY <1>1 DEF Inv, Finishing
<1> QED
  BY <1>1, <1>2, <1>3 DEF Inv

\* The mode changes while nothing is under way.
LEMMA ModeStep ==
  ASSUME NEW q, NEW l, NEW h, Typed(q, l, h), Inv(q, l, h), ~q.running, l = <<>>,
         NEW p, p.life = q.life, p.startStop = q.startStop, p.running = q.running,
         p.setup = q.setup, p.final = q.final, p.startValue = q.startValue,
         p.countsFrom = q.countsFrom, p.energy = q.energy, p.time = q.time,
         p.timeRight = q.timeRight, Ready(p)
  PROVE  Inv(p, l, h)
<1>1. stage(p) = stage(q) /\ Elems(l) = {}
  BY Few DEF stage
<1>2. ~busy(h) /\ ~counting(h)
  BY <1>1 DEF Inv, Measuring, busy, counting
<1>3. SettingUp(p, l, h)
  BY <1>1, <1>2 DEF Inv, SettingUp
<1>4. Finishing(p, l, h) /\ Measuring(p, l, h) /\ SameMode(p, l, h)
  BY <1>1, <1>2 DEF Inv, Finishing, Measuring, SameMode
<1> QED
  BY <1>3, <1>4 DEF Inv

-----------------------------------------------------------------------------
(* The slots keep the invariant *)

\* A slot makes of a line l and calculators h what the invariant asks for.
Well(l, h, s) == Inv(s.p, l \o s.out, h)

LEMMA WellWhen ==
  ASSUME NEW p, NEW out, NEW l, NEW h, Inv(p, l \o out, h)
  PROVE  Well(l, h, [p |-> p, out |-> out])
<1> DEFINE s == [p |-> p, out |-> out]
<1>1. s.p = p /\ s.out = out
  OBVIOUS
<1> HIDE DEF s
<1>2. Well(l, h, s)
  BY <1>1 DEF Well
<1> QED
  BY <1>2 DEF s

LEMMA WellNothing ==
  ASSUME NEW p, NEW l, NEW h, l \in Seq(Request), Inv(p, l, h)
  PROVE  Well(l, h, does(p))
<1>1. l \o <<>> = l
  BY ConcatEmptySeq
<1> QED
  BY <1>1, WellWhen DEF does

LEMMA WellSend ==
  ASSUME NEW p, NEW l, NEW h, NEW x, Inv(p, l \o <<x>>, h)
  PROVE  Well(l, h, andSend(does(p), x))
<1>1. andSend(does(p), x) = [p |-> p, out |-> <<x>>]
  BY Sends
<1> QED
  BY <1>1, WellWhen

\* Two requests are sent one after the other.
LEMMA Two ==
  ASSUME NEW l \in Seq(Request), NEW x \in Request, NEW y \in Request
  PROVE  l \o Append(<<x>>, y) = (l \o <<x>>) \o <<y>>
<1>1. <<x>> \in Seq(Request) /\ <<y>> \in Seq(Request)
  OBVIOUS
<1>2. Append(<<x>>, y) = <<x>> \o <<y>>
  BY <1>1, AppendIsConcat
<1> QED
  BY <1>1, <1>2, ConcatAssociative

LEMMA WellStop ==
  ASSUME NEW q, NEW l, NEW h, Typed(q, l, h), Inv(q, l, h), q.setup = "off"
  PROVE  Well(l, h, stopECCalculator(does(q)))
<1>1. q \in Program /\ l \in Seq(Request)
  BY DEF Typed
<1> DEFINE p == stopped(q)
<1>2. stopECCalculator(does(q)) =
        IF q.running THEN [p |-> p, out |-> Append(<<>>, stop)] ELSE does(q)
  BY Stops DEF does
<1>3. Append(<<>>, stop) = <<stop>>
  OBVIOUS
<1>4. CASE ~q.running
  BY <1>1, <1>2, <1>4, WellNothing
<1>5. CASE q.running
  <2>1. /\ ~p.running /\ ~p.startStop /\ p.setup = "off" /\ p.final = q.final
        /\ p.stopMode = q.stopMode /\ p.startValue = q.startValue /\ p.countsFrom = q.countsFrom
        /\ p.energy = q.energy /\ p.time = q.time /\ p.timeRight = q.timeRight
        /\ p.result = q.result /\ ("READY" \in p.status => "READY" \in q.status)
    BY <1>1, StoppedIs
  <2> HIDE DEF p
  <2>2. Ready(p)
    BY <2>1 DEF Inv, Ready
  <2>3. Inv(p, l \o <<stop>>, h)
    BY <1>5, <2>1, <2>2, StopStep
  <2> QED
    BY <1>2, <1>3, <1>5, <2>3, WellWhen
<1> QED
  BY <1>4, <1>5

\* The result is computed anew.
LEMMA WellResult ==
  ASSUME NEW q \in Program, NEW l, NEW h, Inv(q, l, h)
  PROVE  Inv(setEMResult(q), l, h)
<1> DEFINE r == [energy |-> q.energy, time |-> q.time, timeRight |-> q.timeRight]
           p == [q EXCEPT !.result = r]
<1>1. p.result = r /\ p.status = q.status /\ Like(q, p)
  <2> HIDE DEF r
  <2> QED
    BY DEF Program, Like
<1>2. p = setEMResult(q)
  BY DEF setEMResult
<1> HIDE DEF p
<1>3. Ready(p)
  <2>1. /\ p.final = q.final /\ p.time = q.time /\ p.timeRight = q.timeRight
        /\ p.energy = q.energy
    BY <1>1, <1>2 DEF setEMResult, Program, Like
  <2> QED
    BY <1>1, <2>1 DEF Inv, Ready, finalResult
<1> QED
  BY <1>1, <1>2, <1>3, Frame

\* A request of the set-up other than the start is answered.
LEMMA WellSetup ==
  ASSUME NEW q, NEW l, NEW h, Typed(q, l, h), Inv(q, l, h),
         NEW x \in SetupRequest \ {start}, HeadFacts(q, x, l, h)
  PROVE  Well(l, h, setupContinue(q))
<1>1. q \in Program /\ q.setup # "off" /\ x = request(q.setup)
  BY DEF Typed, HeadFacts
<1>2. stage(q) < 7 \/ stage(q) = 7
  <2>1. q.setup # start
    <3>1. request(start) = start
      BY DEF request, start
    <3> QED
      BY <1>1, <3>1
  <2>2. stage(q) # 8
    BY <1>1, <2>1, Same, Numbers DEF stage
  <2> QED
    BY <1>1, <2>2, Goes
<1>3. CASE stage(q) < 7
  <2>1. PICK state \in SetupState, v \in StopMode :
          /\ setupContinue(q) = [p |-> [q EXCEPT !.setup = state, !.startValue = v],
                                 out |-> <<request(state)>>]
          /\ number(state) = stage(q) + 1 /\ request(state) \in SetupRequest
          /\ v = IF stage(q) = 1 THEN q.stopMode ELSE q.startValue
    BY <1>1, <1>3, Goes
  <2> DEFINE p == [q EXCEPT !.setup = state, !.startValue = v]
  <2>2. /\ p.life = q.life /\ p.startStop = q.startStop /\ p.running = q.running
        /\ p.setup = state /\ p.startValue = v /\ p.final = q.final /\ p.stopMode = q.stopMode
        /\ p.countsFrom = q.countsFrom /\ p.energy = q.energy /\ p.time = q.time
        /\ p.timeRight = q.timeRight /\ p.result = q.result /\ p.status = q.status
    BY <1>1 DEF Program
  <2>3. setupContinue(q) = [p |-> p, out |-> <<request(state)>>]
    BY <2>1
  <2> HIDE DEF p
  <2>4. stage(p) = stage(q) + 1
    BY <2>1, <2>2 DEF stage
  <2>5. Ready(p)
    BY <2>2 DEF Inv, Ready
  <2>6. Inv(p, l \o <<request(p.setup)>>, h)
    BY <1>3, <2>1, <2>2, <2>4, <2>5, AdvanceStep
  <2> QED
    BY <2>2, <2>3, <2>6, WellWhen
<1>4. CASE stage(q) = 7
  <2> DEFINE p == [q EXCEPT !.setup = start, !.status = {"ARMED"}, !.running = TRUE,
                            !.energy = "zero", !.countsFrom = q.startValue]
  <2>1. /\ p.life = q.life /\ p.startStop = q.startStop /\ p.running
        /\ p.setup = start /\ p.startValue = q.startValue /\ p.final = q.final
        /\ p.stopMode = q.stopMode /\ p.countsFrom = q.startValue /\ "READY" \notin p.status
    BY <1>1 DEF Program
  <2>2. setupContinue(q) = [p |-> p, out |-> <<start>>]
    BY <1>1, <1>4, Goes
  <2> HIDE DEF p
  <2>3. Inv(p, l \o <<start>>, h)
    BY <1>4, <2>1, StartStep
  <2> QED
    BY <2>2, <2>3, WellWhen
<1> QED
  BY <1>2, <1>3, <1>4

\* The answers on the way up, and down
LEMMA WellLife ==
  ASSUME NEW q, NEW l, NEW h, Typed(q, l, h), Inv(q, l, h)
  PROVE  /\ Well(l, h, activationContinue(q))
         /\ Well(l, h, deactivationContinue(q))
<1>1. q \in Program /\ l \in Seq(Request) /\ h \in Calculator
  BY DEF Typed
<1> DEFINE r(life) == [q EXCEPT !.life = life]
<1>2. ASSUME NEW life \in {"freeing", "deactivated", "notifier", "active"},
             q.life # "active" \/ q.setup = "off"
      PROVE  Typed(r(life), l, h) /\ Inv(r(life), l, h) /\ r(life).setup = "off"
  <2> DEFINE p == r(life)
  <2>1. /\ p \in Program
        /\ p.startStop = q.startStop /\ p.running = q.running
        /\ p.setup = q.setup /\ p.startValue = q.startValue /\ p.final = q.final /\ p.stopMode = q.stopMode
        /\ p.countsFrom = q.countsFrom /\ p.energy = q.energy /\ p.time = q.time
        /\ p.timeRight = q.timeRight /\ p.result = q.result /\ p.status = q.status
    BY <1>1 DEF Program
  <2> HIDE DEF p
  <2>2. Ready(p)
    BY <2>1 DEF Inv, Ready
  <2>3. Inv(p, l, h) /\ q.setup = "off"
    BY <1>2, <2>1, <2>2, LifeStep
  <2> QED
    BY <1>1, <2>1, <2>3 DEF Typed, p
<1> HIDE DEF r
<1>3. ASSUME q.life # "active" \/ q.setup = "off"
      PROVE  /\ Well(l, h, does(r("deactivated")))
             /\ Well(l, h, andSend(does(r("freeing")), "freeecalcunits"))
             /\ Well(l, h, andSend(does(r("notifier")), "setsecintnotifier"))
             /\ Well(l, h, stopECCalculator(does(r("active"))))
  BY <1>1, <1>2, <1>3, WellNothing, WellSend, WellStop, Harmless
<1>4. freeECalculator(does(q)) = andSend(does(r("freeing")), "freeecalcunits")
  <2>1. does(q).p = q /\ [does(q) EXCEPT !.p = r("freeing")] = does(r("freeing"))
    BY Changes DEF does
  <2> QED
    BY <2>1 DEF freeECalculator, r
<1>5. Well(l, h, activationContinue(q))
  <2>1. CASE q.life = "fetch"
    BY <1>3, <2>1 DEF activationContinue, r
  <2>2. CASE q.life = "notifier"
    BY <1>3, <2>2 DEF activationContinue, r
  <2>3. CASE q.life \notin {"fetch", "notifier"}
    BY <1>1, <2>3, WellNothing DEF activationContinue
  <2> QED
    BY <2>1, <2>2, <2>3
<1>6. Well(l, h, deactivationContinue(q))
  <2>1. CASE q.life = "stopping"
    BY <1>3, <1>4, <2>1 DEF deactivationContinue
  <2>2. CASE q.life = "freeing"
    BY <1>3, <2>2 DEF deactivationContinue, r
  <2>3. CASE q.life \notin {"stopping", "freeing"}
    BY <1>1, <2>3, WellNothing DEF deactivationContinue
  <2> QED
    BY <2>1, <2>2, <2>3
<1> QED
  BY <1>5, <1>6

\* A reading of something final is answered.
LEMMA WellFinal ==
  ASSUME NEW q, NEW l, NEW h, Typed(q, l, h), Inv(q, l, h)
  PROVE  /\ HeadFacts(q, readEnergy, l, h)
              => Well(l, h, interruptContinue([q EXCEPT !.energy = "frozen"]))
         /\ HeadFacts(q, readTime, l, h)
              => Well(l, h, interruptContinue([q EXCEPT !.time = "frozen", !.timeRight = TRUE]))
         /\ HeadFacts(q, resetInt, l, h) /\ ~h.intBit => Well(l, h, interruptContinue(q))
<1>1. q \in Program /\ l \in Seq(Request)
  BY DEF Typed
<1>2. ASSUME HeadFacts(q, readEnergy, l, h)
      PROVE  Well(l, h, interruptContinue([q EXCEPT !.energy = "frozen"]))
  <2> DEFINE r == [q EXCEPT !.energy = "frozen"]
             a == [r EXCEPT !.final = "time", !.running = FALSE, !.startStop = FALSE,
                            !.polling = FALSE, !.status = {"READY"}]
             b == [r EXCEPT !.final = "time", !.status = {"READY"}]
  <2>1. q.final = "energy"
    BY <1>2, Zenon DEF HeadFacts
  <2>2. r \in Program /\ r.final = "energy" /\ r.running = q.running
    BY <1>1, <2>1 DEF Program, Reading
  <2>3. /\ ~a.running /\ a.life = q.life /\ a.setup = q.setup /\ a.final = "time"
        /\ a.startStop = FALSE
        /\ a.stopMode = q.stopMode /\ a.startValue = q.startValue /\ a.countsFrom = q.countsFrom
        /\ a.energy = "frozen"
    BY <1>1 DEF Program
  <2>4. /\ b.running = q.running /\ b.life = q.life /\ b.setup = q.setup /\ b.final = "time"
        /\ b.startStop = q.startStop
        /\ b.stopMode = q.stopMode /\ b.startValue = q.startValue /\ b.countsFrom = q.countsFrom
        /\ b.energy = "frozen"
    BY <1>1 DEF Program
  <2>5. interruptContinue(r) = IF r.running THEN [p |-> a, out |-> Append(<<readTime>>, stop)]
                               ELSE [p |-> b, out |-> <<readTime>>]
    BY <2>2, TimeRead DEF interruptContinue
  <2> HIDE DEF r, a, b
  <2>6. CASE q.running
    <3>1. Inv(a, (l \o <<readTime>>) \o <<stop>>, h)
      BY <1>2, <2>3, <2>6, TimeStep
    <3>2. readTime \in Request /\ stop \in Request
      BY Requests
    <3>3. Inv(a, l \o Append(<<readTime>>, stop), h)
      BY <1>1, <3>1, <3>2, Two
    <3> QED
      BY <2>2, <2>5, <2>6, <3>3, WellWhen DEF r
  <2>7. CASE ~q.running
    <3>1. Inv(b, l \o <<readTime>>, h)
      BY <1>2, <2>4, <2>7, TimeStep
    <3> QED
      BY <2>2, <2>5, <2>7, <3>1, WellWhen DEF r
  <2> QED
    BY <2>6, <2>7
<1>3. ASSUME HeadFacts(q, readTime, l, h)
      PROVE  Well(l, h, interruptContinue([q EXCEPT !.time = "frozen", !.timeRight = TRUE]))
  <2> DEFINE r == [q EXCEPT !.time = "frozen", !.timeRight = TRUE]
             p == [r EXCEPT !.final = "reset"]
  <2>1. q.final = "time" /\ ~q.running /\ q.energy = "frozen"
    BY <1>3, Zenon DEF HeadFacts
  <2>2. r.final = "time"
    BY <1>1, <2>1 DEF Program
  <2>3. /\ ~p.running /\ p.life = q.life /\ p.setup = q.setup /\ p.final = "reset"
        /\ p.startStop = q.startStop
        /\ p.stopMode = q.stopMode /\ p.startValue = q.startValue /\ p.countsFrom = q.countsFrom
        /\ p.energy = "frozen" /\ p.time = "frozen" /\ p.timeRight
    BY <1>1, <2>1 DEF Program
  <2>4. interruptContinue(r) = andSend(does(p), resetInt)
    BY <2>2 DEF interruptContinue, resetInt
  <2> HIDE DEF r, p
  <2>5. Inv(p, l \o <<resetInt>>, h)
    BY <1>3, <2>3, ResetStep
  <2> QED
    BY <2>4, <2>5, WellSend DEF r
<1>4. ASSUME HeadFacts(q, resetInt, l, h), ~h.intBit
      PROVE  Well(l, h, interruptContinue(q))
  <2> DEFINE r == [q EXCEPT !.final = "off"]
             res == [energy |-> r.energy, time |-> r.time, timeRight |-> r.timeRight]
             p == [r EXCEPT !.result = res]
  <2>1. q.final = "reset" /\ ~q.running
    BY <1>4, Zenon DEF HeadFacts
  <2>2. p = setEMResult(r)
    BY DEF setEMResult
  <2>3. r.energy = q.energy /\ r.time = q.time /\ r.timeRight = q.timeRight
    BY <1>1 DEF Program
  <2>4. p.result = res
    <3> HIDE DEF res
    <3> QED
      BY <1>1 DEF Program
  <2>5. res = [energy |-> q.energy, time |-> q.time, timeRight |-> q.timeRight]
    BY <2>3
  <2> HIDE DEF res
  <2>6. /\ ~p.running /\ p.life = q.life /\ p.setup = q.setup /\ p.final = "off"
        /\ p.startStop = q.startStop
        /\ p.stopMode = q.stopMode /\ p.startValue = q.startValue /\ p.countsFrom = q.countsFrom
        /\ p.energy = q.energy /\ p.time = q.time /\ p.timeRight = q.timeRight
    BY <1>1, <2>1 DEF Program
  <2>7. interruptContinue(q) = does(p)
    BY <2>1, <2>2 DEF interruptContinue
  <2> HIDE DEF r, p
  <2>8. Inv(p, l, h)
    BY <1>4, <2>4, <2>5, <2>6, ResultStep
  <2> QED
    BY <1>1, <2>7, <2>8, WellNothing
<1> QED
  BY <1>2, <1>3, <1>4

\* A polled value of a measurement that runs is not its last.
LEMMA WellActual ==
  ASSUME NEW q, NEW l, NEW h, Typed(q, l, h), Inv(q, l, h), hw.phase = h.phase
  PROVE  Well(l, h, does(IF showsActual(q)
                         THEN [q EXCEPT !.status = statusBits(hw), !.energy = counterNow] ELSE q))
<1>1. q \in Program /\ l \in Seq(Request)
  BY DEF Typed
<1>2. CASE ~showsActual(q)
  BY <1>1, <1>2, WellNothing
<1>3. CASE showsActual(q)
  <2> DEFINE bits == statusBits(hw)
             c == counterNow
             p == [q EXCEPT !.status = bits, !.energy = c]
  <2>1. q.running /\ q.final = "off"
    BY <1>3 DEF showsActual
  <2>2. "READY" \notin bits
    BY <2>1 DEF Inv, Measuring, statusBits
  <2> HIDE DEF bits, c
  <2>3. Like(q, p) /\ p.status = bits
    BY <1>1, <2>1 DEF Like, Program
  <2> HIDE DEF p
  <2>4. Ready(p)
    BY <2>2, <2>3 DEF Ready
  <2>5. Well(l, h, does(p))
    BY <1>1, <2>3, <2>4, Frame, WellNothing
  <2> QED
    BY <1>3, <2>5 DEF p, bits, c
<1> QED
  BY <1>2, <1>3

\* The oldest request is answered.
LEMMA WellAnswered ==
  ASSUME NEW q, NEW l, Typed(q, l, hw), Inv(q, l, hw), l # <<>>
  PROVE  Well(Tail(l), carryOut(hw, Head(l)), catchInterfaceAnswer(q, Head(l)))
<1> DEFINE x == Head(l)
           t == Tail(l)
           k == carryOut(hw, x)
<1>1. /\ q \in Program /\ hw \in Calculator /\ x \in Request /\ t \in Seq(Request)
      /\ HeadFacts(q, x, t, hw)
  <2>1. q \in Program /\ l \in Seq(Request) /\ hw \in Calculator
    BY DEF Typed
  <2> QED
    BY <2>1, Answered, Heads
<1>2. CASE x = start
  <2> DEFINE p == [q EXCEPT !.setup = "off", !.polling = TRUE]
  <2>1. k.mode = hw.mode /\ k.phase = "armed" /\ (k.intBit <=> hw.intBit)
    <3>1. k = [hw EXCEPT !.phase = "armed", !.final = IF @ = "zero" THEN @ ELSE "stale"]
      BY <1>2 DEF carryOut, start
    <3> QED
      BY <1>1, <3>1 DEF Calculator
  <2>2. /\ p.life = q.life /\ p.startStop = q.startStop /\ p.running = q.running
        /\ p.setup = "off" /\ p.final = q.final /\ p.stopMode = q.stopMode
        /\ p.startValue = q.startValue /\ p.countsFrom = q.countsFrom
        /\ p.energy = q.energy /\ p.time = q.time /\ p.timeRight = q.timeRight
        /\ p.result = q.result /\ p.status = q.status /\ p \in Program
    BY <1>1 DEF Program
  <2> HIDE DEF p, k
  <2>3. Ready(p)
    BY <2>2 DEF Inv, Ready
  <2>4. stage(q) = 8 /\ Inv(p, t, k)
    BY <1>2, <2>1, <2>2, <2>3, EndStep
  <2>5. setupContinue(q) = [p |-> p, out |-> <<"actualize">>]
    BY <1>1, <2>4, Goes DEF p
  <2>6. Typed(p, t, k)
    BY <1>1, <2>2, Carried DEF Typed, k
  <2>7. Inv(p, t \o <<"actualize">>, k)
    BY <2>4, <2>6, Harmless
  <2>8. catchInterfaceAnswer(q, x) = setupContinue(q)
    BY <1>2 DEF catchInterfaceAnswer, start
  <2> QED
    BY <2>5, <2>7, <2>8, WellWhen DEF k
<1>3. CASE x # start
  <2>1. Typed(q, t, k) /\ Inv(q, t, k)
    BY <1>3, Taken
  <2>2. x # stop => k.phase = hw.phase
    BY <1>1, <1>3, Carried
  <2>3. x # stop => (counting(k) <=> counting(hw))
    BY <2>2 DEF counting
  <2>4. x \in SetupRequest \cup {readEnergy, readTime, resetInt} => HeadFacts(q, x, t, k)
    <3>1. x \in SetupRequest \cup {readEnergy, readTime, resetInt} => x # stop
      BY Numbers
    <3> HIDE DEF x, t, k
    <3> QED
      BY <1>1, <2>2, <2>3, <3>1 DEF HeadFacts
  <2>5. ~counting(hw) /\ hw.phase # "idle" => counterNow = "frozen"
    BY DEF counterNow
  <2>6. CASE x \in SetupRequest
    <3>1. catchInterfaceAnswer(q, x) = setupContinue(q)
      BY <2>6 DEF catchInterfaceAnswer, SetupRequest, start
    <3> QED
      BY <1>3, <2>1, <2>4, <2>6, <3>1, WellSetup
  <2>7. CASE x = readEnergy
    <3>1. catchInterfaceAnswer(q, x) = interruptContinue([q EXCEPT !.energy = counterNow])
      BY <2>7 DEF catchInterfaceAnswer, readEnergy
    <3>2. HeadFacts(q, readEnergy, t, hw) /\ HeadFacts(q, readEnergy, t, k)
      BY <1>1, <2>4, <2>7
    <3>3. counterNow = "frozen"
      BY <2>5, <3>2 DEF HeadFacts
    <3>4. catchInterfaceAnswer(q, x) = interruptContinue([q EXCEPT !.energy = "frozen"])
      BY <3>1, <3>3
    <3> QED
      BY <2>1, <3>2, <3>4, WellFinal
  <2>8. CASE x = readTime
    <3> DEFINE right == q.startValue = q.countsFrom
    <3>1. catchInterfaceAnswer(q, x) =
            interruptContinue([q EXCEPT !.time = counterNow, !.timeRight = right])
      BY <2>8 DEF catchInterfaceAnswer, readTime
    <3>2. HeadFacts(q, readTime, t, hw) /\ HeadFacts(q, readTime, t, k)
      BY <1>1, <2>4, <2>8
    <3>3. counterNow = "frozen" /\ right = TRUE
      BY <2>5, <3>2 DEF HeadFacts
    <3> HIDE DEF right
    <3>4. catchInterfaceAnswer(q, x) =
            interruptContinue([q EXCEPT !.time = "frozen", !.timeRight = TRUE])
      BY <3>1, <3>3
    <3> QED
      BY <2>1, <3>2, <3>4, WellFinal
  <2>9. CASE x = resetInt
    <3>1. catchInterfaceAnswer(q, x) = interruptContinue(q)
      BY <2>9 DEF catchInterfaceAnswer, resetInt
    <3>2. HeadFacts(q, resetInt, t, k) /\ ~k.intBit
      BY <1>1, <2>4, <2>9, Carried
    <3> QED
      BY <2>1, <3>1, <3>2, WellFinal
  <2>10. CASE x = "actualize"
    <3>1. catchInterfaceAnswer(q, x) =
            does(IF showsActual(q)
                 THEN [q EXCEPT !.status = statusBits(hw), !.energy = counterNow] ELSE q)
      BY <2>10 DEF catchInterfaceAnswer
    <3>2. k.phase = hw.phase
      BY <2>2, <2>10 DEF stop
    <3> QED
      BY <2>1, <3>1, <3>2, WellActual
  <2>11. CASE x \in {"fetchecalcunits", "setsecintnotifier"}
    <3>1. catchInterfaceAnswer(q, x) = activationContinue(q)
      BY <2>11 DEF catchInterfaceAnswer
    <3> QED
      BY <2>1, <3>1, WellLife
  <2>12. CASE x \in {"freeecalcunits", stop}
    <3>1. catchInterfaceAnswer(q, x) = deactivationContinue(q)
      BY <2>12 DEF catchInterfaceAnswer, stop
    <3> QED
      BY <2>1, <3>1, WellLife
  <2> QED
    BY <1>1, <2>6, <2>7, <2>8, <2>9, <2>10, <2>11, <2>12, Requests
<1> QED
  BY <1>2, <1>3

-----------------------------------------------------------------------------
(* Every step keeps the invariant *)

LEMMA HoldsBy ==
  ASSUME NEW s, prog' = s.p, line' = line \o s.out, Well(line, hw', s)
  PROVE  Inv(prog, line, hw)'
BY Zenon DEF Well

LEMMA HoldsByWrite ==
  ASSUME NEW s, write(s), UNCHANGED <<hw, refusals>>, Well(line, hw, s)
  PROVE  Inv(prog, line, hw)'
<1>1. hw' = hw /\ prog' = s.p /\ line' = line \o s.out
  BY DEF write, do
<1>2. Well(line, hw', s)
  BY <1>1
<1> QED
  BY <1>1, <1>2, HoldsBy

LEMMA HoldsStep ==
  ASSUME Undisturbed, TypeOK, Inv(prog, line, hw), [Next]_vars
  PROVE  Inv(prog, line, hw)'
<1>1. /\ prog \in Program /\ line \in Seq(Request) /\ hw \in Calculator /\ Typed(prog, line, hw)
      /\ Interference = {} /\ stop \notin Refusable
  BY DEF TypeOK, Typed, Undisturbed
<1>2. stopAllowed => prog.setup = "off"
  BY <1>1 DEF stopAllowed
<1>3. CASE Connected
  <2> DEFINE p == [prog EXCEPT !.life = "fetch"]
             s == andSend(does(p), "fetchecalcunits")
  <2>1. /\ p \in Program
        /\ p.startStop = prog.startStop /\ p.running = prog.running /\ p.setup = prog.setup
        /\ p.final = prog.final /\ p.stopMode = prog.stopMode /\ p.startValue = prog.startValue
        /\ p.countsFrom = prog.countsFrom /\ p.energy = prog.energy /\ p.time = prog.time
        /\ p.timeRight = prog.timeRight /\ p.result = prog.result /\ p.status = prog.status
    BY <1>1 DEF Program
  <2>2. prog.life # "active" /\ hw' = hw /\ prog' = s.p /\ line' = line \o s.out
    BY <1>3 DEF Connected, do
  <2> HIDE DEF p
  <2>3. Ready(p)
    BY <2>1 DEF Inv, Ready
  <2>4. Inv(p, line, hw)
    BY <1>1, <2>1, <2>2, <2>3, LifeStep
  <2>5. Inv(p, line \o <<"fetchecalcunits">>, hw)
    BY <1>1, <2>1, <2>4, Harmless DEF Typed
  <2>6. Well(line, hw', s)
    BY <2>2, <2>5, WellSend
  <2> QED
    BY <2>2, <2>6, HoldsBy
<1>4. CASE Answer
  <2> DEFINE x == Head(line)
             l == Tail(line)
             k == carryOut(hw, x)
             s == catchInterfaceAnswer(prog, x)
  <2>1. line # <<>> /\ prog' = s.p /\ line' = l \o s.out /\ hw' = k
    BY <1>4 DEF Answer
  <2>2. Well(l, k, s)
    BY <1>1, <2>1, WellAnswered
  <2> HIDE DEF l, k, s
  <2> QED
    BY <2>1, <2>2, Zenon DEF Well
<1>5. CASE Refuse
  <2>1. line # <<>> /\ Head(line) # stop /\ line' = Tail(line) /\ prog' = prog /\ hw' = hw
    BY <1>1, <1>5 DEF Refuse
  <2>2. Inv(prog, Tail(line), hw)
    BY <1>1, <2>1, Taken
  <2> QED
    BY <2>1, <2>2
<1>6. CASE FirstTick
  <2>1. prog' = prog /\ line' = line /\ hw' = firstPulse(hw) /\ hw.phase = "armed"
    BY <1>6 DEF FirstTick
  <2>2. /\ hw'.mode = hw.mode /\ hw'.intBit = hw.intBit /\ hw'.phase = "started"
    BY <1>1, <2>1 DEF firstPulse, Calculator
  <2>3. counting(hw') /\ counting(hw) /\ busy(hw') /\ busy(hw)
    BY <2>1, <2>2 DEF counting, busy
  <2>4. SettingUp(prog, line, hw') /\ Measuring(prog, line, hw') /\ SameMode(prog, line, hw')
    BY <2>1, <2>2, <2>3 DEF Inv, SettingUp, Measuring, SameMode
  <2>5. Finishing(prog, line, hw')
    BY <2>1, <2>2, <2>3 DEF Inv, Finishing
  <2>6. Inv(prog, line, hw')
    BY <2>4, <2>5 DEF Inv
  <2> QED
    BY <2>1, <2>6
<1>7. CASE TimeOver
  <2> DEFINE k == countDown(hw)
             r == [prog EXCEPT !.polling = FALSE]
             p == [r EXCEPT !.final = "energy"]
  <2>1. /\ counting(hw) /\ hw' = k
        /\ do(IF hw.intBit THEN does(prog) ELSE handleSECInterrupt(prog))
    BY <1>7 DEF TimeOver, counting
  <2>2. k.mode = hw.mode /\ k.phase = "done"
    <3>1. hw.mode = "SINGLEERRORMASTER"
      BY DEF Inv, Measuring
    <3> QED
      BY <1>1, <3>1 DEF countDown, Calculator
  <2> HIDE DEF k
  <2>3. CASE prog.final # "off"
    <3>1. Inv(prog, line, k)
      BY <2>1, <2>2, <2>3, CountedDown
    <3>2. Well(line, hw', does(prog))
      BY <1>1, <2>1, <3>1, WellNothing
    <3>3. handleSECInterrupt(prog) = does(prog)
      BY <2>3 DEF handleSECInterrupt
    <3> QED
      BY <2>1, <3>2, <3>3, HoldsBy DEF do
  <2>4. CASE prog.final = "off"
    <3>1. /\ ~hw.intBit /\ prog.startValue = prog.countsFrom /\ prog.startValue = prog.stopMode
      BY <2>1, <2>4 DEF Inv, Measuring, SameMode
    <3>2. /\ p.life = prog.life /\ p.startStop = prog.startStop /\ p.running = prog.running
          /\ p.setup = prog.setup /\ p.final = "energy" /\ p.stopMode = prog.stopMode
          /\ p.startValue = prog.startValue /\ p.countsFrom = prog.countsFrom
      BY <1>1 DEF Program
    <3>3. handleSECInterrupt(prog) = [p |-> p, out |-> <<readEnergy>>]
      <4>1. r.final = "off"
        BY <1>1, <2>4 DEF Program
      <4>2. handleSECInterrupt(prog) = startFinal([p |-> r, out |-> <<>>])
        BY <2>4 DEF handleSECInterrupt, does
      <4>3. Append(<<>>, readEnergy) = <<readEnergy>>
        OBVIOUS
      <4> HIDE DEF r
      <4> QED
        BY <4>1, <4>2, <4>3, Finals
    <3> HIDE DEF p
    <3>4. Inv(p, line \o <<readEnergy>>, k)
      BY <1>1, <2>1, <2>2, <2>4, <3>1, <3>2, EnergyStep
    <3>5. Well(line, hw', handleSECInterrupt(prog))
      BY <2>1, <3>3, <3>4, WellWhen
    <3> QED
      BY <2>1, <3>1, <3>5, HoldsBy DEF do
  <2> QED
    BY <2>3, <2>4
<1>8. CASE Poll
  <2> DEFINE s == andSend(does(prog), "actualize")
  <2>1. Inv(prog, line \o <<"actualize">>, hw)
    BY <1>1, Harmless
  <2>2. hw' = hw /\ prog' = s.p /\ line' = line \o s.out
    BY <1>8 DEF Poll, do, Actualize
  <2>3. Well(line, hw', s)
    BY <2>1, <2>2, WellSend
  <2> HIDE DEF s
  <2> QED
    BY <2>2, <2>3, HoldsBy
<1>9. CASE ClientStart
  <2> DEFINE p == [prog EXCEPT !.startStop = TRUE]
             q == [p EXCEPT !.setup = "setsync"]
             s == andSend(does(q), "setsync")
  <2>1. ~prog.startStop /\ UNCHANGED <<hw, refusals>>
    BY <1>9 DEF ClientStart
  <2>2. prog.setup = "off" /\ p.setup = prog.setup
    <3>1. prog.setup = "off"
      BY <2>1 DEF Inv, SettingUp
    <3> QED
      BY <1>1, <3>1 DEF Program
  <2>3. enterSetup(p, setupStates[1]) = s
    BY States DEF enterSetup
  <2>4. write(s)
    BY <1>9, <2>2, <2>3 DEF ClientStart
  <2>5. /\ q.life = prog.life /\ q.startStop /\ q.running = prog.running /\ q.setup = "setsync"
        /\ q.final = prog.final /\ q.stopMode = prog.stopMode /\ q.startValue = prog.startValue
        /\ q.countsFrom = prog.countsFrom /\ q.energy = prog.energy /\ q.time = prog.time
        /\ q.timeRight = prog.timeRight /\ q.result = prog.result /\ q.status = prog.status
    BY <1>1 DEF Program
  <2>6. prog.life = "active"
    BY <2>4 DEF write
  <2> HIDE DEF q
  <2>7. Ready(q)
    BY <2>5 DEF Inv, Ready
  <2>8. Inv(q, line \o <<"setsync">>, hw)
    BY <1>1, <2>1, <2>5, <2>6, <2>7, BeginStep
  <2>9. Well(line, hw, s)
    BY <2>8, WellSend
  <2> HIDE DEF s
  <2> QED
    BY <2>1, <2>4, <2>9, HoldsByWrite
<1>10. CASE ClientStop
  <2> DEFINE q == [prog EXCEPT !.startStop = FALSE]
             p == stopped(q)
             e == [p EXCEPT !.final = "energy"]
  <2>1. /\ prog.setup = "off" /\ prog.startStop /\ UNCHANGED <<hw, refusals>>
        /\ write(IF prog.stopMode = "startstop" THEN startFinal(stopECCalculator(does(q)))
                 ELSE stopECCalculator(does(q)))
    BY <1>1, <1>2, <1>10 DEF ClientStop
  <2>2. prog.running /\ hw.phase # "idle"
    BY <2>1 DEF Inv, SettingUp, Measuring
  <2>3. /\ q \in Program /\ q.running /\ q.setup = prog.setup /\ q.final = prog.final
        /\ q.stopMode = prog.stopMode /\ q.startValue = prog.startValue /\ q.life = prog.life
        /\ q.countsFrom = prog.countsFrom /\ q.energy = prog.energy /\ q.time = prog.time
        /\ q.timeRight = prog.timeRight /\ q.result = prog.result /\ q.status = prog.status
    BY <1>1, <2>2 DEF Program
  <2>4. stopECCalculator(does(q)) = [p |-> p, out |-> <<stop>>]
    <3>1. Append(<<>>, stop) = <<stop>>
      OBVIOUS
    <3> HIDE DEF q
    <3> QED
      BY <2>3, <3>1, Stops DEF does
  <2> HIDE DEF q
  <2>5. /\ ~p.running /\ ~p.startStop /\ p.setup = "off" /\ p.final = prog.final
        /\ p.stopMode = prog.stopMode /\ p.startValue = prog.startValue
        /\ p.countsFrom = prog.countsFrom
        /\ p.energy = prog.energy /\ p.time = prog.time /\ p.timeRight = prog.timeRight
        /\ p.result = prog.result /\ ("READY" \in p.status => "READY" \in prog.status)
        /\ p \in Program
    BY <2>1, <2>3, StoppedIs
  <2> HIDE DEF p
  <2>6. Ready(p)
    BY <2>5 DEF Inv, Ready
  <2>7. Inv(p, line \o <<stop>>, hw)
    BY <1>1, <2>1, <2>2, <2>5, <2>6, StopStep
  <2>8. Well(line, hw, [p |-> p, out |-> <<stop>>])
    BY <2>7, WellWhen
  <2>9. Well(line, hw, startFinal([p |-> p, out |-> <<stop>>]))
    <3>1. CASE prog.final # "off"
      BY <2>5, <2>8, <3>1, Finals
    <3>2. CASE prog.final = "off"
      <4>1. prog.startValue = prog.countsFrom /\ prog.startValue = prog.stopMode
        BY <2>2 DEF Inv, SameMode
      <4>2. /\ e.life = p.life /\ e.startStop = p.startStop /\ e.running = p.running
            /\ e.setup = p.setup /\ e.final = "energy" /\ e.stopMode = p.stopMode
            /\ e.startValue = p.startValue /\ e.countsFrom = p.countsFrom
        BY <2>5 DEF Program
      <4>3. startFinal([p |-> p, out |-> <<stop>>]) = [p |-> e, out |-> Append(<<stop>>, readEnergy)]
        BY <2>5, <3>2, Finals
      <4>4. stop \in Request /\ readEnergy \in Request
        BY Requests
      <4>5. Typed(p, line \o <<stop>>, hw)
        BY <1>1, <2>5, <4>4, More DEF Typed
      <4> HIDE DEF e
      <4>6. Inv(e, (line \o <<stop>>) \o <<readEnergy>>, hw)
        BY <2>2, <2>5, <2>7, <3>2, <4>1, <4>2, <4>5, EnergyStep
      <4>7. Inv(e, line \o Append(<<stop>>, readEnergy), hw)
        BY <1>1, <4>4, <4>6, Two
      <4> QED
        BY <4>3, <4>7, WellWhen
    <3> QED
      BY <3>1, <3>2
  <2> QED
    BY <2>1, <2>4, <2>8, <2>9, HoldsByWrite
<1>11. CASE newStopMode
  <2>1. PICK stopMode \in StopMode : write(does([prog EXCEPT !.stopMode = stopMode]))
    BY <1>11 DEF newStopMode
  <2>2. ~prog.running /\ line = <<>> /\ UNCHANGED <<hw, refusals>>
    BY <1>1, <1>11 DEF newStopMode, modeAllowed
  <2> DEFINE p == [prog EXCEPT !.stopMode = stopMode]
  <2>3. /\ p.life = prog.life /\ p.startStop = prog.startStop /\ p.running = prog.running
        /\ p.setup = prog.setup /\ p.final = prog.final /\ p.startValue = prog.startValue
        /\ p.countsFrom = prog.countsFrom /\ p.energy = prog.energy /\ p.time = prog.time
        /\ p.timeRight = prog.timeRight /\ p.result = prog.result /\ p.status = prog.status
    BY <1>1 DEF Program
  <2>4. write(does(p))
    BY <2>1
  <2> HIDE DEF p
  <2>5. Ready(p)
    BY <2>3 DEF Inv, Ready
  <2>6. Inv(p, line, hw)
    BY <1>1, <2>2, <2>3, <2>5, ModeStep
  <2> QED
    BY <1>1, <2>2, <2>4, <2>6, WellNothing, HoldsByWrite
<1>12. CASE newInput
  <2>1. write(does(setEMResult(prog))) /\ UNCHANGED <<hw, refusals>>
    BY <1>12 DEF newInput
  <2>2. Well(line, hw, does(setEMResult(prog)))
    BY <1>1, WellResult, WellNothing
  <2> QED
    BY <2>1, <2>2, HoldsByWrite
<1>13. CASE onPowerModuleValuesChanged
  <2> DEFINE s == stopECCalculator(does(prog))
             f == [s EXCEPT !.p = setEMResult(s.p)]
  <2>1. prog.setup = "off" /\ (write(s) \/ write(f)) /\ UNCHANGED <<hw, refusals>>
    BY <1>2, <1>13 DEF onPowerModuleValuesChanged
  <2>2. Well(line, hw, s)
    BY <1>1, <2>1, WellStop
  <2>3. s \in Slot
    <3>1. does(prog) \in Slot
      <4>1. <<>> \in Seq(Request)
        OBVIOUS
      <4> QED
        BY <1>1, <4>1 DEF does, Slot
    <3>2. stop \in Request
      BY Requests
    <3> QED
      BY <1>1, <3>1, <3>2, Slots
  <2> HIDE DEF s
  <2>4. f.p = setEMResult(s.p) /\ f.out = s.out /\ s.p \in Program
    BY <2>3 DEF Slot
  <2>5. Well(line, hw, f)
    BY <2>2, <2>4, WellResult DEF Well
  <2> HIDE DEF f
  <2> QED
    BY <2>1, <2>2, <2>5, HoldsByWrite
<1>14. CASE clientActivationChanged
  <2> DEFINE p == [prog EXCEPT !.polling = prog.running]
  <2>1. write(does(p)) /\ UNCHANGED <<hw, refusals>>
    BY <1>14 DEF clientActivationChanged
  <2>2. Like(prog, p) /\ p.status = prog.status /\ p.result = prog.result /\ p.energy = prog.energy
    BY <1>1 DEF Like, Program
  <2> HIDE DEF p
  <2>3. Ready(p)
    BY <2>2 DEF Like, Inv, Ready
  <2>4. Inv(p, line, hw)
    BY <2>2, <2>3, Frame
  <2> QED
    BY <1>1, <2>1, <2>4, WellNothing, HoldsByWrite
<1>15. CASE Deactivate
  <2> DEFINE p == [prog EXCEPT !.life = "stopping"]
             s == IF p.running THEN stopECCalculator(does(p)) ELSE deactivationContinue(p)
  <2>1. prog.setup = "off" /\ do(s) /\ hw' = hw
    BY <1>2, <1>15 DEF Deactivate
  <2>2. /\ p \in Program
        /\ p.startStop = prog.startStop /\ p.running = prog.running /\ p.setup = prog.setup
        /\ p.final = prog.final /\ p.stopMode = prog.stopMode /\ p.startValue = prog.startValue
        /\ p.countsFrom = prog.countsFrom /\ p.energy = prog.energy /\ p.time = prog.time
        /\ p.timeRight = prog.timeRight /\ p.result = prog.result /\ p.status = prog.status
    BY <1>1 DEF Program
  <2> HIDE DEF p
  <2>3. Ready(p)
    BY <2>2 DEF Inv, Ready
  <2>4. Typed(p, line, hw) /\ Inv(p, line, hw) /\ p.setup = "off"
    BY <1>1, <2>1, <2>2, <2>3, LifeStep DEF Typed
  <2>5. Well(line, hw, s)
    BY <2>4, WellStop, WellLife
  <2> HIDE DEF s
  <2>6. Well(line, hw', s)
    BY <2>1, <2>5
  <2> QED
    BY <2>1, <2>6, HoldsBy DEF do
<1>16. CASE UNCHANGED vars
  BY <1>16 DEF vars
<1> QED
  BY <1>3, <1>4, <1>5, <1>6, <1>7, <1>8, <1>9, <1>10, <1>11, <1>12, <1>13, <1>14, <1>15, <1>16
     DEF Next

\* What is shown as ready is final, and of one measurement: as long as stops do not meet a
\* set-up, the mode is left alone while something is under way, clients only stop what
\* runs, and the service does not refuse stops.
THEOREM ReadyIsFinal == Undisturbed => (Spec => []ReadyMeansFinal)
<1> SUFFICES ASSUME Undisturbed
             PROVE  Spec => []ReadyMeansFinal
  OBVIOUS
<1>1. Init => IInv
  <2> SUFFICES ASSUME Init
               PROVE  IInv
    OBVIOUS
  <2>1. Elems(line) = {} /\ \A wrong : InOrder(line, wrong)
    BY Few DEF Init
  <2>2. /\ prog.setup = "off" /\ ~prog.running /\ ~prog.startStop /\ prog.status = {}
        /\ hw.phase = "idle" /\ hw.mode = "SINGLEERRORMASTER" /\ ~hw.intBit
    BY DEF Init, idleCalculator
  <2>3. stage(prog) = 9
    BY <2>2, Numbers DEF stage
  <2>4. SettingUp(prog, line, hw) /\ Finishing(prog, line, hw)
    BY <2>1, <2>2, <2>3 DEF SettingUp, Finishing
  <2>5. Measuring(prog, line, hw) /\ SameMode(prog, line, hw) /\ Ready(prog)
    BY <2>1, <2>2 DEF Measuring, SameMode, Ready, busy, counting
  <2> QED
    BY <2>1, <2>4, <2>5, TypeInit DEF IInv, Inv
<1>2. IInv /\ [Next]_vars => IInv'
  BY HoldsStep, TypeStep DEF IInv
<1>3. IInv => ReadyMeansFinal
  BY DEF IInv, Inv, Ready, ReadyMeansFinal, finalResult
<1> QED
  BY <1>1, <1>2, <1>3, PTL DEF Spec
=============================================================================
