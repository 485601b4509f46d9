-------------------------------- MODULE Sec1 --------------------------------
(***************************************************************************)
(* The measuring program of the error calculator module: activation with   *)
(* two error calculators, set-up and start of a measurement, results by    *)
(* interrupt, sequences of several measurements with or without a pause,   *)
(* continuous measuring, stops, and deactivation.                          *)
(*                                                                         *)
(* Four state machines run over one connection to the SEC service; each of *)
(* them goes on with the answer to its own request, and some answers move  *)
(* machines they are not meant for.  An action is one slot of              *)
(* cSec1ModuleMeasProgram with all it calls.                               *)
(*                                                                         *)
(* Not modelled: demo mode; energies, progress, times and ratings; limits  *)
(* and the conversion between M-rate, target and energy.                   *)
(***************************************************************************)
EXTENDS Naturals, Sequences, ErrorCalculator

CONSTANTS
  Counts,               \* what clients write to PAR_MeasCount
  StoredMax,            \* m_nMulMeasStoredMax
  Interference,         \* "stop": a stop, of whatever reason, may meet a start under way;
                        \* "mode": the mode may be changed during a measurement
  Refusable,            \* the requests the SEC service may refuse
  MaxLine,              \* bound: no polls while so many requests wait for their answers
  MaxResults,           \* bound: no more results in one sequence
  MaxWrites,            \* bound: writes of clients and changes of the power module
  MaxRefusals           \* bound: requests refused by the SEC service

ASSUME Sec1Assumption ==
  /\ Counts \subseteq Nat \ {0}
  /\ StoredMax \in Nat \ {0}
  /\ Interference \subseteq {"stop", "mode"}
  /\ MaxLine \in Nat /\ MaxResults \in Nat /\ MaxWrites \in Nat /\ MaxRefusals \in Nat

VARIABLES
  sec,                  \* the measuring program, see Program
  line,                 \* m_MsgNrCmdList: the requests not answered yet
  hw,                   \* the error calculators
  writes, refusals      \* counters of the bounds

vars == <<sec, line, hw, writes, refusals>>

\* m_startMeasurementMachine.  Starting a machine is a queued call, which is made before
\* anything new arrives: the machine enters its first state at once.  A state sends the request it is named after.
setupStates == <<"setsync", "setmeaspulses", "setmastermux", "setslavemux", "setmastermeasmode",
                 "setslavemeasmode", "enableinterrupt", "startmeasurement">>

Range1(seq) == {seq[i] : i \in DOMAIN seq}

Request == (Range1(setupStates) \ {"setmastermeasmode"})
             \cup {"SINGLEERRORMASTER", "CONTERRORMASTER", "fetchecalcunits", "setsecintnotifier",
                   "stopmeas", "freeecalcunits", "readfinalenegrycounter", "resetintregister",
                   "actualize"}

StatusBit == {"ARMED", "STARTED", "READY", "ABORT", "WAIT"}

Program ==
  [life : {"connect", "fetch", "notifier", "active", "stopping", "freeing", "deactivated"},
   running : BOOLEAN,                     \* m_bMeasurementRunning
   status : SUBSET StatusBit,             \* ACT_Status
   startStop : BOOLEAN,                   \* PAR_StartStop
   continuous : BOOLEAN,                  \* PAR_Continuous
   hk : BOOLEAN,                          \* PAR_DutInput is a hand key (HK)
   count : Counts,                        \* PAR_MeasCount
   pause : BOOLEAN,                       \* PAR_MeasWait is not 0
   toGo : Nat, measNo : Nat,              \* m_nMeasurementsToGo, m_nMeasurementNo
   final : FinalCount,                    \* m_finalEnergyCounter
   result : FinalCount,                   \* the count behind ACT_Result
   stored : Seq(FinalCount),              \* m_multipleResultHelper: ... behind each result
   setup : {"off"} \cup Range1(setupStates),
   interrupt : {"off", "read", "reset"},
   polling : BOOLEAN,                     \* m_ActualizeTimer
   waiting : BOOLEAN]                     \* m_WaitMultiTimer

Init ==
  /\ \E continuous, hk \in BOOLEAN, count \in Counts, pause \in BOOLEAN :
       sec = [life |-> "connect", running |-> FALSE, status |-> {}, startStop |-> FALSE,
              continuous |-> continuous, hk |-> hk, count |-> count, pause |-> pause,
              toGo |-> 0, measNo |-> 0, final |-> "zero", result |-> "zero", stored |-> <<>>,
              setup |-> "off", interrupt |-> "off", polling |-> FALSE, waiting |-> FALSE]
  /\ line = <<>>
  /\ hw = idleCalculator
  /\ writes = 0 /\ refusals = 0

-----------------------------------------------------------------------------
(* What the slots do: operators on [p |-> program, out |-> requests sent]. *)

does(p) == [p |-> p, out |-> <<>>]
andSend(s, request) == [s EXCEPT !.out = Append(@, request)]

stopECCalculator(p) ==
  andSend(does([p EXCEPT !.running = FALSE, !.startStop = FALSE,
                         !.polling = FALSE, !.waiting = FALSE]), "stopmeas")

measuring(p) == p.running /\ "WAIT" \notin p.status

\* Status, progress and energy are read together; the latter two are not modelled.
Actualize(s) == IF measuring(s.p) THEN andSend(s, "actualize") ELSE s

\* resetPowerAndEnergy included
startMeasurementDone(s) == Actualize([s EXCEPT !.p = [@ EXCEPT !.final = "zero", !.polling = TRUE]])

startNext(p) ==
  LET stopped == andSend(does([p EXCEPT !.status = {"ARMED", "READY"}]), "stopmeas")
  IN  startMeasurementDone(andSend(stopped, "startmeasurement"))

\* The state after the present one; the final state of the machine ends it.
setupNext(state) ==
  LET i == CHOOSE i \in DOMAIN setupStates : setupStates[i] = state
  IN  IF i = Len(setupStates) THEN "off" ELSE setupStates[i + 1]

masterMeasMode(p) ==
  IF ~p.continuous \/ p.hk THEN "SINGLEERRORMASTER" ELSE "CONTERRORMASTER"

enterSetup(p, state) ==
  LET entered == [p EXCEPT !.setup = state]
  IN  CASE state = "off" -> startMeasurementDone(does(entered))
        [] state = "startmeasurement" ->
             andSend(does([entered EXCEPT !.status = {"ARMED"}, !.running = TRUE]), state)
        [] state = "setmastermeasmode" -> andSend(does(entered), masterMeasMode(p))
        [] OTHER -> andSend(does(entered), state)

\* The signal that every answer to a request of the set-up emits.
setupContinue(p) ==
  IF p.setup = "off" THEN does(p) ELSE enterSetup(p, setupNext(p.setup))

\* ... and every answer to a stop: it is meant for the deactivation.
deactivationContinue(p) ==
  CASE p.life = "stopping" -> andSend(does([p EXCEPT !.life = "freeing"]), "freeecalcunits")
    [] p.life = "freeing" -> does([p EXCEPT !.life = "deactivated"])
    [] OTHER -> does(p)

activationContinue(p) ==
  CASE p.life = "fetch" -> andSend(does([p EXCEPT !.life = "notifier"]), "setsecintnotifier")
    [] p.life = "notifier" -> stopECCalculator([p EXCEPT !.life = "active"])  \* new power module
    [] OTHER -> does(p)

setECResult(p) == [p EXCEPT !.result = p.final]

\* Does a further result fit in m_multipleResultHelper?  Faulty: always
storesMoreAlways(p) == TRUE

storesMore(p) == Len(p.stored) < StoredMax

\* Faulty: an abort is not noticed
finishedUnchecked(p) == TRUE

\* Is this interrupt the end of a measurement, and not of one that was stopped meanwhile?
finished(p) == p.running

setECResultAndResetInt(p) ==
  LET ready == [p EXCEPT !.status = {"READY"} \cup (IF p.continuous THEN {"STARTED"} ELSE {}),
                         !.measNo = @ + 1,
                         !.stored = IF storesMore(p) THEN Append(@, p.final) ELSE @]
  IN  andSend(does(IF finished(p) THEN setECResult(ready) ELSE p), "resetintregister")

\* Faulty: one measurement is missed
restartsOneLess(toGo) == toGo > 1

restarts(toGo) == toGo > 0

\* Faulty: the sequence is left running
endSequenceLater(p) == does(p)

endSequence(p) == stopECCalculator(p)

checkForRestart(p) ==
  LET counted == [p EXCEPT !.toGo = IF @ > 0 THEN @ - 1 ELSE 0]
      next(q) == IF q.hk \/ q.continuous \/ ~q.pause
                 THEN startNext(q)
                 ELSE does([q EXCEPT !.status = {"READY", "WAIT"}, !.waiting = TRUE])
  IN  CASE ~p.running \/ (p.continuous /\ ~p.hk) -> does(p)
        [] p.running /\ p.continuous /\ p.hk -> next(p)
        [] p.running /\ ~p.continuous /\ restarts(counted.toGo) -> next(counted)
        [] OTHER -> endSequence(counted)

interruptContinue(p) ==
  CASE p.interrupt = "read" -> setECResultAndResetInt([p EXCEPT !.interrupt = "reset"])
    [] p.interrupt = "reset" -> checkForRestart([p EXCEPT !.interrupt = "off"])
    [] OTHER -> does(p)

handleSECInterrupt(p) ==
  IF p.interrupt = "off"
  THEN andSend(does([p EXCEPT !.interrupt = "read"]), "readfinalenegrycounter") ELSE does(p)

\* Faulty: a count read after a stop is kept
readFinalUnchecked(p) == [p EXCEPT !.final = hw.final]

\* All stops latch incomplete counts: these are not for results.
readFinal(p) == IF p.running THEN [p EXCEPT !.final = hw.final] ELSE p

\* A positive answer.
catchInterfaceAnswer(p, request) ==
  CASE request = "fetchecalcunits" \/ request = "setsecintnotifier" -> activationContinue(p)
    [] request = "freeecalcunits" \/ request = "stopmeas" -> deactivationContinue(p)
    [] request = "actualize" ->
         does(IF measuring(p)
              THEN [p EXCEPT !.status = (@ \cap {"READY"}) \cup statusBits(hw)] ELSE p)
    [] request = "readfinalenegrycounter" ->
         interruptContinue(readFinal(p))
    [] request = "resetintregister" -> interruptContinue(p)
    [] OTHER -> setupContinue(p)

-----------------------------------------------------------------------------
(* Actions *)

alive == sec.life # "deactivated"

do(s) == sec' = s.p /\ line' = line \o s.out

Connected ==
  /\ sec.life = "connect"
  /\ do(andSend(does([sec EXCEPT !.life = "fetch"]), "fetchecalcunits"))
  /\ UNCHANGED <<hw, writes, refusals>>

\* The service has carried out the oldest request.
Answer ==
  /\ alive /\ line # <<>>
  /\ \E s \in {catchInterfaceAnswer(sec, Head(line))} :
       sec' = s.p /\ line' = Tail(line) \o s.out
  /\ hw' = carryOut(hw, Head(line))
  /\ UNCHANGED <<writes, refusals>>

\* It has not: every error ends in notifyError, and the machine that sent the request stays.
Refuse ==
  /\ alive /\ line # <<>> /\ Head(line) \in Refusable /\ refusals < MaxRefusals
  /\ line' = Tail(line)
  /\ refusals' = refusals + 1
  /\ UNCHANGED <<sec, hw, writes>>

FirstPulse ==
  /\ hw.phase = "armed"
  /\ hw' = firstPulse(hw)
  /\ UNCHANGED <<sec, line, writes, refusals>>

\* The last pulse; the service passes the interrupt on unless the one before is not reset.
LastPulse ==
  /\ alive /\ hw.phase = "started" /\ sec.measNo < MaxResults
  /\ hw' = countDown(hw)
  /\ do(IF hw.intBit THEN does(sec) ELSE handleSECInterrupt(sec))
  /\ UNCHANGED <<writes, refusals>>

Poll ==
  /\ alive /\ sec.polling /\ measuring(sec) /\ Len(line) < MaxLine
  /\ do(Actualize(does(sec)))
  /\ UNCHANGED <<hw, writes, refusals>>

WaitOver ==
  /\ alive /\ sec.waiting
  /\ do(startNext([sec EXCEPT !.waiting = FALSE]))
  /\ UNCHANGED <<hw, writes, refusals>>

write(s) == sec.life = "active" /\ writes < MaxWrites /\ writes' = writes + 1 /\ do(s)

stopAllowed == sec.setup = "off" \/ "stop" \in Interference
modeAllowed == sec.setup = "off" /\ (sec.running => "mode" \in Interference)

\* newStartStop: clients start a measurement when PAR_StartStop shows that none is running.
ClientStart ==
  /\ ~sec.startStop
  /\ \E count \in Counts, pause \in BOOLEAN :
       LET p == [sec EXCEPT !.startStop = TRUE, !.count = count, !.pause = pause,
                            !.toGo = count, !.measNo = 0, !.stored = <<>>]
       IN  write(IF p.setup = "off" THEN enterSetup(p, setupStates[1]) ELSE does(p))
  /\ UNCHANGED <<hw, refusals>>

ClientStop ==
  /\ stopAllowed
  /\ write(stopECCalculator(IF sec.running THEN [sec EXCEPT !.status = {"ABORT"}] ELSE sec))
  /\ UNCHANGED <<hw, refusals>>

\* PAR_Continuous is read where it is needed; newDutInput.
ClientSetsMode ==
  /\ modeAllowed
  /\ \E continuous, hk \in BOOLEAN :
       /\ <<continuous, hk>> # <<sec.continuous, sec.hk>>
       /\ write(does([sec EXCEPT !.continuous = continuous, !.hk = hk]))
  /\ UNCHANGED <<hw, refusals>>

newDutConstant ==
  /\ write(does(IF ~sec.running /\ sec.final # "zero" THEN setECResult(sec) ELSE sec))
  /\ UNCHANGED <<hw, refusals>>

newDutConstantUnit ==
  /\ LET recalc == {"READY"} \cup (IF sec.continuous THEN {"ABORT"} ELSE {})
     IN  write(does(IF sec.status \cap recalc # {} THEN setECResult(sec) ELSE sec))
  /\ UNCHANGED <<hw, refusals>>

onPowerModuleValuesChanged ==
  /\ stopAllowed
  /\ write(stopECCalculator(sec))
  /\ UNCHANGED <<hw, refusals>>

clientActivationChanged ==
  /\ write(does([sec EXCEPT !.polling = sec.running]))
  /\ UNCHANGED <<hw, refusals>>

Deactivate ==
  /\ sec.life = "active" /\ stopAllowed
  /\ do(stopECCalculator([sec EXCEPT !.life = "stopping"]))
  /\ UNCHANGED <<hw, writes, refusals>>

Works == Connected \/ Answer \/ FirstPulse \/ LastPulse \/ WaitOver

Next ==
  \/ Works \/ Refuse \/ Poll
  \/ ClientStart \/ ClientStop \/ ClientSetsMode \/ newDutConstant \/ newDutConstantUnit
  \/ onPowerModuleValuesChanged \/ clientActivationChanged \/ Deactivate

Spec == Init /\ [][Next]_vars

\* The service answers, timers expire, the event loop runs and pulses come; nobody has to
\* write or poll, and the service may refuse.
FairSpec ==
  /\ Spec
  /\ WF_vars(Connected) /\ WF_vars(Answer) /\ WF_vars(FirstPulse) /\ WF_vars(LastPulse) /\ WF_vars(WaitOver)

-----------------------------------------------------------------------------
(* Properties *)

\* Every variable has its type, and the bounds hold.
TypeOK ==
  /\ sec \in Program /\ Len(sec.stored) <= StoredMax
  /\ line \in Seq(Request)
  /\ hw \in Calculator
  /\ writes \in 0 .. MaxWrites /\ refusals \in 0 .. MaxRefusals

\* Neither a stored result nor the one shown comes from a count that a stop cut off or
\* that belongs to a measurement before ("Crap results"), whenever the stop, the
\* interrupt and the changes of the DUT constant meet.
ResultsAreComplete ==
  /\ sec.result \in {"zero", "complete"}
  /\ \A i \in DOMAIN sec.stored : sec.stored[i] = "complete"

\* Without a measurement the status stays as it is, an abort above all: no late answer
\* and no late interrupt changes it.  Only a new measurement does.
StatusRests == [][~sec.running /\ sec'.status # sec.status => sec'.running]_vars

\* A sequence that ends by itself has all the results asked for.
SequencesAreWhole ==
  [][sec.interrupt = "reset" /\ sec'.interrupt = "off" /\ sec.running /\ ~sec'.running
       => sec'.measNo >= sec.count]_vars

\* As long as the service refuses nothing, single measurements and sequences end by
\* themselves, and so does a deactivation.
EverythingEnds ==
  /\ [](refusals = 0 /\ ~sec.continuous) => (sec.startStop ~> ~sec.startStop)
  /\ [](refusals = 0) => (sec.life = "stopping" ~> sec.life = "deactivated")
=============================================================================
