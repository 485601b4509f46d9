------------------------------- MODULE SemSpm -------------------------------
(***************************************************************************)
(* The measuring program that the energy (SEM) and power (SPM) error       *)
(* modules share: a measurement over a fixed time, ended by the interrupt  *)
(* of the error calculators, or one from start to stop, ended by the user. *)
(* Either end runs m_finalResultStateMachine: final energy, final time,    *)
(* reset of the interrupt, result.                                         *)
(*                                                                         *)
(* An action is one slot of SemSpmModuleMeasProgram with all it calls; the *)
(* connection to the SEC service is that of Sec1.  Energy, power and time  *)
(* are abstracted to where they come from.                                 *)
(*                                                                         *)
(* Not modelled: demo mode, ratings, limits, units, the expansion of the   *)
(* energy counter to 64 bits.                                              *)
(***************************************************************************)
EXTENDS Naturals, Sequences, ErrorCalculator

CONSTANTS
  Interference,         \* "stop": a stop, of whatever reason, may meet a start under way;
                        \* "mode": the stop mode may be changed while something is under way;
                        \* "repeat": clients may write a stop when nothing measures
  Refusable,            \* the requests the SEC service may refuse
  MaxLine,              \* bound: no polls while so many requests wait for their answers
  MaxWrites,            \* bound: writes of clients and changes of the power module
  MaxRefusals           \* bound: requests refused by the SEC service

ASSUME SemSpmAssumption ==
  /\ Interference \subseteq {"stop", "mode", "repeat"}
  /\ MaxLine \in Nat /\ MaxWrites \in Nat /\ MaxRefusals \in Nat

VARIABLES
  prog,                 \* the measuring program, see Program
  line,                 \* m_MsgNrCmdList: the requests not answered yet
  hw,                   \* the error calculators
  writes, refusals      \* counters of the bounds

vars == <<prog, line, hw, writes, refusals>>

\* m_startMeasurementMachine; a state sends the request it is named after.
setupStates == <<"setsync", "setmeaspulses", "setmastermux", "setslavemux", "setmastermeasmode",
                 "setslavemeasmode", "enableinterrupt", "startmeasurement">>

SetupState == {setupStates[i] : i \in DOMAIN setupStates}

Request == (SetupState \ {"setmastermeasmode"})
             \cup {"SINGLEERRORMASTER", "fetchecalcunits", "setsecintnotifier", "stopmeas",
                   "freeecalcunits", "readfinalenegrycount", "readfinaltimecount",
                   "resetintregister", "actualize"}

StopMode == {"timed", "startstop"}
Reading == {"zero", "moving", "frozen"}   \* a counter before, during and after a measurement

Program ==
  [life : {"connect", "fetch", "notifier", "active", "stopping", "freeing", "deactivated"},
   running : BOOLEAN,                            \* m_bMeasurementRunning
   status : SUBSET {"ARMED", "STARTED", "READY", "ABORT"},
   startStop : BOOLEAN,                          \* PAR_StartStop
   stopMode : StopMode,                          \* PAR_Targeted and its configuration
   startValue : StopMode,                        \* m_masterStartCountValue
   setup : {"off"} \cup SetupState,
   final : {"off", "energy", "time", "reset"},   \* m_finalResultStateMachine
   polling : BOOLEAN,                            \* m_ActualizeTimer
   energy : Reading,                             \* m_uint32BitExpander
   countsFrom : StopMode,                        \* the start value of the last measurement
   time : Reading, timeRight : BOOLEAN,          \* m_fTimeSecondsFinal: read when, counted
                                                 \* from its own measurement's start value?
   result : [energy : Reading, time : Reading, timeRight : BOOLEAN]]

Init ==
  /\ \E stopMode \in StopMode :
       prog = [life |-> "connect", running |-> FALSE, status |-> {}, startStop |-> FALSE,
               stopMode |-> stopMode, startValue |-> stopMode, setup |-> "off", final |-> "off",
               polling |-> FALSE, energy |-> "zero", countsFrom |-> stopMode,
               time |-> "zero", timeRight |-> TRUE,
               result |-> [energy |-> "zero", time |-> "zero", timeRight |-> TRUE]]
  /\ line = <<>>
  /\ hw = idleCalculator
  /\ writes = 0 /\ refusals = 0

-----------------------------------------------------------------------------
(* What the slots do: operators on [p |-> program, out |-> requests sent]. *)

does(p) == [p |-> p, out |-> <<>>]
andSend(s, request) == [s EXCEPT !.out = Append(@, request)]

\* Faulty: the calculators are not told
stopHere(s) ==
  IF ~s.p.running THEN s
  ELSE [s EXCEPT !.p = [@ EXCEPT !.running = FALSE, !.startStop = FALSE, !.polling = FALSE]]

stopECCalculator(s) ==
  IF ~s.p.running THEN s
  ELSE LET cutOff == s.p.stopMode = "timed" /\ s.p.status \cap {"ARMED", "STARTED"} # {}
           status == IF cutOff THEN {"ABORT"} ELSE s.p.status
       IN  andSend([s EXCEPT !.p = [@ EXCEPT !.running = FALSE, !.startStop = FALSE,
                                             !.polling = FALSE, !.status = status]],
                   "stopmeas")

Actualize(s) == andSend(s, "actualize")

startMeasurementDone(s) == Actualize([s EXCEPT !.p = [@ EXCEPT !.polling = TRUE]])

\* Faulty: the machine does not end
setupNextStays(state) ==
  LET i == CHOOSE i \in DOMAIN setupStates : setupStates[i] = state
  IN  IF i = Len(setupStates) THEN "done" ELSE setupStates[i + 1]

setupNext(state) ==
  LET i == CHOOSE i \in DOMAIN setupStates : setupStates[i] = state
  IN  IF i = Len(setupStates) THEN "off" ELSE setupStates[i + 1]

enterSetup(p, state) ==
  LET entered == [p EXCEPT !.setup = state]
  IN  CASE state = "off" -> startMeasurementDone(does(entered))
        [] state = "startmeasurement" ->
             andSend(does([entered EXCEPT !.status = {"ARMED"}, !.running = TRUE,
                                          !.energy = "zero", !.countsFrom = p.startValue]), state)
        [] state = "setmeaspulses" -> andSend(does([entered EXCEPT !.startValue = p.stopMode]), state)
        [] state = "setmastermeasmode" -> andSend(does(entered), "SINGLEERRORMASTER")
        [] OTHER -> andSend(does(entered), state)

setupContinue(p) == IF p.setup = "off" THEN does(p) ELSE enterSetup(p, setupNext(p.setup))

freeECalculator(s) == andSend([s EXCEPT !.p = [@ EXCEPT !.life = "freeing"]], "freeecalcunits")

\* Faulty: waits for the answer to a stop only
deactivationContinueOnce(p) == IF p.life = "stopping" THEN freeECalculator(does(p)) ELSE does(p)

deactivationContinue(p) ==
  CASE p.life = "stopping" -> freeECalculator(does(p))
    [] p.life = "freeing" -> does([p EXCEPT !.life = "deactivated"])
    [] OTHER -> does(p)

\* activationDone stops a measurement that cannot run yet.
activationContinue(p) ==
  CASE p.life = "fetch" -> andSend(does([p EXCEPT !.life = "notifier"]), "setsecintnotifier")
    [] p.life = "notifier" -> stopECCalculator(does([p EXCEPT !.life = "active"]))
    [] OTHER -> does(p)

setEMResult(p) ==
  [p EXCEPT !.result = [energy |-> p.energy, time |-> p.time, timeRight |-> p.timeRight]]

\* m_finalResultStateMachine: enters its first state, if it is not running.
startFinal(s) ==
  IF s.p.final # "off" THEN s
  ELSE andSend([s EXCEPT !.p = [@ EXCEPT !.final = "energy"]], "readfinalenegrycount")

readFinalTimeCounter(p) ==
  [stopECCalculator(andSend(does([p EXCEPT !.final = "time"]), "readfinaltimecount"))
     EXCEPT !.p = [@ EXCEPT !.status = {"READY"}]]

interruptContinue(p) ==
  CASE p.final = "energy" -> readFinalTimeCounter(p)
    [] p.final = "time" -> andSend(does([p EXCEPT !.final = "reset"]), "resetintregister")
    [] p.final = "reset" -> does(setEMResult([p EXCEPT !.final = "off"]))
    [] OTHER -> does(p)

handleSECInterrupt(p) ==
  IF p.final = "off" THEN startFinal(does([p EXCEPT !.polling = FALSE])) ELSE does(p)

\* The register MTCNTact of the master (time) and the slave (energy).
counterNow == IF hw.phase = "idle" THEN "zero" ELSE IF counting(hw) THEN "moving" ELSE "frozen"

\* Values are kept on a pending abort, and those after the final ones are ignored.
showsActual(p) == p.running /\ p.final = "off"

\* A positive answer.
catchInterfaceAnswer(p, request) ==
  CASE request = "fetchecalcunits" \/ request = "setsecintnotifier" -> activationContinue(p)
    [] request = "freeecalcunits" \/ request = "stopmeas" -> deactivationContinue(p)
    [] request = "actualize" ->
         does(IF showsActual(p)
              THEN [p EXCEPT !.status = statusBits(hw), !.energy = counterNow] ELSE p)
    [] request = "readfinalenegrycount" -> interruptContinue([p EXCEPT !.energy = counterNow])
    [] request = "readfinaltimecount" ->
         interruptContinue([p EXCEPT !.time = counterNow, !.timeRight = p.startValue = p.countsFrom])
    [] request = "resetintregister" -> interruptContinue(p)
    [] OTHER -> setupContinue(p)

-----------------------------------------------------------------------------
(* Actions *)

alive == prog.life # "deactivated"

do(s) == prog' = s.p /\ line' = line \o s.out

Connected ==
  /\ prog.life = "connect"
  /\ do(andSend(does([prog EXCEPT !.life = "fetch"]), "fetchecalcunits"))
  /\ UNCHANGED <<hw, writes, refusals>>

\* The service has carried out the oldest request.
Answer ==
  /\ alive /\ line # <<>>
  /\ \E s \in {catchInterfaceAnswer(prog, Head(line))} :
       prog' = s.p /\ line' = Tail(line) \o s.out
  /\ hw' = carryOut(hw, Head(line))
  /\ UNCHANGED <<writes, refusals>>

\* It has not: every error ends in notifyError, and the machine that sent the request stays.
Refuse ==
  /\ alive /\ line # <<>> /\ Head(line) \in Refusable /\ refusals < MaxRefusals
  /\ line' = Tail(line)
  /\ refusals' = refusals + 1
  /\ UNCHANGED <<prog, hw, writes>>

FirstTick ==
  /\ hw.phase = "armed"
  /\ hw' = firstPulse(hw)
  /\ UNCHANGED <<prog, line, writes, refusals>>

\* The set time is over.  From start to stop the counter starts so high that the user stops
\* first.
TimeOver ==
  /\ alive /\ hw.phase = "started" /\ prog.countsFrom = "timed"
  /\ hw' = countDown(hw)
  /\ do(IF hw.intBit THEN does(prog) ELSE handleSECInterrupt(prog))
  /\ UNCHANGED <<writes, refusals>>

Poll ==
  /\ alive /\ prog.polling /\ Len(line) < MaxLine
  /\ do(Actualize(does(prog)))
  /\ UNCHANGED <<hw, writes, refusals>>

write(s) == prog.life = "active" /\ writes < MaxWrites /\ writes' = writes + 1 /\ do(s)

stopAllowed == prog.setup = "off" \/ "stop" \in Interference
modeAllowed == (prog.running \/ line # <<>>) => "mode" \in Interference

\* newStartStop: clients start a measurement when PAR_StartStop shows that none is running.
ClientStart ==
  /\ ~prog.startStop
  /\ LET p == [prog EXCEPT !.startStop = TRUE]
     IN  write(IF p.setup = "off" THEN enterSetup(p, setupStates[1]) ELSE does(p))
  /\ UNCHANGED <<hw, refusals>>

\* From start to stop the stop is treated like the interrupt.
ClientStop ==
  /\ stopAllowed
  /\ prog.startStop \/ "repeat" \in Interference
  /\ LET stopped == stopECCalculator(does([prog EXCEPT !.startStop = FALSE]))
     IN  write(IF prog.stopMode = "startstop" THEN startFinal(stopped) ELSE stopped)
  /\ UNCHANGED <<hw, refusals>>

newStopMode ==
  /\ modeAllowed
  /\ \E stopMode \in StopMode \ {prog.stopMode} : write(does([prog EXCEPT !.stopMode = stopMode]))
  /\ UNCHANGED <<hw, refusals>>

\* newT0Input, newT1Input; newUnit as far as it computes the result anew.
newInput ==
  /\ write(does(setEMResult(prog)))
  /\ UNCHANGED <<hw, refusals>>

\* setUnits: a finished result is shown in the new unit.
onPowerModuleValuesChanged ==
  /\ stopAllowed
  /\ LET s == stopECCalculator(does(prog))
     IN  write(IF "READY" \in s.p.status THEN [s EXCEPT !.p = setEMResult(s.p)] ELSE s)
  /\ UNCHANGED <<hw, refusals>>

clientActivationChanged ==
  /\ write(does([prog EXCEPT !.polling = prog.running]))
  /\ UNCHANGED <<hw, refusals>>

\* stopECCalculatorForCleanup
Deactivate ==
  /\ prog.life = "active" /\ stopAllowed
  /\ LET p == [prog EXCEPT !.life = "stopping"]
     IN  do(IF p.running THEN stopECCalculator(does(p)) ELSE deactivationContinue(p))
  /\ UNCHANGED <<hw, writes, refusals>>

Next ==
  \/ Connected \/ Answer \/ Refuse \/ FirstTick \/ TimeOver \/ Poll
  \/ ClientStart \/ ClientStop \/ newStopMode \/ newInput
  \/ onPowerModuleValuesChanged \/ clientActivationChanged \/ Deactivate

Spec == Init /\ [][Next]_vars

\* The service answers and time passes; nobody has to write or poll.
FairSpec ==
  Spec /\ WF_vars(Connected) /\ WF_vars(Answer) /\ WF_vars(FirstTick) /\ WF_vars(TimeOver)

-----------------------------------------------------------------------------
(* Properties *)

\* Every variable has its type, and the bounds hold.
TypeOK ==
  /\ prog \in Program
  /\ line \in Seq(Request)
  /\ hw \in Calculator
  /\ writes \in 0 .. MaxWrites /\ refusals \in 0 .. MaxRefusals

\* Once a measurement is shown as ready, its result is made of the final energy and the
\* final time of one and the same measurement, not of values read on the way, or of a
\* time counted from the start value of the next measurement.
ReadyMeansFinal ==
  "READY" \in prog.status /\ prog.final = "off" =>
    prog.result = [energy |-> "frozen", time |-> "frozen", timeRight |-> TRUE]

\* As long as the service refuses nothing: a timed measurement ends by itself, the end of
\* any measurement has a result, and a deactivation ends.
EverythingEnds ==
  [](refusals = 0) =>
    /\ (prog.startStop /\ prog.countsFrom = "timed" /\ prog.running) ~> ~prog.running
    /\ prog.final # "off" ~> prog.final = "off" \/ ~alive
    /\ prog.life = "stopping" ~> ~alive
=============================================================================
