----------------------------- MODULE MeasProgram -----------------------------
(***************************************************************************)
(* The activists of the modules: the measuring programs of the DSP and     *)
(* power modules, the initialisation of status and mode module, the        *)
(* channels, ranges and corrections of the range and reference modules.    *)
(* Activation, data acquisition on DSP interrupts, reading again of what a *)
(* notification says has changed, writing of corrections to the DSP, and   *)
(* deactivation.                                                           *)
(*                                                                         *)
(* An activist is up to four state machines (QStateMachine) and an         *)
(* acquisition.  Answers of the services become signals, and a signal      *)
(* moves EVERY running machine that waits for it: activationContinue       *)
(* serves the activation, the machine that reads ("query") and the one     *)
(* that writes ("write").                                                  *)
(*                                                                         *)
(* Not modelled: variable and command lists, actual values, lists of modes *)
(* and phases, prescaling, moving windows, the measurement of the SFC      *)
(* module, all data but what a query reads and what is written to the DSP. *)
(***************************************************************************)
EXTENDS Naturals, FiniteSets, Sequences, SequencesExt

CONSTANTS
  Programs,             \* the activists to look at
  Channels,             \* the measuring channels of a power module
  FreqOutputs,          \* its frequency outputs; modules without any are looked at, too
  Ranges,               \* how many ranges a channel of the range module has
  Interference,         \* "early": what is read may change while the activation is under way;
                        \* "again": ... while status or range channel read it, and channels
                        \* are read for the next adjustment while the last one is written;
                        \* "aside": then the status module may get other notifications
  MaxChanges,           \* bound: changes of what a query reads
  MaxInterrupts,        \* bound: interrupts of the DSP and other notifications
  MaxRefusals           \* bound: requests refused by the services

ASSUME MeasProgramAssumption ==
  /\ Interference \subseteq {"early", "again", "aside"}
  /\ Ranges \in Nat \ {0}
  /\ IsFiniteSet(Channels) /\ Channels # {}
  /\ IsFiniteSet(FreqOutputs)
  /\ MaxChanges \in Nat /\ MaxInterrupts \in Nat /\ MaxRefusals \in Nat

VARIABLES
  p,                    \* the activist and its module, see Activist
  asked, told,          \* connection -> requests to the service, messages from it
  actual,               \* item -> how often it has changed
  used,                 \* item -> which of its values is published or written to the DSP
  watched,              \* item -> the number its changes are notified with, 0: they are not
  claimed,              \* frequency outputs claimed from the resource manager
  carried,              \* <<connection, request>>: what the services have carried out
  spent                 \* counters of the bounds

vars == <<p, asked, told, actual, used, watched, claimed, carried, spent>>

Machine == {"activation", "deactivation", "query", "write"}
power(q) == q.program \in {"power1", "power2"}

\* What queries read: the upper range values or gain corrections of channels, the list of
\* ranges of a channel and the checksum of the adjustment.  "scale": the gain scales that
\* follow from the ranges.
Item == Channels \cup {"ranges", "chksum", "scale"}
Connection == {"rm", "dsp", "pcb", "sec"} \cup Channels \cup FreqOutputs

-----------------------------------------------------------------------------
(* The state machines, as sets of transitions <<state, signal, state>>.  A *)
(* state is named after the slot that is called when it is entered.        *)

connects == {"dspserverConnect", "resourceManagerConnect", "pcbserverConnect", "pcbConnection",
             "ecalcServerConnect"}

\* States passed one after the other.
chain(states) ==
  {<<states[i], IF states[i] \in connects THEN "connected" ELSE "continue", states[i + 1]>> :
     i \in 1..(Len(states) - 1)}

none == [initial |-> "none", steps |-> {}]

machine(states) == [initial |-> states[1], steps |-> chain(states)]
and(m, steps) == [m EXCEPT !.steps = @ \cup steps]

loadDsp == <<"dspserverConnect", "varList2DSP", "cmdList2DSP", "activateDSP", "activateDSPdone">>
unloadDsp == <<"deactivateDSPStart", "deactivated">>

\* A program that only measures.
dspProgram ==
  [activation |-> machine(loadDsp), deactivation |-> machine(unloadDsp),
   query |-> none, write |-> none]

rmsProgram == dspProgram
dftProgram == dspProgram
fftProgram == dspProgram
thdnProgram == dspProgram
osciProgram == dspProgram
periodaverageProgram == dspProgram
referenceProgram == dspProgram
rangeProgram == dspProgram

dspsuperProgram ==
  [dspProgram EXCEPT !.activation =
     machine(<<"dspserverConnect", "varList2DSP", "cmdList2DSP", "sendSuperModuleCmd",
               "activateDSP", "activateDSPdone">>)]

powerActivation ==
  and(machine(<<"resourceManagerConnect", "sendRMIdent", "claimResourcesSource",
                "claimResourceSource", "claimResourceSourceDone",
                "pcbserverConnect4measChannels", "pcbserverConnect4freqChannels",
                "readSourceChannelInformation", "readSourceChannelAlias",
                "readSourceDspChannel", "readSourceFormFactor",
                "readSourceChannelInformationDone", "setSenseChannelRangeNotifiers",
                "setSenseChannelRangeNotifier", "setSenseChannelRangeNotifierDone">> \o loadDsp),
      {<<"claimResourcesSource", "skip", "pcbserverConnect4measChannels">>,
       <<"claimResourceSourceDone", "loop", "claimResourceSource">>,
       <<"readSourceChannelInformation", "skip", "dspserverConnect">>,
       <<"readSourceChannelInformationDone", "loop", "readSourceChannelAlias">>,
       <<"setSenseChannelRangeNotifierDone", "loop", "setSenseChannelRangeNotifier">>})

powerDeactivation ==
  and(machine(<<"freeFreqOutputs", "freeFreqOutput", "freeFreqOutputDone", "resetNotifiers",
                "resetNotifier", "resetNotifierDone", "deactivateDSPdone">>),
      {<<"freeFreqOutputs", "skip", "resetNotifiers">>,
       <<"freeFreqOutputDone", "loop", "freeFreqOutput">>,
       <<"resetNotifierDone", "loop", "resetNotifier">>})

power1Query ==
  and(machine(<<"readUrvalue", "readUrvalueDone", "foutParamsToDsp">>),
      {<<"readUrvalueDone", "loop", "readUrvalue">>})

\* The last state is meant to end the machine.
power2Query ==
  and(machine(<<"readUrvalue", "readUrvalueDone", "foutParamsToDsp", "setFoutConstant">>),
      {<<"readUrvalueDone", "loop", "readUrvalue">>})

power1Program ==
  [activation |-> powerActivation, deactivation |-> powerDeactivation,
   query |-> power1Query, write |-> none]
power2Program == [power1Program EXCEPT !.query = power2Query]

reRead == <<"pcbserverReadAdjStatus", "pcbserverReadAdjChksum", "setInterfaceComponents">>

statusProgram ==
  [activation |->
     machine(<<"pcbserverConnect", "pcbserverReadVersion", "pcbReadChannelsConnected",
               "pcbReadVersion", "registerPCBVersionNotifier", "pcbserverReadCtrlVersion",
               "pcbserverReadFPGAVersion", "pcbserverReadSerialNr",
               "registerAdjustmentStatusNotifier", "pcbserverReadAdjStatus",
               "pcbserverReadAdjChksum", "registerClampCatalogNotifier", "dspserverConnect",
               "dspserverReadVersion", "dspserverReadDSPProgramVersion",
               "registerSchnubbelStatusNotifier", "getSchnubbelStatus",
               "registerAccumulatorStatusNotifier", "getAccumulatorStatus",
               "registerAccumulatorSocNotifier", "getAccuStateOfCharge",
               "registerCtrlVersionsChangedNotifier", "activationDone">>),
   deactivation |-> machine(<<"unregisterNotifiers", "deactivationDone">>),
   query |-> and(machine(reRead),
                 {<<reRead[i], "error", "setInterfaceComponents">> : i \in {1, 2}}),
   write |-> none]

\* The machine of the deactivation starts in its final state.
modeProgram ==
  [activation |->
     machine(<<"pcbserverConnect", "setMode", "dspserverConnect", "writeGainCorr",
               "writeGainCorr2", "writePhaseCorr", "writePhaseCorr2", "writeOffsetCorr",
               "writeOffsetCorr2", "setSubDC", "setSamplingsytem", "activationDone">>),
   deactivation |-> machine(<<"deactivationDone">>), query |-> none, write |-> none]

rangechannelProgram ==
  [activation |-> and(machine(<<"pcbConnection", "readRangeAndProperties">>),
                      {<<"readRangeAndProperties", "finished", "resetStatusSlot">>}
                        \cup chain(<<"resetStatusSlot", "setNotifierRangeCat", "activationDone">>)),
   deactivation |-> machine(<<"deactivationResetNotifiers", "deactivationDone">>),
   query |-> and(machine(<<"readRangelist", "readRngAlias", "readType", "readUrvalue",
                           "readRejection", "readOVRejection", "readADCRejection",
                           "readisAvail", "rangeQueryLoop", "newRangeList">>),
                 {<<"rangeQueryLoop", "loop", "readRngAlias">>}),
   write |-> none]

\* cRangeObsermatic: the gain scales are written after each change of a range.
obsermaticProgram ==
  [activation |-> machine(<<"dspserverConnect", "readGainScale", "onActivationDone">>),
   deactivation |-> machine(<<"deactivationInit", "deactivationDone">>),
   query |-> none,
   write |-> and(machine(<<"writeGainScale", "writeGainScaleDone">>),
                 {<<"writeGainScale", "loop", "writeGainScaleRepeat">>,
                  <<"writeGainScaleRepeat", "continue", "writeGainScale">>})]

\* cAdjustManagement: corrections are read from the channels and written to the DSP.
adjustmentProgram ==
  [activation |-> machine(<<"dspserverConnect", "readGainCorr", "readPhaseCorr",
                            "readOffsetCorr", "setSubDC", "activationDone">>),
   deactivation |-> machine(<<"deactivationInit", "deactivationDone">>),
   query |-> and(machine(<<"getGainCorrFromPcbServer", "prepareGainCorrForDspServer",
                           "getPhaseCorrFromPcbServer", "preparePhaseCorrForDspServer",
                           "getOffsetCorrFromPcbServer", "prepareOffsetCorrForDspServer",
                           "getCorrDone">>),
                 {<<"prepareGainCorrForDspServer", "loop", "getGainCorrFromPcbServer">>,
                  <<"preparePhaseCorrForDspServer", "loop", "getPhaseCorrFromPcbServer">>,
                  <<"prepareOffsetCorrForDspServer", "loop", "getOffsetCorrFromPcbServer">>}),
   write |-> machine(<<"writeGainCorr", "writePhaseCorr", "writeOffsetCorr",
                       "writeCorrDone">>)]

referencechannelProgram ==
  [activation |->
     and(machine(<<"pcbConnection", "readRangelist", "readRangeProperties1",
                   "readRangeProperties2">>),
         {<<"readRangeProperties2", "finished", "readRangeProperties3">>,
          <<"readRangeProperties3", "loop", "readRangeProperties1">>}
           \cup chain(<<"readRangeProperties3", "activationDone">>)),
   deactivation |-> machine(<<"deactivationInit", "deactivationDone">>),
   query |-> machine(<<"readRngAlias", "readType", "readisAvail", "rangeQueryDone">>),
   write |-> none]

\* The reference module is up when its adjustment is done, not when it could start.
referenceadjustProgram ==
  [activation |-> machine(<<"pcbserverConnect", "set0VRange", "dspserverConnect",
                            "activationDone">>),
   deactivation |-> machine(<<"deactivationInit", "deactivationDone">>),
   query |-> machine(<<"readGainCorr", "readOffset2Corr", "writeOffsetAdjustment",
                       "set10VRange", "referenceAdjustDone">>),
   write |-> none]

sfcProgram ==
  [activation |-> machine(<<"ecalcServerConnect", "fetchECalcUnits", "setMasterMux",
                            "setMasterMeasMode", "activationDone">>),
   deactivation |-> machine(<<"stopECCalculator", "freeECalculator", "deactivationDone">>),
   query |-> none, write |-> none]

programs ==
  [rms |-> rmsProgram, dft |-> dftProgram, fft |-> fftProgram, thdn |-> thdnProgram,
   osci |-> osciProgram, periodaverage |-> periodaverageProgram,
   reference |-> referenceProgram, range |-> rangeProgram, dspsuper |-> dspsuperProgram,
   power1 |-> power1Program, power2 |-> power2Program, status |-> statusProgram,
   mode |-> modeProgram, rangechannel |-> rangechannelProgram,
   obsermatic |-> obsermaticProgram, adjustment |-> adjustmentProgram,
   referencechannel |-> referencechannelProgram,
   referenceadjust |-> referenceadjustProgram, sfc |-> sfcProgram]

machines(q) == programs[q.program]

-----------------------------------------------------------------------------
(* The activist *)

State == {"off", "starting"} \cup
  UNION {{t[1], t[3]} : t \in UNION {programs[g][m].steps : g \in Programs, m \in Machine}}

Request == State \cup {"connect", "dataAcquisition", "setNominalPowerForQref"}

Activist ==
  [program : Programs,
   freqOutputs : SUBSET FreqOutputs,
   life : {"activating", "up", "destroying", "gone"},   \* of its BaseModule
   at : [Machine -> State],
   signals : [Machine -> Seq({"continue", "skip", "loop", "error", "connected", "finished"})],
   acquisition : BOOLEAN,               \* m_taskDataAcquisition, m_dataAcquisitionMachine
   active : BOOLEAN,                    \* m_bActive
   measuring : BOOLEAN,                 \* m_pMeasureSignal
   list : Seq(Channels \cup FreqOutputs),               \* infoReadList
   info : Channels \cup FreqOutputs \cup {"none"},      \* infoRead
   connects : Int,                      \* m_nConnectionCount, m_nRangeSetPending
   notifierNr : Nat,
   notifiers : [1..Cardinality(Channels) -> Channels \cup {"none"}],   \* m_NotifierInfoHash
   urList : Seq(Channels), urInfo : Channels \cup {"none"},   \* readUrvalueList, readUrvalueInfo
   iterator : 0..(Ranges + Cardinality(Channels)),      \* m_RangeQueryIt, m_nChannelIt
   read : [Channels -> 0..MaxChanges],  \* gain corrections the channels have read
   known : [Item -> 0..(MaxChanges + 1)],   \* what was read, what is to be written
   released : SUBSET Connection]

Init ==
  /\ \E program \in Programs, freqOutputs \in {{}, FreqOutputs} :
       /\ power([program |-> program]) \/ freqOutputs = {}
       /\ p = [program |-> program, freqOutputs |-> freqOutputs, life |-> "activating",
               at |-> [m \in Machine |-> IF m = "activation" THEN "starting" ELSE "off"],
               signals |-> [m \in Machine |-> <<>>],
               acquisition |-> FALSE, active |-> FALSE, measuring |-> FALSE,
               list |-> <<>>, info |-> "none", connects |-> 0,
               notifierNr |-> 0, notifiers |-> [n \in 1..Cardinality(Channels) |-> "none"],
               urList |-> <<>>, urInfo |-> "none", iterator |-> 0,
               read |-> [c \in Channels |-> 0], known |-> [i \in Item |-> 0],
               released |-> {}]
  /\ asked = [c \in Connection |-> <<>>] /\ told = [c \in Connection |-> <<>>]
  /\ actual = [i \in Item |-> 0] /\ used = [i \in Item |-> 0] /\ watched = [i \in Item |-> 0]
  /\ claimed = {} /\ carried = {}
  /\ spent = [changes |-> 0, interrupts |-> 0, refusals |-> 0]

channelAt(q) == SetToSeq(Channels)[q.iterator + 1]

\* The connection a state sends its request to.
server(q, state) ==
  CASE state \in {"resourceManagerConnect", "sendRMIdent", "claimResourceSource",
                  "freeFreqOutput"} -> "rm"
    [] state \in {"dspserverConnect", "varList2DSP", "cmdList2DSP", "sendSuperModuleCmd",
                  "activateDSP", "dataAcquisition", "foutParamsToDsp",
                  "setNominalPowerForQref", "dspserverReadVersion",
                  "dspserverReadDSPProgramVersion", "writeGainCorr", "writeGainCorr2",
                  "writePhaseCorr", "writePhaseCorr2", "writeOffsetCorr", "writeOffsetCorr2",
                  "setSubDC", "setSamplingsytem", "readGainScale", "writeGainScale",
                  "readGainCorr", "readPhaseCorr", "readOffsetCorr", "readOffset2Corr",
                  "writeOffsetAdjustment"} -> "dsp"
    [] state \in {"ecalcServerConnect", "fetchECalcUnits", "setMasterMux",
                  "setMasterMeasMode", "stopECCalculator", "freeECalculator"} -> "sec"
    [] state \in {"readSourceChannelAlias", "readSourceDspChannel", "readSourceFormFactor",
                  "setSenseChannelRangeNotifier", "resetNotifier"} -> q.info
    [] state = "readUrvalue" /\ power(q) -> q.urInfo
    [] state \in {"getGainCorrFromPcbServer", "getPhaseCorrFromPcbServer",
                  "getOffsetCorrFromPcbServer"} -> channelAt(q)
    [] OTHER -> "pcb"

\* Operators on [p |-> activist, asked |-> requests, used |-> values], up to Actions.

\* What is sent on a released connection is lost.  Corrections are written as they are known.
sendTo(s, connections, request) ==
  LET r == [do |-> request, on |-> s.p.info, nr |-> s.p.notifierNr,
            data |-> IF request \in {"writeGainCorr", "writeGainScale"} THEN s.p.known
                     ELSE [i \in Item |-> 0]]
  IN  [s EXCEPT !.asked = [c \in Connection |->
         IF c \in connections \ s.p.released THEN Append(@[c], r) ELSE @[c]]]

send(s, request) == sendTo(s, {server(s.p, request)}, request)
connect(s, connections) == sendTo(s, connections, "connect")

\* Only running machines see a signal.
emit(s, ms, signal) ==
  [s EXCEPT !.p.signals = [m \in Machine |->
     IF m \in ms /\ s.p.at[m] \notin {"off", "starting"} THEN Append(@[m], signal) ELSE @[m]]]

activationEmit(s, signal) == emit(s, {"activation", "query", "write"}, signal)
deactivationEmit(s, signal) == emit(s, {"deactivation"}, signal)

start(s, m) == IF s.p.at[m] = "off" THEN [s EXCEPT !.p.at[m] = "starting"] ELSE s

release(s, connections) == [s EXCEPT !.p.released = @ \cup connections]

\* infoReadList := keys, and on to the loop over them; without any the loop is skipped.
over(s, keys) == [s EXCEPT !.p.list = SetToSeq(keys)]
takeFirst(s) == [s EXCEPT !.p.info = Head(s.p.list), !.p.list = Tail(s.p.list)]
takeLast(s) == [s EXCEPT !.p.info = Last(s.p.list), !.p.list = Front(s.p.list)]
onward(list) == IF list = <<>> THEN "continue" ELSE "loop"

activated(s) == [s EXCEPT !.p.life = "up"]
deactivated(s) == [s EXCEPT !.p.life = "gone"]

pcbserverConnect4measChannels(s) ==
  connect([s EXCEPT !.p.connects = Cardinality(Channels)], Channels)

\* Faulty: waits for connections even if there are none to wait for
freqChannelsAlwaysWait(s) ==
  connect([s EXCEPT !.p.connects = @ + Cardinality(s.p.freqOutputs)], s.p.freqOutputs)

pcbserverConnect4freqChannels(s) ==
  IF s.p.freqOutputs = {} THEN activationEmit(s, "continue")
  ELSE connect([s EXCEPT !.p.connects = @ + Cardinality(s.p.freqOutputs)], s.p.freqOutputs)

monitorConnection(s) ==
  LET counted == [s EXCEPT !.p.connects = @ - 1]
  IN  IF counted.p.connects = 0 THEN activationEmit(counted, "continue") ELSE counted

\* Faulty: counts twice
notifierSkipsNumbers(s) ==
  send([takeFirst(s) EXCEPT !.p.notifierNr = @ + 2], "setSenseChannelRangeNotifier")

setSenseChannelRangeNotifier(s) ==
  send([takeFirst(s) EXCEPT !.p.notifierNr = @ + 1], "setSenseChannelRangeNotifier")

measures(q) == q.program \notin {"dspsuper", "reference"}

activateDSPdone(s) ==
  LET up == activated([s EXCEPT !.p.active = TRUE, !.p.measuring = measures(s.p)])
  IN  IF power(s.p) THEN start([up EXCEPT !.p.urList = SetToSeq(Channels)], "query") ELSE up

deactivateDSPStart(s) ==
  deactivationEmit(release([s EXCEPT !.p.active = FALSE], {"dsp"}), "continue")

\* Faulty: always on to the notifiers
freeNothing(s) ==
  LET idle == release([s EXCEPT !.p.active = FALSE, !.p.acquisition = FALSE], {"dsp"})
  IN  deactivationEmit(over(idle, s.p.freqOutputs), "skip")

freeFreqOutputs(s) ==
  LET idle == release([s EXCEPT !.p.active = FALSE, !.p.acquisition = FALSE], {"dsp"})
  IN  deactivationEmit(over(idle, s.p.freqOutputs),
                       IF s.p.freqOutputs = {} THEN "skip" ELSE "continue")

deactivateDSPdone(s) == deactivated(release(s, {"rm", "dsp"}))

readUrvalue(s) ==
  IF power(s.p)
  THEN send([s EXCEPT !.p.urInfo = Head(s.p.urList), !.p.urList = Tail(@)], "readUrvalue")
  ELSE send(s, "readUrvalue")

publish(s) == [s EXCEPT !.used = s.p.known]

foutParamsToDsp(s) ==
  send(IF s.p.freqOutputs = {} THEN publish(s) ELSE send(publish(s), "foutParamsToDsp"),
       "setNominalPowerForQref")

rangeQueryLoop(s) ==
  LET next == [s EXCEPT !.p.iterator = @ + 1]
  IN  IF next.p.iterator < Ranges THEN activationEmit(next, "loop")
      ELSE activationEmit(publish(next), "continue")

readRangeProperties3(s) ==
  LET next == [s EXCEPT !.p.iterator = @ + 1]
  IN  activationEmit(next, IF next.p.iterator < Ranges THEN "loop" ELSE "continue")

statusActivationDone(s) == activated([publish(s) EXCEPT !.p.active = TRUE])

running(s, m) == s.p.at[m] \notin {"off", "starting"}

\* A range has changed: what is being written may be the old gain scale.
setRanges(s) ==
  LET new == [s EXCEPT !.p.known["scale"] = @ + 1]
  IN  IF running(new, "write") THEN emit(new, {"write"}, "loop") ELSE start(new, "write")

onActivationDone(s) == activated([setRanges(s) EXCEPT !.p.active = TRUE])

nextChannel(s) ==
  LET next == [s EXCEPT !.p.iterator = @ + 1]
  IN  IF next.p.iterator < Cardinality(Channels) THEN activationEmit(next, "loop")
      ELSE activationEmit([next EXCEPT !.p.iterator = 0], "continue")

prepareGainCorrForDspServer(s) ==
  LET c == channelAt(s.p) IN nextChannel([s EXCEPT !.p.known[c] = s.p.read[c]])

getCorrDone(s) == start([s EXCEPT !.p.iterator = 0], "write")

setRange(s, request) ==
  sendTo([s EXCEPT !.p.connects = Cardinality(Channels)], Channels, request)

\* Reading and writing corrections ends with the deactivation.
whileActive ==
  {"getGainCorrFromPcbServer", "getPhaseCorrFromPcbServer", "getOffsetCorrFromPcbServer",
   "prepareGainCorrForDspServer", "preparePhaseCorrForDspServer",
   "prepareOffsetCorrForDspServer", "writeGainScale", "writeOffsetAdjustment", "set10VRange"}
  \cup {"writeGainCorr", "writePhaseCorr", "writeOffsetCorr"}

needsActive(q, state) == state \in whileActive /\ q.program # "mode"

deactivationInit(s) ==
  LET connections == CASE s.p.program = "obsermatic" -> {"dsp"}
                       [] s.p.program = "adjustment" -> {"dsp"} \cup Channels
                       [] s.p.program = "referenceadjust" -> {"dsp", "pcb"}
                       [] s.p.program = "referencechannel" -> {}
  IN  deactivationEmit(release([s EXCEPT !.p.active = FALSE], connections), "continue")

\* The slot of a state that is entered; what only sends its request is at the end.
slot(s, state) ==
  CASE needsActive(s.p, state) /\ ~s.p.active -> s
    [] state \in connects -> connect(s, {server(s.p, state)})
    [] state = "claimResourcesSource" ->
         activationEmit(over(s, s.p.freqOutputs),
                        IF s.p.freqOutputs = {} THEN "skip" ELSE "continue")
    [] state = "claimResourceSource" -> send(takeLast(s), state)
    [] state \in {"claimResourceSourceDone", "readSourceChannelInformationDone",
                  "setSenseChannelRangeNotifierDone"} -> activationEmit(s, onward(s.p.list))
    [] state = "pcbserverConnect4measChannels" -> pcbserverConnect4measChannels(s)
    [] state = "pcbserverConnect4freqChannels" -> pcbserverConnect4freqChannels(s)
    [] state = "readSourceChannelInformation" ->
         activationEmit(over(s, s.p.freqOutputs),
                        IF s.p.freqOutputs = {} THEN "skip" ELSE "continue")
    [] state = "readSourceChannelAlias" -> send(takeFirst(s), state)
    [] state = "setSenseChannelRangeNotifiers" ->
         activationEmit(over([s EXCEPT !.p.notifierNr = 0], Channels), "continue")
    [] state = "setSenseChannelRangeNotifier" -> setSenseChannelRangeNotifier(s)
    [] state = "activateDSPdone" -> activateDSPdone(s)
    [] state = "deactivateDSPStart" -> deactivateDSPStart(s)
    [] state = "deactivated" -> deactivated(s)
    [] state = "freeFreqOutputs" -> freeFreqOutputs(s)
    [] state \in {"freeFreqOutput", "resetNotifier"} -> send(takeFirst(s), state)
    [] state \in {"freeFreqOutputDone", "resetNotifierDone"} ->
         deactivationEmit(s, onward(s.p.list))
    [] state = "resetNotifiers" -> deactivationEmit(over(s, Channels), "continue")
    [] state = "deactivateDSPdone" -> deactivateDSPdone(s)
    [] state = "readUrvalue" -> readUrvalue(s)
    [] state = "readUrvalueDone" -> activationEmit(s, onward(s.p.urList))
    [] state = "foutParamsToDsp" -> foutParamsToDsp(s)
    [] state \in {"setFoutConstant", "writeGainScaleDone", "writeGainScaleRepeat",
                  "writeCorrDone", "readRangeProperties2"} -> s
    [] state = "readRangeAndProperties" -> start(s, "query")
    [] state = "readRangeProperties1" -> activationEmit(start(s, "query"), "continue")
    [] state = "readRangeProperties3" -> readRangeProperties3(s)
    [] state = "readRangelist" -> send([s EXCEPT !.p.iterator = 0], state)
    [] state = "rangeQueryLoop" -> rangeQueryLoop(s)
    [] state \in {"newRangeList", "rangeQueryDone"} -> emit(s, {"activation"}, "finished")
    [] state = "prepareGainCorrForDspServer" -> prepareGainCorrForDspServer(s)
    [] state \in {"preparePhaseCorrForDspServer", "prepareOffsetCorrForDspServer"} ->
         nextChannel(s)
    [] state = "getCorrDone" -> getCorrDone(s)
    [] state \in {"set0VRange", "set10VRange"} -> setRange(s, state)
    [] state = "referenceAdjustDone" -> activated(s)
    [] state = "onActivationDone" -> onActivationDone(s)
    [] state = "activationDone" /\ s.p.program = "referenceadjust" -> [s EXCEPT !.p.active = TRUE]
    [] state = "setInterfaceComponents" -> publish(s)
    [] state = "activationDone" /\ s.p.program = "status" -> statusActivationDone(s)
    [] state = "activationDone" /\ s.p.program \in {"mode", "referencechannel"} -> activated(s)
    [] state = "activationDone" -> activated([s EXCEPT !.p.active = TRUE])
    [] state = "deactivationInit" -> deactivationInit(s)
    [] state = "freeECalculator" -> send([s EXCEPT !.p.active = FALSE], state)
    [] state \in {"unregisterNotifiers", "deactivationResetNotifiers"} ->
         send([s EXCEPT !.p.active = FALSE], state)
    [] state = "deactivationDone" ->
         deactivated(release(s, IF s.p.program = "status" THEN {"dsp", "pcb"} ELSE {"pcb"}))
    [] OTHER -> send(s, state)

leaves(m, state) == {t \in m.steps : t[1] = state}

\* A machine stops in a state that no transition leaves.
enter(s, m, state) ==
  LET final == leaves(machines(s.p)[m], state) = {}
  IN  slot([s EXCEPT !.p.at[m] = IF final THEN "off" ELSE state,
                     !.p.signals[m] = IF final THEN <<>> ELSE @], state)

dataAcquisitionDSP(s) ==
  IF s.p.active /\ ~s.p.acquisition
  THEN send([s EXCEPT !.p.acquisition = TRUE, !.p.measuring = FALSE], "dataAcquisition")
  ELSE s

dataReadDSP(s) ==
  [s EXCEPT !.p.acquisition = FALSE,
            !.p.measuring = IF s.p.active THEN measures(s.p) ELSE @]

\* Faulty: a change met while others are read is forgotten
notifiedWhenIdle(s, nr) ==
  IF s.p.at["query"] # "off" THEN s
  ELSE IF power(s.p) THEN start([s EXCEPT !.p.urList = Append(@, s.p.notifiers[nr])], "query")
       ELSE start(s, "query")

\* A range notifier, the notifier of the range catalog, that of the clamps.
notified(s, nr) ==
  CASE power(s.p) -> start([s EXCEPT !.p.urList = Append(@, s.p.notifiers[nr])], "query")
    [] s.p.program = "rangechannel" -> start(s, "query")
    [] s.p.program = "status" -> IF s.p.active THEN start(s, "query") ELSE s

\* The status module continues whether or not the service knows what is registered.
registrations ==
  {"registerPCBVersionNotifier", "registerAdjustmentStatusNotifier",
   "registerClampCatalogNotifier", "registerSchnubbelStatusNotifier",
   "registerAccumulatorStatusNotifier", "registerAccumulatorSocNotifier",
   "registerCtrlVersionsChangedNotifier"}

deactivations ==
  {"freeFreqOutput", "resetNotifier", "deactivationResetNotifiers", "unregisterNotifiers",
   "stopECCalculator", "freeECalculator"}

\* The channels of the range and reference modules report an answer whatever it says.
channelReplies ==
  {"getGainCorrFromPcbServer", "getPhaseCorrFromPcbServer", "getOffsetCorrFromPcbServer",
   "set0VRange", "set10VRange"}

catchChannelReply(s, request) ==
  IF request \in {"set0VRange", "set10VRange"} THEN monitorConnection(s)
  ELSE activationEmit(s, "continue")

\* Faulty: an error is no reason to stop
refusedGoesOn(s, request) ==
  CASE request = "dataAcquisition" -> [s EXCEPT !.p.acquisition = FALSE]
    [] request \in deactivations -> deactivationEmit(s, "continue")
    [] OTHER -> activationEmit(s, "continue")

\* Every other error ends in notifyError, and the machine that asked stays where it is.
refused(s, request) ==
  CASE request \in registrations -> activationEmit(s, "continue")
    [] request \in channelReplies -> catchChannelReply(s, request)
    [] request = "unregisterNotifiers" -> deactivationEmit(s, "continue")
    [] request = "dataAcquisition" -> [s EXCEPT !.p.acquisition = FALSE]
    [] OTHER -> IF s.p.program = "status" THEN activationEmit(s, "error") ELSE s

acknowledged(s, c, request, value) ==
  CASE request = "getGainCorrFromPcbServer" ->
         catchChannelReply([s EXCEPT !.p.read[c] = value], request)
    [] request \in channelReplies -> catchChannelReply(s, request)
    [] request \in deactivations -> deactivationEmit(s, "continue")
    [] request = "dataAcquisition" -> dataReadDSP(s)
    [] request \in {"foutParamsToDsp", "setNominalPowerForQref"} -> s
    [] request = "setSenseChannelRangeNotifier" ->
         activationEmit([s EXCEPT !.p.notifiers[s.p.notifierNr] = s.p.info], "continue")
    [] request = "readUrvalue" /\ power(s.p) ->
         activationEmit([s EXCEPT !.p.known[s.p.urInfo] = value], "continue")
    [] request = "readRangelist" ->
         activationEmit([s EXCEPT !.p.known["ranges"] = value], "continue")
    [] request = "pcbserverReadAdjChksum" ->
         activationEmit([s EXCEPT !.p.known["chksum"] = value], "continue")
    [] OTHER -> activationEmit(s, "continue")

\* "aside": one of the notifications that make the status module read something else.
catchInterfaceAnswer(s, c, message) ==
  CASE message.to = "dspint" -> dataAcquisitionDSP(s)
    [] message.to = "notification" -> notified(s, message.value)
    [] message.to = "aside" -> send(s, "getSchnubbelStatus")
    [] message.to = "connect" ->
         IF s.p.at["activation"] \in {"pcbserverConnect4measChannels",
                                      "pcbserverConnect4freqChannels"}
         THEN monitorConnection(s) ELSE emit(s, {"activation"}, "connected")
    [] OTHER -> IF message.ack THEN acknowledged(s, c, message.to, message.value)
                ELSE refused(s, message.to)

-----------------------------------------------------------------------------
(* Actions *)

do(s) == p' = s.p /\ asked' = s.asked /\ used' = s.used
now == [p |-> p, asked |-> asked, used |-> used]

busy(m) == p.at[m] = "starting" \/ p.signals[m] # <<>>

\* The machines come first: signals are posted events, the rest comes from sockets.
calm == \A m \in Machine : ~busy(m)

\* A signal that no transition of the state waits for is lost.
hear(s, m, signal) ==
  LET ts == {t \in leaves(machines(s.p)[m], s.p.at[m]) : t[2] = signal}
  IN  IF ts = {} THEN {s} ELSE {enter(s, m, t[3]) : t \in ts}

\* One step of a state machine.
Step(m) ==
  /\ busy(m)
  /\ \E s \in IF p.at[m] = "starting" THEN {enter(now, m, machines(p)[m].initial)}
               ELSE hear([now EXCEPT !.p.signals[m] = Tail(@)], m, Head(p.signals[m])) : do(s)
  /\ UNCHANGED <<told, actual, watched, claimed, carried, spent>>

Deliver(c) ==
  /\ calm
  /\ c \notin p.released /\ told[c] # <<>>
  /\ \E s \in {catchInterfaceAnswer(now, c, Head(told[c]))} : do(s)
  /\ told' = [told EXCEPT ![c] = Tail(@)]
  /\ UNCHANGED <<actual, watched, claimed, carried, spent>>

item(c, request) ==
  CASE c \in Channels -> c
    [] request \in {"setNotifierRangeCat", "readRangelist", "deactivationResetNotifiers"} -> "ranges"
    [] OTHER -> "chksum"

\* The service carries out the oldest request of a connection.
Serve(c) ==
  /\ asked[c] # <<>>
  /\ LET r == Head(asked[c])
         i == item(c, r.do)
         reads == r.do \in {"readUrvalue", "readRangelist", "pcbserverReadAdjChksum",
                            "getGainCorrFromPcbServer"}
     IN  /\ told' = [told EXCEPT ![c] =
                       Append(@, [to |-> r.do, ack |-> TRUE,
                                  value |-> IF reads THEN actual[i] ELSE 0])]
         /\ carried' = carried \cup {<<c, r.do>>}
         /\ claimed' = CASE r.do = "claimResourceSource" -> claimed \cup {r.on}
                         [] r.do = "freeFreqOutput" -> claimed \ {r.on}
                         [] r.do = "fetchECalcUnits" -> claimed \cup {"ecunit"}
                         [] r.do = "freeECalculator" -> claimed \ {"ecunit"}
                         [] OTHER -> claimed
         /\ watched' =
              CASE r.do = "setSenseChannelRangeNotifier" -> [watched EXCEPT ![i] = r.nr]
                [] r.do \in {"setNotifierRangeCat", "registerClampCatalogNotifier"} ->
                     [watched EXCEPT ![i] = 1]
                [] r.do \in {"resetNotifier", "deactivationResetNotifiers",
                             "unregisterNotifiers"} -> [watched EXCEPT ![i] = 0]
                [] OTHER -> watched
         /\ used' = CASE r.do = "writeGainCorr" ->
                           [k \in Item |-> IF k \in Channels THEN r.data[k] ELSE used[k]]
                      [] r.do = "writeGainScale" -> [used EXCEPT !["scale"] = r.data["scale"]]
                      [] OTHER -> used
  /\ asked' = [asked EXCEPT ![c] = Tail(@)]
  /\ UNCHANGED <<p, actual, spent>>

Refuse(c) ==
  /\ asked[c] # <<>> /\ Head(asked[c]).do # "connect" /\ spent.refusals < MaxRefusals
  /\ told' = [told EXCEPT ![c] =
                Append(@, [to |-> Head(asked[c]).do, ack |-> FALSE, value |-> 0])]
  /\ asked' = [asked EXCEPT ![c] = Tail(@)]
  /\ spent' = [spent EXCEPT !.refusals = @ + 1]
  /\ UNCHANGED <<p, actual, used, watched, claimed, carried>>

\* Nothing is asked, answered or read.
quiet == p.at["query"] = "off" /\ asked["pcb"] = <<>> /\ told["pcb"] = <<>>

notify(c, to, nr) == told' = [told EXCEPT ![c] = Append(@, [to |-> to, ack |-> TRUE, value |-> nr])]

readBy(q) == CASE power(q) -> Channels
               [] q.program = "rangechannel" -> {"ranges"}
               [] q.program = "status" -> {"chksum"}
               [] q.program = "adjustment" -> Channels
               [] OTHER -> {}

Change(i) ==
  /\ i \in readBy(p) /\ spent.changes < MaxChanges
  /\ p.life = "activating" /\ p.program # "adjustment" => "early" \in Interference
  /\ p.program \in {"status", "rangechannel"} => quiet \/ "again" \in Interference
  /\ actual' = [actual EXCEPT ![i] = @ + 1]
  /\ spent' = [spent EXCEPT !.changes = @ + 1]
  /\ IF watched[i] = 0 THEN UNCHANGED told
     ELSE notify(IF i \in Channels THEN i ELSE "pcb", "notification", watched[i])
  /\ UNCHANGED <<p, asked, used, watched, claimed, carried>>

interrupts == spent.interrupts < MaxInterrupts /\ spent' = [spent EXCEPT !.interrupts = @ + 1]

DspInterrupt ==
  /\ <<"dsp", "activateDSP">> \in carried /\ "dsp" \notin p.released
  /\ interrupts /\ notify("dsp", "dspint", 0)
  /\ UNCHANGED <<p, asked, actual, used, watched, claimed, carried>>

AsideNotification ==
  /\ p.program = "status" /\ p.life = "up"
  /\ quiet \/ "aside" \in Interference
  /\ interrupts /\ notify("pcb", "aside", 0)
  /\ UNCHANGED <<p, asked, actual, used, watched, claimed, carried>>

\* A range is changed, by a client or by the automatic.
SetRanges ==
  /\ p.program = "obsermatic" /\ p.active /\ calm /\ spent.changes < MaxChanges
  /\ do(setRanges(now))
  /\ spent' = [spent EXCEPT !.changes = @ + 1]
  /\ UNCHANGED <<told, actual, watched, claimed, carried>>

\* When actual values have come, corrections can be read.  The reference module does so once.
roundDue ==
  /\ calm /\ p.active /\ p.at["query"] = "off"
  /\ \/ /\ p.program = "adjustment"
        /\ p.at["write"] = "off" \/ "again" \in Interference
     \/ p.program = "referenceadjust" /\ p.life = "activating"

StartRound ==
  /\ roundDue
  /\ do(start([now EXCEPT !.p.iterator = 0], "query"))
  /\ UNCHANGED <<told, actual, watched, claimed, carried, spent>>

\* Actual values come while corrections are read.
RestartIterator ==
  /\ p.program = "adjustment" /\ calm /\ p.at["query"] # "off"
  /\ interrupts /\ do([now EXCEPT !.p.iterator = 0])
  /\ UNCHANGED <<told, actual, watched, claimed, carried>>

\* startDestroy, once the module is up: the module manager waits for that.
Destroy ==
  /\ p.life = "up"
  /\ do(start([now EXCEPT !.p.life = "destroying"], "deactivation"))
  /\ UNCHANGED <<told, actual, watched, claimed, carried, spent>>

Next ==
  \/ \E m \in Machine : Step(m)
  \/ \E c \in Connection : Deliver(c) \/ Serve(c) \/ Refuse(c)
  \/ \E i \in Item : Change(i)
  \/ DspInterrupt \/ AsideNotification \/ Destroy
  \/ SetRanges \/ StartRound \/ RestartIterator

Spec == Init /\ [][Next]_vars

Handle == \/ \E m \in Machine : Step(m)
          \/ \E c \in Connection : Deliver(c)

toHandle == \/ \E m \in Machine : busy(m)
            \/ \E c \in Connection \ p.released : told[c] # <<>>

\* The services answer; posted events are processed, and what the services say is read;
\* actual values come as long as the DSP measures.
\* The last conjuncts are WF_vars(Handle) and WF_vars(StartRound) with ENABLED spelt out,
\* which TLC evaluates slowly.
FairSpec ==
  /\ Spec
  /\ WF_vars(\E c \in Connection : Serve(c))
  /\ <>[]toHandle => []<><<Handle>>_vars
  /\ <>[]roundDue => []<><<StartRound>>_vars

-----------------------------------------------------------------------------
(* Properties *)

\* Every variable has its type, and the bounds hold.
TypeOK ==
  /\ p \in Activist
  /\ asked \in [Connection -> Seq([do : Request, on : Channels \cup FreqOutputs \cup {"none"},
                                   nr : Nat, data : [Item -> 0..(MaxChanges + 1)]])]
  /\ told \in [Connection -> Seq([to : Request \cup {"dspint", "notification", "aside"},
                                  ack : BOOLEAN, value : Nat])]
  /\ actual \in [Item -> 0..MaxChanges] /\ used \in [Item -> 0..(MaxChanges + 1)]
  /\ watched \in [Item -> 0..Cardinality(Channels)]
  /\ claimed \subseteq FreqOutputs \cup {"ecunit"}
  /\ carried \subseteq Connection \X Request
  /\ spent \in [changes : 0..MaxChanges, interrupts : 0..MaxInterrupts, refusals : 0..MaxRefusals]

\* What has to be done before an activist is active: on which connection which request.
needs(q) ==
  CASE power(q) -> {<<"dsp", r>> : r \in {"varList2DSP", "cmdList2DSP", "activateDSP"}}
                     \cup {<<f, r>> : f \in q.freqOutputs,
                             r \in {"readSourceChannelAlias", "readSourceDspChannel",
                                    "readSourceFormFactor"}}
    [] q.program = "rangechannel" ->
         {<<"pcb", r>> : r \in {"readRangelist", "readisAvail", "resetStatusSlot",
                                "setNotifierRangeCat"}}
    [] q.program = "status" ->
         {<<"pcb", r>> : r \in {"pcbserverReadSerialNr", "pcbserverReadAdjChksum",
                                "getAccuStateOfCharge"}}
    [] q.program = "obsermatic" -> {<<"dsp", "readGainScale">>}
    [] q.program = "adjustment" ->
         {<<"dsp", r>> : r \in {"readGainCorr", "readPhaseCorr", "readOffsetCorr", "setSubDC"}}
    [] q.program = "referencechannel" -> {<<"pcb", "readRangelist">>, <<"pcb", "readisAvail">>}
    [] q.program = "referenceadjust" -> {<<"dsp", "readGainCorr">>, <<"dsp", "writeOffsetAdjustment">>}
    [] q.program = "sfc" ->
         {<<"sec", r>> : r \in {"fetchECalcUnits", "setMasterMux", "setMasterMeasMode"}}
    [] q.program = "mode" -> {<<"pcb", "setMode">>, <<"dsp", "setSamplingsytem">>}
    [] OTHER -> {<<"dsp", r>> : r \in {"varList2DSP", "cmdList2DSP", "activateDSP"}}

\* activated() is emitted only when the services have done what the activation asks them
\* for: the lists run in the DSP, all frequency outputs are claimed and every channel of a
\* power module with outputs has its notifier, under the number it is looked up with.
\* An answer to another machine of the activist does not stand in for that.
ActivatedMeansDone ==
  p.life = "up" =>
    /\ needs(p) \subseteq carried
    /\ claimed = p.freqOutputs \cup (IF p.program = "sfc" THEN {"ecunit"} ELSE {})
    /\ p.freqOutputs # {} => \A c \in Channels : watched[c] # 0 /\ p.notifiers[watched[c]] = c

\* What the activation has claimed and registered is free again when the activist is gone.
DeactivationFrees ==
  p.life = "gone" =>
    /\ claimed = {}
    /\ \A i \in Item : watched[i] = 0 \/ (p.program = "status" /\ spent.refusals > 0)

noticed(i) == p.program \in {"obsermatic", "adjustment"} \/ watched[i] # 0
wanted(i) == IF p.program = "obsermatic" THEN p.known[i] ELSE actual[i]
stale(i) == p.active /\ noticed(i) /\ used[i] # wanted(i)

\* Every change that an active activist is notified of is read again and used.  In the end
\* the DSP has the gain scales of the last ranges and the last gain corrections, however the
\* changes meet the writing and the rounds over the channels.
ChangesArePublished ==
  [](spent.refusals = 0) => []<>(\A i \in Item : ~stale(i))

underWay == p.life \in {"activating", "destroying"} \/ (p.acquisition /\ p.active)

\* Activation, acquisition and deactivation end, as long as nothing is refused.
EverythingEnds == [](spent.refusals = 0) => []<>~underWay
=============================================================================
