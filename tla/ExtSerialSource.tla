-------------------------- MODULE ExtSerialSource --------------------------
(***************************************************************************)
(* One external source as the source module drives it: a poller queries    *)
(* its status, clients switch its load, a controller derives the state     *)
(* shown to clients from the responses to both, and closing it first       *)
(* switches it off.  All of them start transactions on the I/O queue and   *)
(* hear of their end by sigResponseReceived.                               *)
(*                                                                         *)
(* The queue is the line of GroupFifo, which IoQueue implements.  An       *)
(* action is one event with all the handlers it runs, in the order they    *)
(* are connected: the handlers are functions of dev, the objects' state.   *)
(***************************************************************************)
EXTENDS Naturals, Sequences, FiniteSets, SequencesExt

CONSTANTS
  Load,                 \* load points a client can ask for
  Off,                  \* the one that is off
  PollsAfterSwitch,     \* m_pollCountAfterSwitchOnOk
  DemoIo,               \* a demo device: every other close "pulls the plug"
  TransactionId         \* bound: ids of transactions in the line or waited for

ASSUME SourceAssumption ==
  /\ Off \in Load
  /\ PollsAfterSwitch \in Nat
  /\ DemoIo \in BOOLEAN
  /\ TransactionId \subseteq Nat

VARIABLES
  isOpen,               \* the I/O device is open
  line,                 \* the transactions handed to the I/O queue: Seq(Transaction)
  dev,                  \* the objects of the source: Device
  output,               \* environment: the load the source really puts out
  patient,              \* environment: clients wait until their last switch is through
  confirmed             \* history: the switch answered last has passed

vars == <<isOpen, line, dev, output, patient, confirmed>>

Transaction == [id : TransactionId, kind : {"poll", "switch"}, load : Load]

States == {"UNDEFINED", "IDLE", "SWITCH_BUSY", "ERROR_SWITCH", "ERROR_POLL"}

Device == [
  pollTimer : BOOLEAN,                      \* SourceStatePeriodicPoller
  pollerPending : SUBSET TransactionId,
  currState : States,                       \* SourceStateController
  pollCountBeforeIdleOrError : Nat,
  pendingSwitchIds : SUBSET TransactionId,
  pendingStateQueryIds : SUBSET TransactionId,
  switcherPending : SUBSET TransactionId,   \* SourceSwitchJsonExtSerial
  loadpointCurrent : Load,
  loadpointRequestedLast : Load,
  closeRequested : BOOLEAN,                 \* SourceDeviceExtSerial
  active : BOOLEAN ]                        \* it has its vein interface and its slot

\* The load point read from the state file is switched off; what the source
\* puts out when it is found is anybody's guess.
Init ==
  /\ isOpen = TRUE
  /\ line = <<>>
  /\ dev = [pollTimer |-> TRUE, pollerPending |-> {},
            currState |-> "UNDEFINED", pollCountBeforeIdleOrError |-> 0,
            pendingSwitchIds |-> {}, pendingStateQueryIds |-> {},
            switcherPending |-> {}, loadpointCurrent |-> Off, loadpointRequestedLast |-> Off,
            closeRequested |-> FALSE, active |-> TRUE]
  /\ output \in Load
  /\ patient \in BOOLEAN
  /\ confirmed = FALSE

idsInLine(kind) == {t.id : t \in {u \in ToSet(line) : u.kind = kind}}

freeIds ==
  TransactionId \ ({t.id : t \in ToSet(line)} \cup dev.pollerPending \cup dev.pendingSwitchIds
                     \cup dev.pendingStateQueryIds \cup dev.switcherPending)

newId == CHOOSE id \in freeIds : \A i \in freeIds : id <= i

ErrorStates == {"ERROR_SWITCH", "ERROR_POLL"}

isErrorState(d) == d.currState \in ErrorStates

isNewError(d, passed) == ~passed /\ ~isErrorState(d)

-----------------------------------------------------------------------------
(* Faulty variants of the steps below: each breaks one of the properties *)

enter(d, s) ==
  IF d.currState = s THEN d
  ELSE [d EXCEPT !.currState = s, !.pollTimer = s \notin ErrorStates]

pollAfterSwitchStaysBusy(d, passed) ==
  LET count == d.pollCountBeforeIdleOrError - 1 IN
  IF isNewError(d, passed)
  THEN [enter(d, "ERROR_SWITCH") EXCEPT !.pollCountBeforeIdleOrError = 0]
  ELSE [d EXCEPT !.pollCountBeforeIdleOrError = count]

stateResponseAlwaysCounts(d, passed) ==
  LET counted == [d EXCEPT !.pollCountBeforeIdleOrError = @ - 1] IN
  CASE isNewError(d, passed) -> enter(counted, "ERROR_POLL")
    [] passed /\ d.currState = "UNDEFINED" -> enter(counted, "IDLE")
    [] OTHER -> counted

stateResponseMakesIdle(d, passed) ==
  CASE isNewError(d, passed) -> enter(d, "ERROR_POLL")
    [] passed -> enter([d EXCEPT !.pollCountBeforeIdleOrError = 0], "IDLE")
    [] OTHER -> d

switcherClosesIfPassed(d, t, passed) ==
  IF t.id \notin d.switcherPending THEN d
  ELSE [d EXCEPT !.switcherPending = @ \ {t.id},
                 !.loadpointCurrent = IF passed THEN d.loadpointRequestedLast ELSE @,
                 !.active = @ /\ ~(passed /\ d.closeRequested)]

switchStateKeepsRequest(d, l) ==
  /\ line' = Append(line, [id |-> newId, kind |-> "switch", load |-> l])
  /\ dev' = [enter([d EXCEPT !.pendingSwitchIds = @ \cup {newId}], "SWITCH_BUSY")
               EXCEPT !.switcherPending = @ \cup {newId}]

closeAtOnce ==
  /\ dev.active
  /\ ~dev.closeRequested
  /\ dev' = [dev EXCEPT !.closeRequested = TRUE, !.pollTimer = FALSE, !.active = FALSE]
  /\ UNCHANGED <<isOpen, line, output, patient, confirmed>>

-----------------------------------------------------------------------------
(* SourceStateController *)

\* setState with setPollingOnStateChange
setState(d, s) ==
  IF d.currState = s THEN d
  ELSE [d EXCEPT !.currState = s, !.pollTimer = s \notin ErrorStates]

handleSwitchResponse(d, passed) ==
  CASE isNewError(d, passed) -> setState(d, "ERROR_SWITCH")
    [] ~isNewError(d, passed) /\ d.currState = "SWITCH_BUSY" ->
         IF PollsAfterSwitch > 0
         THEN [d EXCEPT !.pollCountBeforeIdleOrError = PollsAfterSwitch, !.pollTimer = TRUE]
         ELSE setState(d, "IDLE")
    [] OTHER -> d

\* handleStateResponse while polls decide on a switch
handlePollAfterSwitch(d, passed) ==
  LET count == d.pollCountBeforeIdleOrError - 1
      counted == [d EXCEPT !.pollCountBeforeIdleOrError = count]
  IN  CASE isNewError(d, passed) ->
             [setState(d, "ERROR_SWITCH") EXCEPT !.pollCountBeforeIdleOrError = 0]
        [] ~isNewError(d, passed) /\ count = 0 -> setState(counted, "IDLE")
        [] OTHER -> counted

handleStateResponse(d, passed) ==
  CASE d.pollCountBeforeIdleOrError > 0 -> handlePollAfterSwitch(d, passed)
    [] d.pollCountBeforeIdleOrError = 0 /\ isNewError(d, passed) -> setState(d, "ERROR_POLL")
    [] d.pollCountBeforeIdleOrError = 0 /\ passed /\ d.currState = "UNDEFINED" ->
         setState(d, "IDLE")
    [] OTHER -> d

controllerResponse(d, t, passed) ==
  CASE t.id \in d.pendingSwitchIds ->
         handleSwitchResponse([d EXCEPT !.pendingSwitchIds = @ \ {t.id}], passed)
    [] t.id \in d.pendingStateQueryIds \ d.pendingSwitchIds ->
         handleStateResponse([d EXCEPT !.pendingStateQueryIds = @ \ {t.id}], passed)
    [] OTHER -> d

-----------------------------------------------------------------------------
(* SourceSwitchJsonExtSerial and SourceDeviceExtSerial *)

\* The vein components are reset and disconnected; on sigClosed the manager gives
\* the slot free.
doFinalCloseActivities(d) == [d EXCEPT !.active = FALSE]

\* handleSwitchResponse of the switcher, then onSourceSwitchFinished
switcherResponse(d, t, passed) ==
  IF t.id \notin d.switcherPending THEN d
  ELSE LET s == [d EXCEPT !.switcherPending = @ \ {t.id},
                          !.loadpointCurrent = IF passed THEN d.loadpointRequestedLast ELSE @]
       IN  IF s.closeRequested THEN doFinalCloseActivities(s) ELSE s

\* sigResponseReceived: poller, controller, switcher
responseReceived(d, t, passed) ==
  LET polled == [d EXCEPT !.pollerPending = @ \ {t.id}]
  IN  switcherResponse(controllerResponse(polled, t, passed), t, passed)

\* Transactions are reported one after the other; only the first one may have passed.
afterResponses(d, ts, firstPassed) ==
  LET after[i \in 0..Len(ts)] ==
        IF i = 0 THEN d
        ELSE responseReceived(after[i - 1], ts[i], IF i = 1 THEN firstPassed ELSE FALSE)
  IN  after[Len(ts)]

\* The transactions ts end, in this order.
\* A switch that fails may have been carried out by the source all the same.
transactionsEnd(d, ts, firstPassed) ==
  LET isSwitch(t) == t.kind = "switch"
  IN  IF ts = <<>>
      THEN dev' = d /\ UNCHANGED <<output, confirmed>>
      ELSE /\ dev' = afterResponses(d, ts, firstPassed)
           /\ CASE ~isSwitch(Head(ts)) -> output' = output
                [] isSwitch(Head(ts)) /\ firstPassed -> output' = Head(ts).load
                [] OTHER -> output' \in {output, Head(ts).load}
           /\ confirmed' = IF \E t \in ToSet(ts) : isSwitch(t)
                           THEN /\ isSwitch(Head(ts)) /\ firstPassed
                                /\ \A t \in ToSet(Tail(ts)) : ~isSwitch(t)
                           ELSE confirmed

\* A closed device refuses a transaction: it is answered before anybody waits
\* for the answer.
startTransaction(kind, l) ==
  line' = IF isOpen THEN Append(line, [id |-> newId, kind |-> kind, load |-> l]) ELSE line

\* switchState, with sigTransationStarted heard by controller and switcher
switchState(d, l) ==
  /\ startTransaction("switch", l)
  /\ dev' = [setState([d EXCEPT !.pendingSwitchIds = @ \cup {newId}], "SWITCH_BUSY")
               EXCEPT !.switcherPending = @ \cup {newId},
                      !.loadpointRequestedLast = l]

-----------------------------------------------------------------------------
(* Events *)

\* The poll timer expires: tryStartPollNow.
onPollTimer ==
  /\ dev.pollTimer
  /\ dev.pollerPending = {}
  /\ freeIds # {}
  /\ startTransaction("poll", Off)
  /\ dev' = [dev EXCEPT !.pollerPending = @ \cup {newId},
                        !.pendingStateQueryIds = @ \cup {newId}]
  /\ UNCHANGED <<isOpen, output, patient, confirmed>>

\* A patient client waits until its last switch is through.
switchThrough == dev.currState # "SWITCH_BUSY" /\ dev.switcherPending = {}

\* A client writes the load parameter.
switchLoad(l) ==
  /\ dev.active
  /\ patient => switchThrough
  /\ freeIds # {}
  /\ switchState(dev, l)
  /\ UNCHANGED <<isOpen, output, patient, confirmed>>

\* The manager closes the source for a client.
close ==
  /\ dev.active
  /\ ~dev.closeRequested
  /\ patient => switchThrough
  /\ freeIds # {}
  /\ LET requested == [dev EXCEPT !.closeRequested = TRUE, !.pollTimer = FALSE] IN
     IF dev.loadpointCurrent # Off
     THEN switchState(requested, Off)
     ELSE dev' = doFinalCloseActivities(requested) /\ UNCHANGED line
  /\ UNCHANGED <<isOpen, output, patient, confirmed>>

\* The queue finishes the oldest transaction.
transactionFinishes(passed) ==
  /\ line # <<>>
  /\ transactionsEnd(dev, <<Head(line)>>, passed)
  /\ line' = Tail(line)
  /\ UNCHANGED <<isOpen, patient>>

\* The device reports an I/O error: the queue aborts the line, the device stays open.
ioError ==
  /\ line # <<>>
  /\ transactionsEnd(dev, line, FALSE)
  /\ line' = <<>>
  /\ UNCHANGED <<isOpen, patient>>

\* sigDisconnected: the queue aborts the line, onIoDeviceClosed.  The first
\* transaction may have had all its answers already.
disconnected(d) ==
  /\ isOpen
  /\ isOpen' = FALSE
  /\ line' = <<>>
  /\ \E passed \in BOOLEAN : transactionsEnd(doFinalCloseActivities(d), line, passed)
  /\ UNCHANGED patient

ioDisconnects == disconnected(dev)

\* close() of a demo device, every other time: tryDemoCloseByUsbDisconnect.
demoClose ==
  /\ DemoIo
  /\ dev.active
  /\ ~dev.closeRequested
  /\ disconnected([dev EXCEPT !.closeRequested = TRUE])

TransactionEnds == (\E passed \in BOOLEAN : transactionFinishes(passed)) \/ ioError

Next ==
  \/ onPollTimer
  \/ \E l \in Load : switchLoad(l)
  \/ close
  \/ demoClose
  \/ TransactionEnds
  \/ ioDisconnects

Spec == Init /\ [][Next]_vars

\* The timer runs, and transactions end (GroupFifo, EveryGroupFinishes of IoQueue).
FairSpec == Spec /\ WF_vars(onPollTimer) /\ WF_vars(TransactionEnds)

-----------------------------------------------------------------------------
(* Properties *)

TypeOK ==
  /\ isOpen \in BOOLEAN
  /\ line \in Seq(Transaction)
  /\ dev \in Device
  /\ output \in Load
  /\ patient \in BOOLEAN
  /\ confirmed \in BOOLEAN

\* After a successful switch the load point shown, and saved to the state file, is
\* what the source puts out, even though it is taken from the last request and
\* not from the transaction answered (handleSwitchResponse of the switcher). Between the
\* answers to switches that overlap it may be wrong; only the end of the last one settles it.
CurrentIsOutput ==
  confirmed /\ idsInLine("switch") = {} => dev.loadpointCurrent = output

\* A source that is closed is off when its client waited for its switches and the last
\* switch answered had passed; a switch-on that failed although the source carried it out
\* leaves it on, as close reads the load point shown. An unplugged source is out of reach
\* (close).
ClosedIsOff == patient /\ ~dev.active /\ isOpen /\ confirmed => output = Off

\* A switch is decided some time: the source does not stay busy for ever, unless a client
\* goes on switching; and closing a source ends, whatever the device and the clients do
\* meanwhile (handleSwitchResponse, handlePollAfterSwitch, doFinalCloseActivities).
EverythingEnds ==
  /\ patient /\ dev.currState = "SWITCH_BUSY" ~> dev.currState # "SWITCH_BUSY" \/ ~dev.active
  /\ dev.closeRequested ~> ~dev.active

\* What the device status component shows
shownStatus ==
  CASE ~dev.active -> "gone"
    [] dev.active /\ dev.currState = "UNDEFINED" -> "unknown"
    [] dev.active /\ dev.currState = "IDLE" -> "idle"
    [] dev.active /\ dev.currState = "SWITCH_BUSY" -> "busy"
    [] dev.active /\ isErrorState(dev) -> "failed"

\* A client that waits for its switches can rely on the status as SourceStatus
\* says: busy ends in idle or failed, never in idle while the switch is under way although
\* polls are answered meanwhile, and failed stays until the next switch.  To a client
\* that does not wait nothing is promised.
Status ==
  INSTANCE SourceStatus WITH
    shown <- IF patient THEN shownStatus ELSE "unknown",
    switching <- patient /\ idsInLine("switch") # {}
ImplementsSourceStatus == Status!Spec
=============================================================================
