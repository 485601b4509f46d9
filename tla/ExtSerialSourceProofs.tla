----------------------- MODULE ExtSerialSourceProofs -----------------------
(***************************************************************************)
(* What holds of ExtSerialSource for any loads, any number of polls after  *)
(* a switch and any number of transactions, checked by TLAPS.              *)
(***************************************************************************)
EXTENDS ExtSerialSource, SequenceTheorems, WellFoundedInduction, TLAPS

noSwitch(l) == \A i \in 1..Len(l) : l[i].kind # "switch"
oneSwitch(l) ==
  \A i, j \in 1..Len(l) : l[i].kind = "switch" /\ l[j].kind = "switch" => i = j

\* Each transaction in the line is one that its sender still waits for, under an id of its own.
Awaited(l, d) ==
  /\ \A i, j \in 1..Len(l) : l[i].id = l[j].id => i = j
  /\ \A i \in 1..Len(l) :
       /\ l[i].kind = "switch" => l[i].id \in d.switcherPending \cap d.pendingSwitchIds
       /\ l[i].kind = "poll" => l[i].id \notin d.switcherPending \cup d.pendingSwitchIds

\* The last switch in the line is the one the load point will be taken from.
LastIsRequested(l, d) ==
  \A i \in 1..Len(l) :
    l[i].kind = "switch" /\ (\A j \in 1..Len(l) : i < j => l[j].kind # "switch") =>
      l[i].load = d.loadpointRequestedLast

\* A client that waits has one switch under way at most.  Polls are only counted when it is
\* through, and until then the source is busy or has failed.  If it is the one that closes
\* the source, it switches off.
Patience(l, d) ==
  /\ oneSwitch(l)
  /\ d.active =>
       /\ d.pollCountBeforeIdleOrError > 0 => d.currState = "SWITCH_BUSY" /\ noSwitch(l)
       /\ noSwitch(l) \/ d.currState \in {"SWITCH_BUSY"} \cup ErrorStates
       /\ d.closeRequested => d.loadpointRequestedLast = Off /\ d.switcherPending # {}

IInv ==
  /\ TypeOK
  /\ isOpen \/ line = <<>>
  /\ Awaited(line, dev)
  /\ LastIsRequested(line, dev)
  /\ confirmed /\ noSwitch(line) => dev.loadpointCurrent = output
  /\ patient => Patience(line, dev)
  /\ patient /\ ~dev.active /\ isOpen => noSwitch(line) /\ (confirmed => output = Off)

-----------------------------------------------------------------------------
(* Numbers *)

\* Induction over the natural numbers, for a set of them
LEMMA NumbersFromZero ==
  ASSUME NEW S, 0 \in S, \A n \in Nat : n \in S => n + 1 \in S
  PROVE  Nat \subseteq S
<1> DEFINE T == Nat \ S
           R == OpToRel(<, Nat)
<1> SUFFICES ASSUME T # {}
             PROVE  FALSE
  OBVIOUS
<1>1. IsWellFoundedOn(R, Nat) /\ T \subseteq Nat
  BY NatLessThanWellFounded
<1>2. PICK x \in T : \A y \in T : <<y, x>> \notin R
  <2> HIDE DEF T, R
  <2> QED
    BY <1>1, WFMin, Zenon
<1>3. \A y \in T : ~(y < x)
  <2> SUFFICES ASSUME NEW y \in T, y < x
               PROVE  FALSE
    OBVIOUS
  <2>1. <<y, x>> \in R
    BY DEF OpToRel
  <2> QED
    BY <2>1, <1>2
<1>4. x - 1 \in Nat /\ x - 1 < x /\ x - 1 + 1 = x
  OBVIOUS
<1>5. x - 1 \in S
  BY <1>3, <1>4
<1> QED
  BY <1>4, <1>5

\* A set of natural numbers has a least one.
LEMMA LeastNumber ==
  ASSUME NEW T \in SUBSET Nat, T # {}
  PROVE  \E x \in T : \A y \in T : x <= y
<1> DEFINE R == OpToRel(<, Nat)
<1>1. IsWellFoundedOn(R, Nat)
  BY NatLessThanWellFounded
<1>2. PICK x \in T : \A y \in T : <<y, x>> \notin R
  <2> HIDE DEF R
  <2> QED
    BY <1>1, WFMin, Zenon
<1>3. \A y \in T : x <= y
  <2> SUFFICES ASSUME NEW y \in T, ~(x <= y)
               PROVE  FALSE
    OBVIOUS
  <2>1. y < x /\ y \in Nat /\ x \in Nat
    OBVIOUS
  <2>2. <<y, x>> \in R
    BY <2>1 DEF OpToRel
  <2> QED
    BY <2>2, <1>2
<1> QED
  BY <1>3

\* What holds at 0, and at a number when it holds at the one before, holds up to n.
LEMMA UpTo ==
  ASSUME NEW n \in Nat, NEW S, 0 \in S, \A i \in 1..n : i - 1 \in S => i \in S
  PROVE  0..n \subseteq S
<1> DEFINE T == {i \in Nat : i <= n => i \in S}
<1>1. 0 \in T
  OBVIOUS
<1>2. ASSUME NEW i \in Nat, i \in T
      PROVE  i + 1 \in T
  <2>1. CASE i + 1 <= n
    <3>1. i + 1 \in 1..n /\ i + 1 - 1 = i /\ i <= n
      BY <2>1
    <3> QED
      BY <1>2, <3>1
  <2> QED
    BY <2>1
<1>3. Nat \subseteq T
  <2> HIDE DEF T
  <2> QED
    BY <1>1, <1>2, NumbersFromZero
<1> QED
  BY <1>3

-----------------------------------------------------------------------------
(* What a response does *)

\* An id for a new transaction can be chosen, and is new.
LEMMA NewIdIsFree ==
  ASSUME freeIds # {}
  PROVE  newId \in freeIds
<1>1. freeIds \in SUBSET Nat
  BY SourceAssumption DEF freeIds
<1>2. \E id \in freeIds : \A i \in freeIds : id <= i
  BY <1>1, LeastNumber
<1> QED
  BY <1>2 DEF newId

\* What the controller leaves alone
Untouched(d, e) ==
  /\ e.pollerPending = d.pollerPending
  /\ e.switcherPending = d.switcherPending
  /\ e.loadpointCurrent = d.loadpointCurrent
  /\ e.loadpointRequestedLast = d.loadpointRequestedLast
  /\ e.closeRequested = d.closeRequested
  /\ e.active = d.active

\* What setState does
StateSet(d, e, s) ==
  /\ e \in Device
  /\ e.currState = s
  /\ e.pollCountBeforeIdleOrError = d.pollCountBeforeIdleOrError
  /\ e.pendingSwitchIds = d.pendingSwitchIds
  /\ Untouched(d, e)

LEMMA SetState ==
  ASSUME NEW d \in Device, NEW s \in States
  PROVE  StateSet(d, setState(d, s), s)
BY DEF setState, Device, States, Untouched, StateSet

\* What the answer to a switch makes of the state
SwitchAnswered(d, e, passed) ==
  \/ /\ ~passed /\ d.currState \notin ErrorStates /\ e.currState = "ERROR_SWITCH"
     /\ e.pollCountBeforeIdleOrError = d.pollCountBeforeIdleOrError
  \/ passed /\ d.currState = "SWITCH_BUSY" /\ e.currState = "SWITCH_BUSY"
  \/ /\ passed /\ d.currState = "SWITCH_BUSY" /\ e.currState = "IDLE"
     /\ e.pollCountBeforeIdleOrError = d.pollCountBeforeIdleOrError
  \/ /\ passed \/ d.currState \in ErrorStates
     /\ d.currState # "SWITCH_BUSY"
     /\ e.currState = d.currState
     /\ e.pollCountBeforeIdleOrError = d.pollCountBeforeIdleOrError

\* What the answer to a poll makes of the state
PollAnswered(d, e, passed) ==
  \/ /\ ~passed /\ d.currState \notin ErrorStates /\ e.currState \in ErrorStates
     /\ e.pollCountBeforeIdleOrError = 0
  \/ /\ d.pollCountBeforeIdleOrError > 0
     /\ passed \/ d.currState \in ErrorStates
     /\ e.pollCountBeforeIdleOrError = d.pollCountBeforeIdleOrError - 1
     /\ e.currState = IF e.pollCountBeforeIdleOrError = 0 THEN "IDLE" ELSE d.currState
  \/ /\ d.pollCountBeforeIdleOrError = 0 /\ e.pollCountBeforeIdleOrError = 0
     /\ passed /\ d.currState = "UNDEFINED" /\ e.currState = "IDLE"
  \/ /\ d.pollCountBeforeIdleOrError = 0 /\ e.pollCountBeforeIdleOrError = 0
     /\ e.currState = d.currState

LEMMA SwitchResponse ==
  ASSUME NEW d \in Device, NEW passed \in BOOLEAN,
         NEW e, e = handleSwitchResponse(d, passed)
  PROVE  /\ e \in Device
         /\ Untouched(d, e)
         /\ e.pendingSwitchIds = d.pendingSwitchIds
         /\ SwitchAnswered(d, e, passed)
<1>1. /\ d.currState \in States /\ PollsAfterSwitch \in Nat
      /\ "ERROR_SWITCH" \in States /\ "IDLE" \in States
  BY SourceAssumption DEF Device, States
<1>2. CASE isNewError(d, passed)
  <2>1. e = setState(d, "ERROR_SWITCH")
    BY <1>2 DEF handleSwitchResponse
  <2>2. ~passed /\ d.currState \notin ErrorStates
    BY <1>2 DEF isNewError, isErrorState
  <2>3. StateSet(d, e, "ERROR_SWITCH")
    BY <1>1, <2>1, SetState
  <2> QED
    BY <2>2, <2>3 DEF SwitchAnswered, StateSet
<1>3. CASE ~isNewError(d, passed) /\ d.currState = "SWITCH_BUSY" /\ PollsAfterSwitch > 0
  <2>1. e = [d EXCEPT !.pollCountBeforeIdleOrError = PollsAfterSwitch, !.pollTimer = TRUE]
    BY <1>3 DEF handleSwitchResponse
  <2>2. passed
    BY <1>3 DEF isNewError, isErrorState, ErrorStates
  <2> QED
    BY <1>1, <1>3, <2>1, <2>2 DEF Untouched, SwitchAnswered, Device
<1>4. CASE ~isNewError(d, passed) /\ d.currState = "SWITCH_BUSY" /\ ~(PollsAfterSwitch > 0)
  <2>1. e = setState(d, "IDLE")
    BY <1>4 DEF handleSwitchResponse
  <2>2. passed
    BY <1>4 DEF isNewError, isErrorState, ErrorStates
  <2>3. StateSet(d, e, "IDLE")
    BY <1>1, <2>1, SetState
  <2> QED
    BY <1>4, <2>2, <2>3 DEF SwitchAnswered, StateSet
<1>5. CASE ~isNewError(d, passed) /\ d.currState # "SWITCH_BUSY"
  <2>1. e = d
    BY <1>5 DEF handleSwitchResponse
  <2>2. passed \/ d.currState \in ErrorStates
    BY <1>5 DEF isNewError, isErrorState
  <2> QED
    BY <1>5, <2>1, <2>2 DEF Untouched, SwitchAnswered
<1> QED
  BY <1>2, <1>3, <1>4, <1>5

LEMMA StateResponse ==
  ASSUME NEW d \in Device, NEW passed \in BOOLEAN,
         NEW e, e = handleStateResponse(d, passed)
  PROVE  /\ e \in Device
         /\ Untouched(d, e)
         /\ e.pendingSwitchIds = d.pendingSwitchIds
         /\ PollAnswered(d, e, passed)
<1> DEFINE count == d.pollCountBeforeIdleOrError
           counted == [d EXCEPT !.pollCountBeforeIdleOrError = count - 1]
<1>1. /\ d.currState \in States /\ count \in Nat
      /\ "ERROR_SWITCH" \in States /\ "ERROR_POLL" \in States /\ "IDLE" \in States
      /\ "ERROR_SWITCH" \in ErrorStates /\ "ERROR_POLL" \in ErrorStates
  BY DEF Device, States, ErrorStates
<1>2. isNewError(d, passed) <=> ~passed /\ d.currState \notin ErrorStates
  BY DEF isNewError, isErrorState
<1>3. CASE count > 0 /\ isNewError(d, passed)
  <2> DEFINE failed == setState(d, "ERROR_SWITCH")
  <2>1. e = [failed EXCEPT !.pollCountBeforeIdleOrError = 0]
    BY <1>3 DEF handleStateResponse, handlePollAfterSwitch
  <2>2. failed \in Device /\ failed.currState = "ERROR_SWITCH" /\ Untouched(d, failed)
        /\ failed.pendingSwitchIds = d.pendingSwitchIds
    BY <1>1, SetState DEF StateSet, Untouched
  <2> HIDE DEF failed
  <2> QED
    BY <1>1, <1>2, <1>3, <2>1, <2>2 DEF Untouched, PollAnswered, Device
<1>4. CASE count > 0 /\ ~isNewError(d, passed)
  <2>1. /\ counted \in Device /\ Untouched(d, counted) /\ counted.currState = d.currState
        /\ counted.pendingSwitchIds = d.pendingSwitchIds
        /\ counted.pollCountBeforeIdleOrError = count - 1
    BY <1>1, <1>4 DEF Untouched, Device
  <2>2. e = IF count - 1 = 0 THEN setState(counted, "IDLE") ELSE counted
    BY <1>4 DEF handleStateResponse, handlePollAfterSwitch
  <2> HIDE DEF counted
  <2>3. CASE count - 1 = 0
    <3>1. e = setState(counted, "IDLE")
      BY <2>2, <2>3
    <3>2. StateSet(counted, e, "IDLE")
      BY <1>1, <2>1, <3>1, SetState
    <3> QED
      BY <1>2, <1>4, <2>1, <2>3, <3>2 DEF Untouched, PollAnswered, StateSet
  <2>4. CASE count - 1 # 0
    <3>1. e = counted
      BY <2>2, <2>4
    <3> QED
      BY <1>2, <1>4, <2>1, <2>4, <3>1 DEF PollAnswered
  <2> QED
    BY <2>3, <2>4
<1>5. CASE count = 0 /\ isNewError(d, passed)
  <2>1. e = setState(d, "ERROR_POLL")
    <3>1. ~(count > 0) /\ ~passed
      BY <1>2, <1>5
    <3> QED
      BY <1>5, <3>1 DEF handleStateResponse
  <2>2. StateSet(d, e, "ERROR_POLL")
    BY <1>1, <2>1, SetState
  <2> QED
    BY <1>1, <1>2, <1>5, <2>2 DEF PollAnswered, StateSet
<1>6. CASE count = 0 /\ ~isNewError(d, passed)
  <2>1. CASE passed /\ d.currState = "UNDEFINED"
    <3>1. e = setState(d, "IDLE")
      BY <1>6, <2>1 DEF handleStateResponse
    <3>2. StateSet(d, e, "IDLE")
      BY <1>1, <3>1, SetState
    <3> QED
      BY <1>6, <2>1, <3>2 DEF PollAnswered, StateSet
  <2>2. CASE ~(passed /\ d.currState = "UNDEFINED")
    <3>1. e = d
      BY <1>6, <2>2 DEF handleStateResponse
    <3> QED
      BY <1>6, <3>1 DEF Untouched, PollAnswered
  <2> QED
    BY <2>1, <2>2
<1> QED
  BY <1>1, <1>3, <1>4, <1>5, <1>6

\* What the end of a transaction makes of the objects of the source
Reported(d, e, t, passed) ==
  /\ e \in Device
  /\ e.switcherPending = d.switcherPending \ {t.id}
  /\ e.pendingSwitchIds = d.pendingSwitchIds \ {t.id}
  /\ e.loadpointCurrent = IF t.id \in d.switcherPending /\ passed
                          THEN d.loadpointRequestedLast ELSE d.loadpointCurrent
  /\ e.loadpointRequestedLast = d.loadpointRequestedLast
  /\ e.closeRequested = d.closeRequested
  /\ e.active <=> d.active /\ ~(t.id \in d.switcherPending /\ d.closeRequested)
  /\ t.id \in d.pendingSwitchIds => SwitchAnswered(d, e, passed)
  /\ t.id \notin d.pendingSwitchIds =>
       \/ PollAnswered(d, e, passed)
       \/ /\ e.currState = d.currState
          /\ e.pollCountBeforeIdleOrError = d.pollCountBeforeIdleOrError

LEMMA Response ==
  ASSUME NEW d \in Device, NEW t \in Transaction, NEW passed \in BOOLEAN,
         NEW e, e = responseReceived(d, t, passed)
  PROVE  Reported(d, e, t, passed)
<1> DEFINE polled == [d EXCEPT !.pollerPending = @ \ {t.id}]
           c == controllerResponse(polled, t, passed)
<1>1. polled \in Device
  BY DEF Device
<1>2. /\ polled.switcherPending = d.switcherPending
      /\ polled.pendingSwitchIds = d.pendingSwitchIds
      /\ polled.pendingStateQueryIds = d.pendingStateQueryIds
      /\ polled.loadpointCurrent = d.loadpointCurrent
      /\ polled.loadpointRequestedLast = d.loadpointRequestedLast
      /\ polled.closeRequested = d.closeRequested
      /\ polled.active = d.active
      /\ polled.currState = d.currState
      /\ polled.pollCountBeforeIdleOrError = d.pollCountBeforeIdleOrError
  BY DEF Device
<1>3. e = switcherResponse(c, t, passed)
  BY DEF responseReceived
<1> HIDE DEF polled
<1>4. /\ c \in Device
      /\ Untouched(polled, c)
      /\ c.pendingSwitchIds = d.pendingSwitchIds \ {t.id}
      /\ t.id \in d.pendingSwitchIds => SwitchAnswered(polled, c, passed)
      /\ t.id \notin d.pendingSwitchIds =>
           \/ PollAnswered(polled, c, passed)
           \/ /\ c.currState = polled.currState
              /\ c.pollCountBeforeIdleOrError = polled.pollCountBeforeIdleOrError
  <2>1. CASE t.id \in d.pendingSwitchIds
    <3> DEFINE b == [polled EXCEPT !.pendingSwitchIds = @ \ {t.id}]
    <3>1. c = handleSwitchResponse(b, passed)
      BY <1>2, <2>1 DEF controllerResponse
    <3>2. /\ b \in Device /\ Untouched(polled, b) /\ b.currState = polled.currState
          /\ b.pollCountBeforeIdleOrError = polled.pollCountBeforeIdleOrError
          /\ b.pendingSwitchIds = d.pendingSwitchIds \ {t.id}
      BY <1>1, <1>2 DEF Device, Untouched
    <3> HIDE DEF b, c
    <3>3. /\ c \in Device /\ Untouched(b, c) /\ c.pendingSwitchIds = b.pendingSwitchIds
          /\ SwitchAnswered(b, c, passed)
      BY <3>1, <3>2, SwitchResponse
    <3> QED
      BY <2>1, <3>2, <3>3 DEF Untouched, SwitchAnswered
  <2>2. CASE t.id \notin d.pendingSwitchIds /\ t.id \in d.pendingStateQueryIds
    <3> DEFINE b == [polled EXCEPT !.pendingStateQueryIds = @ \ {t.id}]
    <3>1. c = handleStateResponse(b, passed)
      BY <1>2, <2>2 DEF controllerResponse
    <3>2. /\ b \in Device /\ Untouched(polled, b) /\ b.currState = polled.currState
          /\ b.pollCountBeforeIdleOrError = polled.pollCountBeforeIdleOrError
          /\ b.pendingSwitchIds = d.pendingSwitchIds
      BY <1>1, <1>2 DEF Device, Untouched
    <3> HIDE DEF b, c
    <3>3. /\ c \in Device /\ Untouched(b, c) /\ c.pendingSwitchIds = b.pendingSwitchIds
          /\ PollAnswered(b, c, passed)
      BY <3>1, <3>2, StateResponse
    <3> QED
      BY <2>2, <3>2, <3>3 DEF Untouched, PollAnswered
  <2>3. CASE t.id \notin d.pendingSwitchIds /\ t.id \notin d.pendingStateQueryIds
    <3>1. c = polled
      BY <1>2, <2>3 DEF controllerResponse
    <3> HIDE DEF c
    <3> QED
      BY <1>1, <1>2, <2>3, <3>1 DEF Untouched
  <2> HIDE DEF c
  <2> QED
    BY <2>1, <2>2, <2>3
<1> HIDE DEF c
<1>5. /\ t.id \in d.pendingSwitchIds => SwitchAnswered(d, c, passed)
      /\ t.id \notin d.pendingSwitchIds =>
           \/ PollAnswered(d, c, passed)
           \/ /\ c.currState = d.currState
              /\ c.pollCountBeforeIdleOrError = d.pollCountBeforeIdleOrError
  BY <1>2, <1>4 DEF SwitchAnswered, PollAnswered
<1>6. /\ c.switcherPending = d.switcherPending
      /\ c.loadpointCurrent = d.loadpointCurrent
      /\ c.loadpointRequestedLast = d.loadpointRequestedLast
      /\ c.closeRequested = d.closeRequested
      /\ c.active = d.active
  BY <1>2, <1>4 DEF Untouched
<1>7. CASE t.id \notin d.switcherPending
  <2>1. e = c
    BY <1>3, <1>6, <1>7 DEF switcherResponse
  <2> QED
    BY <1>4, <1>5, <1>6, <1>7, <2>1 DEF Reported
<1>8. CASE t.id \in d.switcherPending
  <2> DEFINE s == [c EXCEPT !.switcherPending = @ \ {t.id},
                            !.loadpointCurrent = IF passed THEN c.loadpointRequestedLast ELSE @]
             f == [s EXCEPT !.active = FALSE]
  <2>1. e = IF s.closeRequested THEN f ELSE s
    BY <1>3, <1>6, <1>8 DEF switcherResponse, doFinalCloseActivities
  <2>2. /\ s \in Device
        /\ s.switcherPending = d.switcherPending \ {t.id}
        /\ s.pendingSwitchIds = c.pendingSwitchIds
        /\ s.loadpointCurrent = IF passed THEN d.loadpointRequestedLast ELSE d.loadpointCurrent
        /\ s.loadpointRequestedLast = d.loadpointRequestedLast
        /\ s.closeRequested = d.closeRequested
        /\ s.active = d.active
        /\ s.currState = c.currState
        /\ s.pollCountBeforeIdleOrError = c.pollCountBeforeIdleOrError
    BY <1>4, <1>6 DEF Device
  <2> HIDE DEF s
  <2>3. /\ f \in Device
        /\ f.switcherPending = s.switcherPending
        /\ f.pendingSwitchIds = s.pendingSwitchIds
        /\ f.loadpointCurrent = s.loadpointCurrent
        /\ f.loadpointRequestedLast = s.loadpointRequestedLast
        /\ f.closeRequested = s.closeRequested
        /\ f.active = FALSE
        /\ f.currState = s.currState
        /\ f.pollCountBeforeIdleOrError = s.pollCountBeforeIdleOrError
    BY <2>2 DEF Device
  <2> HIDE DEF f
  <2> QED
    BY <1>4, <1>5, <1>8, <2>1, <2>2, <2>3 DEF SwitchAnswered, PollAnswered, Reported
<1> QED
  BY <1>7, <1>8

-----------------------------------------------------------------------------
(* What the end of several transactions does: the objects go through a run of states *)

Run(f, d, ts, n, firstPassed) ==
  f = [i \in 0..n |-> IF i = 0 THEN d
                      ELSE responseReceived(f[i - 1], ts[i], IF i = 1 THEN firstPassed ELSE FALSE)]

\* A run that goes one step further
LEMMA LongerRun ==
  ASSUME NEW d, NEW ts, NEW firstPassed, NEW n \in Nat, NEW f, Run(f, d, ts, n, firstPassed)
  PROVE  \E g : Run(g, d, ts, n + 1, firstPassed)
<1> DEFINE next(r, i) == responseReceived(r, ts[i], IF i = 1 THEN firstPassed ELSE FALSE)
           g == [i \in 0..(n + 1) |-> IF i <= n THEN f[i] ELSE next(f[n], i)]
<1>1. \A i \in 0..n : f[i] = IF i = 0 THEN d ELSE next(f[i - 1], i)
  <2> DEFINE h(r, i) == IF i = 0 THEN d ELSE next(r[i - 1], i)
  <2>1. f = [i \in 0..n |-> h(f, i)]
    BY Zenon DEF Run
  <2> HIDE DEF h, next
  <2>2. \A i \in 0..n : f[i] = h(f, i)
    BY <2>1
  <2> QED
    BY <2>2 DEF h
<1> HIDE DEF next
<1>2. ASSUME NEW i \in 0..(n + 1)
      PROVE  g[i] = IF i = 0 THEN d ELSE next(g[i - 1], i)
  <2>1. CASE i = 0
    BY <2>1, <1>1
  <2>2. CASE i # 0 /\ i <= n
    <3>1. i - 1 \in 0..n /\ i \in 0..n /\ i - 1 \in 0..(n + 1)
      BY <2>2
    <3>2. g[i] = f[i] /\ g[i - 1] = f[i - 1]
      BY <2>2, <3>1
    <3> HIDE DEF g
    <3> QED
      BY <1>1, <2>2, <3>1, <3>2
  <2>3. CASE i = n + 1
    <3>1. g[n] = f[n] /\ g[i] = next(f[n], i) /\ i - 1 = n /\ i # 0
      BY <2>3
    <3> HIDE DEF g
    <3> QED
      BY <3>1
  <2> QED
    BY <2>1, <2>2, <2>3
<1>3. g = [i \in 0..(n + 1) |-> IF i = 0 THEN d ELSE next(g[i - 1], i)]
  <2>1. g = [i \in 0..(n + 1) |-> g[i]]
    OBVIOUS
  <2> HIDE DEF g
  <2> QED
    BY <1>2, <2>1, Zenon
<1> HIDE DEF g
<1>4. Run(g, d, ts, n + 1, firstPassed)
  BY <1>3, Zenon DEF Run, next
<1> QED
  BY <1>4

LEMMA RunExists ==
  ASSUME NEW d, NEW ts, NEW firstPassed, NEW n \in Nat
  PROVE  \E f : Run(f, d, ts, n, firstPassed)
<1> DEFINE S == {i \in Nat : \E f : Run(f, d, ts, i, firstPassed)}
<1>1. 0 \in S
  <2> DEFINE f == [i \in 0..0 |-> d]
  <2>1. \A i \in 0..0 : i = 0
    OBVIOUS
  <2>2. f = [i \in 0..0 |-> IF i = 0 THEN d ELSE responseReceived(f[i - 1], ts[i], IF i = 1 THEN firstPassed ELSE FALSE)]
    BY <2>1, Zenon
  <2> HIDE DEF f
  <2>3. Run(f, d, ts, 0, firstPassed)
    BY <2>2, Zenon DEF Run
  <2> QED
    BY <2>3
<1>2. \A i \in Nat : i \in S => i + 1 \in S
  BY LongerRun
<1>3. n \in S
  <2> HIDE DEF S
  <2> QED
    BY <1>1, <1>2, NumbersFromZero
<1> QED
  BY <1>3

\* The objects of the source go through a run of states, one per transaction.
Passage(f, d, e, ts, firstPassed) ==
  /\ f[0] = d
  /\ f[Len(ts)] = e
  /\ \A i \in 1..Len(ts) :
       Reported(f[i - 1], f[i], ts[i], IF i = 1 THEN firstPassed ELSE FALSE)
  /\ \A i \in 0..Len(ts) : f[i] \in Device

LEMMA Responses ==
  ASSUME NEW d \in Device, NEW ts \in Seq(Transaction), NEW firstPassed \in BOOLEAN,
         NEW e, e = afterResponses(d, ts, firstPassed)
  PROVE  \E f : Passage(f, d, e, ts, firstPassed)
<1> DEFINE n == Len(ts)
           f == CHOOSE r : Run(r, d, ts, n, firstPassed)
           next(r, i) == responseReceived(r, ts[i], IF i = 1 THEN firstPassed ELSE FALSE)
<1>1. n \in Nat
  BY LenProperties
<1>2. Run(f, d, ts, n, firstPassed)
  <2> HIDE DEF n
  <2> QED
    BY <1>1, RunExists
<1>3. afterResponses(d, ts, firstPassed) = f[n]
  BY Zenon DEF afterResponses, Run
<1> HIDE DEF f
<1>4. f[0] = d /\ \A i \in 1..n : f[i] = next(f[i - 1], i)
  <2> DEFINE h(r, i) == IF i = 0 THEN d ELSE next(r[i - 1], i)
  <2>1. f = [i \in 0..n |-> h(f, i)]
    BY <1>2, Zenon DEF Run
  <2> HIDE DEF h, n, next
  <2>2. \A i \in 0..n : f[i] = h(f, i)
    BY <2>1
  <2>3. 0 \in 0..n /\ \A i \in 1..n : i \in 0..n /\ i # 0
    BY <1>1
  <2> QED
    BY <2>2, <2>3 DEF h
<1>5. 0..n \subseteq {i \in 0..n : f[i] \in Device}
  <2> DEFINE S == {i \in 0..n : f[i] \in Device}
  <2>1. 0 \in S
    BY <1>1, <1>4
  <2>2. ASSUME NEW i \in 1..n, i - 1 \in S
        PROVE  i \in S
    <3>1. f[i - 1] \in Device /\ ts[i] \in Transaction
      BY <2>2, ElementOfSeq
    <3>2. (IF i = 1 THEN firstPassed ELSE FALSE) \in BOOLEAN
      OBVIOUS
    <3>3. Reported(f[i - 1], f[i], ts[i], IF i = 1 THEN firstPassed ELSE FALSE)
      BY <1>4, <3>1, <3>2, Response
    <3>4. f[i] \in Device /\ i \in 0..n
      BY <1>1, <3>3 DEF Reported
    <3> QED
      BY <3>4
  <2> HIDE DEF S, n
  <2>3. 0..n \subseteq S
    BY <1>1, <2>1, <2>2, UpTo
  <2> QED
    BY <2>3 DEF S
<1>6. ASSUME NEW i \in 1..n
      PROVE  Reported(f[i - 1], f[i], ts[i], IF i = 1 THEN firstPassed ELSE FALSE)
  <2>1. i - 1 \in 0..n /\ ts[i] \in Transaction
    BY <1>1, ElementOfSeq
  <2>2. (IF i = 1 THEN firstPassed ELSE FALSE) \in BOOLEAN
    OBVIOUS
  <2>3. f[i - 1] \in Device
    BY <1>5, <2>1
  <2> QED
    BY <1>4, <2>1, <2>2, <2>3, Response
<1> HIDE DEF n
<1>7. \A i \in 0..n : f[i] \in Device
  BY <1>5
<1>8. Passage(f, d, e, ts, firstPassed)
  BY <1>3, <1>4, <1>6, <1>7, Zenon DEF n, Passage
<1> QED
  BY <1>8

\* What several responses keep
Kept(d, e) ==
  /\ e \in Device
  /\ e.loadpointRequestedLast = d.loadpointRequestedLast
  /\ e.closeRequested = d.closeRequested
  /\ e.active => d.active
  /\ e.active /\ d.closeRequested => e.switcherPending = d.switcherPending
  /\ e.switcherPending \subseteq d.switcherPending
  /\ e.pendingSwitchIds \subseteq d.pendingSwitchIds

\* Only the first response can change the load point.
NewCurrent(d, ts, firstPassed) ==
  IF firstPassed /\ ts[1].id \in d.switcherPending
  THEN d.loadpointRequestedLast ELSE d.loadpointCurrent

LEMMA BatchKeeps ==
  ASSUME NEW d \in Device, NEW ts \in Seq(Transaction), ts # <<>>, NEW firstPassed \in BOOLEAN,
         NEW e, e = afterResponses(d, ts, firstPassed)
  PROVE  /\ Kept(d, e)
         /\ e.loadpointCurrent = NewCurrent(d, ts, firstPassed)
         /\ (\A i \in 1..Len(ts) : ts[i].id \notin d.switcherPending) => e.active = d.active
<1> DEFINE n == Len(ts)
           current == NewCurrent(d, ts, firstPassed)
<1>1. n \in Nat \ {0}
  BY EmptySeq
<1>0. PICK f : Passage(f, d, e, ts, firstPassed)
  BY Responses
<1>2. /\ f[0] = d
      /\ f[n] = e
      /\ \A i \in 1..n :
           Reported(f[i - 1], f[i], ts[i], IF i = 1 THEN firstPassed ELSE FALSE)
      /\ \A i \in 0..n : f[i] \in Device
  BY <1>0, Zenon DEF Passage
<1> DEFINE noneClosed == \A i \in 1..n : ts[i].id \notin d.switcherPending
           S == {i \in 0..n : /\ Kept(d, f[i])
                              /\ i > 0 => f[i].loadpointCurrent = current
                              /\ noneClosed => (f[i].active <=> d.active)}
<1> HIDE DEF n, noneClosed
<1>3. 0 \in S
  BY <1>1, <1>2 DEF Kept
<1>4. ASSUME NEW i \in 1..n, i - 1 \in S
      PROVE  i \in S
  <2> DEFINE p == IF i = 1 THEN firstPassed ELSE FALSE
             x == f[i - 1]
             y == f[i]
  <2>1. /\ Kept(d, x) /\ Reported(x, y, ts[i], p)
        /\ i - 1 > 0 => x.loadpointCurrent = current
        /\ noneClosed => (x.active <=> d.active)
        /\ i \in 0..n
    <3>1. Reported(x, y, ts[i], p)
      BY <1>2, Zenon
    <3> HIDE DEF p, y
    <3> QED
      BY <1>1, <1>4, <3>1
  <2>2. i = 1 => x = d /\ p = firstPassed
    BY <1>2
  <2>3. i # 1 => i - 1 > 0 /\ ~p
    BY <1>1
  <2> HIDE DEF p, x, current
  <2>4. Kept(d, y)
    BY <2>1 DEF Kept, Reported
  <2>5. y.loadpointCurrent = current
    <3>1. CASE i = 1
      BY <2>1, <2>2, <3>1 DEF Reported, current, NewCurrent
    <3>2. CASE i # 1
      BY <2>1, <2>3, <3>2 DEF Reported
    <3> QED
      BY <3>1, <3>2
  <2>6. noneClosed => (y.active <=> d.active)
    <3>1. noneClosed => ts[i].id \notin x.switcherPending
      BY <2>1 DEF Kept, noneClosed
    <3> QED
      BY <2>1, <3>1 DEF Reported
  <2> QED
    BY <2>1, <2>4, <2>5, <2>6
<1>5. 0..n \subseteq S
  <2> HIDE DEF S
  <2> QED
    BY <1>1, <1>3, <1>4, UpTo
<1>6. n \in 0..n /\ n > 0
  BY <1>1
<1>7. /\ Kept(d, e)
      /\ e.loadpointCurrent = current
      /\ noneClosed => (e.active <=> d.active)
  BY <1>2, <1>5, <1>6
<1>8. e.active \in BOOLEAN /\ d.active \in BOOLEAN
  BY <1>7 DEF Kept, Device
<1> QED
  BY <1>7, <1>8 DEF noneClosed, n

\* When all of them have failed the source has failed, unless nothing counted: polls are
\* only counted when no switch is under way, as long as clients wait.
LEMMA BatchFails ==
  ASSUME NEW d \in Device, NEW ts \in Seq(Transaction),
         NEW e, e = afterResponses(d, ts, FALSE),
         d.pollCountBeforeIdleOrError > 0 =>
           /\ d.currState = "SWITCH_BUSY"
           /\ \A i \in 1..Len(ts) : ts[i].id \notin d.pendingSwitchIds
  PROVE  /\ e.pollCountBeforeIdleOrError > 0 => e.currState = "SWITCH_BUSY"
         /\ e.currState = d.currState \/ (d.currState \notin ErrorStates /\ e.currState \in ErrorStates)
<1> DEFINE n == Len(ts)
           Fine(x) == /\ x.pollCountBeforeIdleOrError > 0 =>
                           /\ d.pollCountBeforeIdleOrError > 0
                           /\ x.currState = "SWITCH_BUSY"
                      /\ x.pendingSwitchIds \subseteq d.pendingSwitchIds
                      /\ \/ x.currState = d.currState
                         \/ d.currState \notin ErrorStates /\ x.currState \in ErrorStates
<1>1. n \in Nat
  BY LenProperties
<1>0. PICK f : Passage(f, d, e, ts, FALSE)
  BY Responses
<1>2. /\ f[0] = d
      /\ f[n] = e
      /\ \A i \in 1..n : Reported(f[i - 1], f[i], ts[i], FALSE)
      /\ \A i \in 0..n : f[i] \in Device
  <2>1. \A i \in 1..n : Reported(f[i - 1], f[i], ts[i], IF i = 1 THEN FALSE ELSE FALSE)
    BY <1>0, Zenon DEF Passage
  <2> QED
    BY <1>0, <2>1, Zenon DEF Passage
<1> DEFINE S == {i \in 0..n : Fine(f[i])}
<1>3. \A i \in 1..n : d.pollCountBeforeIdleOrError > 0 => ts[i].id \notin d.pendingSwitchIds
  OBVIOUS
<1> HIDE DEF n
<1>4. 0 \in S
  BY <1>1, <1>2
<1>5. ASSUME NEW i \in 1..n, i - 1 \in S
      PROVE  i \in S
  <2> DEFINE x == f[i - 1]
             y == f[i]
  <2>1. Fine(x) /\ Reported(x, y, ts[i], FALSE) /\ i \in 0..n /\ x \in Device /\ y \in Device
    <3>1. i - 1 \in 0..n /\ i \in 0..n
      BY <1>1
    <3> QED
      BY <1>2, <1>5, <3>1
  <2>2. /\ x.pollCountBeforeIdleOrError \in Nat
        /\ y.pollCountBeforeIdleOrError \in Nat
        /\ y.pendingSwitchIds \subseteq x.pendingSwitchIds
    BY <2>1 DEF Device, Reported
  <2> HIDE DEF x, y
  <2>3. ASSUME ts[i].id \in x.pendingSwitchIds
        PROVE  Fine(y)
    <3>1. SwitchAnswered(x, y, FALSE) /\ ~(d.pollCountBeforeIdleOrError > 0)
      BY <1>3, <2>1, <2>3 DEF Reported
    <3> QED
      BY <2>1, <2>2, <3>1 DEF SwitchAnswered, ErrorStates
  <2>4. ASSUME ts[i].id \notin x.pendingSwitchIds
        PROVE  Fine(y)
    <3>1. \/ PollAnswered(x, y, FALSE)
          \/ /\ y.currState = x.currState
             /\ y.pollCountBeforeIdleOrError = x.pollCountBeforeIdleOrError
      BY <2>1, <2>4 DEF Reported
    <3> QED
      BY <2>1, <2>2, <3>1 DEF PollAnswered, ErrorStates
  <2>5. Fine(y)
    BY <2>3, <2>4
  <2> QED
    BY <2>1, <2>5 DEF y
<1>6. 0..n \subseteq S
  <2> HIDE DEF S
  <2> QED
    BY <1>1, <1>4, <1>5, UpTo
<1>7. n \in 0..n
  BY <1>1
<1> QED
  BY <1>2, <1>6, <1>7

\* One transaction alone
LEMMA OneResponse ==
  ASSUME NEW d \in Device, NEW t \in Transaction, NEW passed \in BOOLEAN,
         NEW e, e = afterResponses(d, <<t>>, passed)
  PROVE  Reported(d, e, t, passed)
<1>1. <<t>> \in Seq(Transaction) /\ Len(<<t>>) = 1 /\ <<t>>[1] = t
  OBVIOUS
<1>2. PICK f : Passage(f, d, e, <<t>>, passed)
  BY <1>1, Responses
<1>3. 1 \in 1..1 /\ 1 - 1 = 0
  OBVIOUS
<1>4. f[0] = d /\ f[1] = e /\ Reported(f[0], f[1], t, IF 1 = 1 THEN passed ELSE FALSE)
  <2>1. /\ f[0] = d /\ f[1] = e
        /\ Reported(f[1 - 1], f[1], <<t>>[1], IF 1 = 1 THEN passed ELSE FALSE)
    BY <1>1, <1>2, <1>3, Zenon DEF Passage
  <2> QED
    BY <1>1, <1>3, <2>1
<1> QED
  BY <1>4

-----------------------------------------------------------------------------
(* The line *)

LEMMA SwitchIds ==
  ASSUME NEW l \in Seq(Transaction)
  PROVE  ({t.id : t \in {u \in ToSet(l) : u.kind = "switch"}} = {}) <=> noSwitch(l)
<1>1. DOMAIN l = 1..Len(l)
  BY LenProperties
<1>2. ToSet(l) = {l[i] : i \in 1..Len(l)}
  BY <1>1 DEF ToSet
<1>3. ({t.id : t \in {u \in ToSet(l) : u.kind = "switch"}} = {}) <=>
        \A u \in ToSet(l) : u.kind # "switch"
  OBVIOUS
<1>4. (\A u \in ToSet(l) : u.kind # "switch") <=> \A i \in 1..Len(l) : l[i].kind # "switch"
  BY <1>2
<1> QED
  BY <1>3, <1>4 DEF noSwitch

LEMMA NewIdIsNew ==
  ASSUME TypeOK, freeIds # {}
  PROVE  /\ newId \in TransactionId
         /\ newId \notin dev.switcherPending \cup dev.pendingSwitchIds
         /\ \A i \in 1..Len(line) : line[i].id # newId
<1>1. newId \in freeIds
  BY NewIdIsFree
<1>2. DOMAIN line = 1..Len(line)
  BY LenProperties DEF TypeOK
<1>3. \A i \in 1..Len(line) : line[i] \in ToSet(line)
  BY <1>2 DEF ToSet
<1> QED
  BY <1>1, <1>3 DEF freeIds

\* A transaction is started: it comes last.
LEMMA Joined ==
  ASSUME NEW l \in Seq(Transaction), NEW t \in Transaction, NEW d, NEW e,
         Awaited(l, d), LastIsRequested(l, d),
         \A i \in 1..Len(l) : l[i].id # t.id,
         t.kind = "poll" =>
           /\ t.id \notin d.switcherPending \cup d.pendingSwitchIds
           /\ e.switcherPending = d.switcherPending /\ e.pendingSwitchIds = d.pendingSwitchIds
           /\ e.loadpointRequestedLast = d.loadpointRequestedLast,
         t.kind = "switch" =>
           /\ e.switcherPending = d.switcherPending \cup {t.id}
           /\ e.pendingSwitchIds = d.pendingSwitchIds \cup {t.id}
           /\ e.loadpointRequestedLast = t.load
  PROVE  /\ Append(l, t) \in Seq(Transaction)
         /\ Awaited(Append(l, t), e)
         /\ LastIsRequested(Append(l, t), e)
         /\ noSwitch(Append(l, t)) <=> noSwitch(l) /\ t.kind = "poll"
         /\ noSwitch(l) \/ (oneSwitch(l) /\ t.kind = "poll") => oneSwitch(Append(l, t))
<1> DEFINE m == Append(l, t)
           n == Len(l)
<1>1. /\ m \in Seq(Transaction) /\ n \in Nat /\ Len(m) = n + 1
      /\ \A i \in 1..n : m[i] = l[i]
      /\ m[n + 1] = t
  BY AppendProperties, LenProperties
<1>2. t.kind = "poll" \/ t.kind = "switch"
  BY DEF Transaction
<1>3. \A i \in 1..(n + 1) : i \in 1..n \/ i = n + 1
  BY <1>1
<1>5. n + 1 \in 1..(n + 1) /\ \A i \in 1..n : i \in 1..(n + 1) /\ i < n + 1 /\ i # n + 1
  BY <1>1
<1> HIDE DEF m, n
<1>6. Awaited(m, e)
  <2>1. \A i, j \in 1..n : l[i].id = l[j].id => i = j
    BY DEF Awaited, n
  <2>2. \A i, j \in 1..Len(m) : m[i].id = m[j].id => i = j
    BY <1>1, <1>3, <2>1 DEF n
  <2>3. \A i \in 1..n :
          /\ l[i].kind = "switch" => l[i].id \in d.switcherPending \cap d.pendingSwitchIds
          /\ l[i].kind = "poll" => l[i].id \notin d.switcherPending \cup d.pendingSwitchIds
    BY DEF Awaited, n
  <2>4. ASSUME NEW i \in 1..Len(m)
        PROVE  /\ m[i].kind = "switch" => m[i].id \in e.switcherPending \cap e.pendingSwitchIds
               /\ m[i].kind = "poll" => m[i].id \notin e.switcherPending \cup e.pendingSwitchIds
    <3>1. CASE i = n + 1
      BY <1>1, <1>2, <3>1
    <3>2. CASE i \in 1..n
      BY <1>1, <1>2, <2>3, <3>2 DEF n
    <3> QED
      BY <1>1, <1>3, <3>1, <3>2
  <2> QED
    BY <2>2, <2>4 DEF Awaited
<1>7. LastIsRequested(m, e)
  <2> SUFFICES ASSUME NEW i \in 1..Len(m), m[i].kind = "switch",
                      \A j \in 1..Len(m) : i < j => m[j].kind # "switch"
               PROVE  m[i].load = e.loadpointRequestedLast
    BY DEF LastIsRequested
  <2>1. CASE i = n + 1
    BY <1>1, <2>1
  <2>2. CASE i \in 1..n
    <3>1. t.kind = "poll"
      BY <1>1, <1>2, <1>5, <2>2
    <3>2. l[i].kind = "switch" /\ \A j \in 1..n : i < j => l[j].kind # "switch"
      BY <1>1, <1>5, <2>2
    <3>3. l[i].load = d.loadpointRequestedLast
      BY <2>2, <3>2 DEF LastIsRequested, n
    <3> QED
      BY <1>1, <2>2, <3>1, <3>3
  <2> QED
    BY <1>1, <1>3, <2>1, <2>2
<1>8. noSwitch(m) <=> noSwitch(l) /\ t.kind = "poll"
  <2>1. noSwitch(l) <=> \A i \in 1..n : l[i].kind # "switch"
    BY DEF noSwitch, n
  <2> QED
    BY <1>1, <1>2, <1>3, <1>5, <2>1 DEF noSwitch
<1>9. noSwitch(l) \/ (oneSwitch(l) /\ t.kind = "poll") => oneSwitch(m)
  <2>1. noSwitch(l) <=> \A i \in 1..n : l[i].kind # "switch"
    BY DEF noSwitch, n
  <2>2. oneSwitch(l) <=> \A i, j \in 1..n : l[i].kind = "switch" /\ l[j].kind = "switch" => i = j
    BY DEF oneSwitch, n
  <2> QED
    BY <1>1, <1>3, <2>1, <2>2 DEF oneSwitch
<1> QED
  BY <1>1, <1>6, <1>7, <1>8, <1>9 DEF m

\* The oldest transaction has ended.
LEMMA Left ==
  ASSUME NEW l \in Seq(Transaction), l # <<>>, NEW d, NEW e,
         Awaited(l, d), LastIsRequested(l, d),
         e.switcherPending = d.switcherPending \ {Head(l).id},
         e.pendingSwitchIds = d.pendingSwitchIds \ {Head(l).id},
         e.loadpointRequestedLast = d.loadpointRequestedLast
  PROVE  /\ Head(l) \in Transaction
         /\ Tail(l) \in Seq(Transaction)
         /\ Awaited(Tail(l), e)
         /\ LastIsRequested(Tail(l), e)
         /\ noSwitch(l) <=> noSwitch(Tail(l)) /\ Head(l).kind = "poll"
         /\ oneSwitch(l) => oneSwitch(Tail(l)) /\ (Head(l).kind = "switch" => noSwitch(Tail(l)))
         /\ Head(l).kind = "switch" =>
              /\ Head(l).id \in d.switcherPending \cap d.pendingSwitchIds
              /\ noSwitch(Tail(l)) => Head(l).load = d.loadpointRequestedLast
         /\ Head(l).kind = "poll" => Head(l).id \notin d.switcherPending \cup d.pendingSwitchIds
<1> DEFINE h == Head(l)
           t == Tail(l)
           n == Len(l)
<1>1. /\ n \in Nat \ {0} /\ h \in Transaction /\ t \in Seq(Transaction) /\ Len(t) = n - 1
      /\ h = l[1]
      /\ \A i \in 1..(n - 1) : t[i] = l[i + 1]
  BY HeadTailProperties, EmptySeq
<1>2. h.kind = "poll" \/ h.kind = "switch"
  BY <1>1 DEF Transaction
<1>3. /\ 1 \in 1..n
      /\ \A i \in 1..(n - 1) : i + 1 \in 1..n /\ i + 1 # 1 /\ 1 < i + 1 /\ i \in Nat
      /\ \A i \in 1..n : i = 1 \/ (i - 1 \in 1..(n - 1) /\ (i - 1) + 1 = i)
  BY <1>1
<1> HIDE DEF h, t, n
<1>4. \A i \in 1..n : i = 1 \/ (i - 1 \in 1..(n - 1) /\ t[i - 1] = l[i])
  BY <1>1, <1>3
<1>5. Awaited(t, e)
  <2>1. /\ \A i, j \in 1..n : l[i].id = l[j].id => i = j
        /\ \A i \in 1..n :
             /\ l[i].kind = "switch" => l[i].id \in d.switcherPending \cap d.pendingSwitchIds
             /\ l[i].kind = "poll" => l[i].id \notin d.switcherPending \cup d.pendingSwitchIds
    BY DEF Awaited, n
  <2>2. \A i, j \in 1..Len(t) : t[i].id = t[j].id => i = j
    <3> SUFFICES ASSUME NEW i \in 1..(n - 1), NEW j \in 1..(n - 1), t[i].id = t[j].id
                 PROVE  i = j
      BY <1>1
    <3>1. i + 1 \in 1..n /\ j + 1 \in 1..n /\ l[i + 1].id = l[j + 1].id
      BY <1>1, <1>3
    <3>2. i + 1 = j + 1
      BY <2>1, <3>1
    <3> QED
      BY <1>3, <3>2
  <2>3. ASSUME NEW i \in 1..Len(t)
        PROVE  /\ t[i].kind = "switch" => t[i].id \in e.switcherPending \cap e.pendingSwitchIds
               /\ t[i].kind = "poll" => t[i].id \notin e.switcherPending \cup e.pendingSwitchIds
    <3>1. i + 1 \in 1..n /\ i + 1 # 1 /\ t[i] = l[i + 1]
      BY <1>1, <1>3
    <3>2. l[i + 1].id # h.id
      BY <1>1, <1>3, <2>1, <3>1
    <3> QED
      BY <2>1, <3>1, <3>2 DEF h
  <2> QED
    BY <2>2, <2>3 DEF Awaited
<1>6. ASSUME NEW i \in 1..n, l[i].kind = "switch", \A j \in 1..n : i < j => l[j].kind # "switch"
      PROVE  l[i].load = d.loadpointRequestedLast
  BY <1>6 DEF LastIsRequested, n
<1>7. LastIsRequested(t, e)
  <2> SUFFICES ASSUME NEW i \in 1..(n - 1), t[i].kind = "switch",
                      \A j \in 1..(n - 1) : i < j => t[j].kind # "switch"
               PROVE  t[i].load = d.loadpointRequestedLast
    BY <1>1 DEF LastIsRequested
  <2>1. i + 1 \in 1..n /\ t[i] = l[i + 1]
    BY <1>1, <1>3
  <2>2. ASSUME NEW j \in 1..n, i + 1 < j
        PROVE  l[j].kind # "switch"
    <3>1. j # 1 /\ i < j - 1
      BY <1>1, <2>2
    <3> QED
      BY <1>4, <3>1
  <2> QED
    BY <1>6, <2>1, <2>2
<1>8. /\ noSwitch(l) <=> \A i \in 1..n : l[i].kind # "switch"
      /\ noSwitch(t) <=> \A i \in 1..(n - 1) : t[i].kind # "switch"
      /\ oneSwitch(l) => \A i, j \in 1..n : l[i].kind = "switch" /\ l[j].kind = "switch" => i = j
  BY <1>1 DEF noSwitch, oneSwitch, n
<1>9. noSwitch(l) <=> noSwitch(t) /\ h.kind = "poll"
  <2>1. ASSUME noSwitch(t), h.kind = "poll", NEW i \in 1..n
        PROVE  l[i].kind # "switch"
    <3>1. i = 1 \/ (i - 1 \in 1..(n - 1) /\ t[i - 1] = l[i])
      BY <1>4
    <3> QED
      BY <1>1, <1>8, <2>1, <3>1
  <2>2. ASSUME noSwitch(l), NEW i \in 1..(n - 1)
        PROVE  t[i].kind # "switch"
    BY <1>1, <1>3, <1>8, <2>2
  <2> QED
    BY <1>1, <1>2, <1>3, <1>8, <2>1, <2>2
<1>10. oneSwitch(l) => oneSwitch(t) /\ (h.kind = "switch" => noSwitch(t))
  <2> SUFFICES ASSUME oneSwitch(l)
               PROVE  oneSwitch(t) /\ (h.kind = "switch" => noSwitch(t))
    OBVIOUS
  <2>1. ASSUME NEW i \in 1..(n - 1), NEW j \in 1..(n - 1), t[i].kind = "switch", t[j].kind = "switch"
        PROVE  i = j
    <3>1. i + 1 \in 1..n /\ j + 1 \in 1..n /\ l[i + 1].kind = "switch" /\ l[j + 1].kind = "switch"
      BY <1>1, <1>3, <2>1
    <3>2. i + 1 = j + 1
      BY <1>8, <3>1
    <3> QED
      BY <1>3, <3>2
  <2>2. h.kind = "switch" => noSwitch(t)
    BY <1>1, <1>3, <1>8
  <2> QED
    BY <1>1, <2>1, <2>2 DEF oneSwitch
<1>11. /\ h.kind = "switch" => h.id \in d.switcherPending \cap d.pendingSwitchIds
       /\ h.kind = "poll" => h.id \notin d.switcherPending \cup d.pendingSwitchIds
  BY <1>1, <1>3 DEF Awaited, n
<1>12. h.kind = "switch" /\ noSwitch(t) => h.load = d.loadpointRequestedLast
  <2>1. ASSUME noSwitch(t), NEW j \in 1..n, 1 < j
        PROVE  l[j].kind # "switch"
    <3>1. j - 1 \in 1..(n - 1) /\ t[j - 1] = l[j]
      BY <1>4, <2>1
    <3> QED
      BY <1>8, <2>1, <3>1
  <2> QED
    BY <1>1, <1>3, <1>6, <2>1
<1> QED
  BY <1>1, <1>5, <1>7, <1>9, <1>10, <1>11, <1>12 DEF h, t

-----------------------------------------------------------------------------
(* The steps *)

\* What IInv says of the line and the objects
Proper(l, d) ==
  /\ l \in Seq(Transaction)
  /\ d \in Device
  /\ isOpen \/ l = <<>>
  /\ Awaited(l, d)
  /\ LastIsRequested(l, d)

LEMMA EmptyLine ==
  ASSUME NEW d
  PROVE  /\ Awaited(<<>>, d) /\ LastIsRequested(<<>>, d)
         /\ noSwitch(<<>>) /\ oneSwitch(<<>>)
<1>1. Len(<<>>) = 0 /\ \A i \in 1..0 : FALSE
  BY EmptySeq
<1> QED
  BY <1>1 DEF Awaited, LastIsRequested, noSwitch, oneSwitch

LEMMA InvInit == Init => IInv
<1> SUFFICES ASSUME Init
             PROVE  IInv
  OBVIOUS
<1>1. /\ isOpen = TRUE /\ line = <<>> /\ output \in Load /\ patient \in BOOLEAN
      /\ confirmed = FALSE
  BY DEF Init
<1>2. /\ dev \in Device /\ dev.active = TRUE /\ dev.pollCountBeforeIdleOrError = 0
      /\ dev.closeRequested = FALSE
  BY SourceAssumption DEF Init, Device, States
<1>3. TypeOK
  BY <1>1, <1>2, EmptySeq DEF TypeOK
<1> QED
  BY <1>1, <1>2, <1>3, EmptyLine DEF IInv, Patience

\* A poll is started.
LEMMA PollStep ==
  ASSUME IInv, onPollTimer
  PROVE  IInv' /\ dev'.active = dev.active /\ dev'.currState = dev.currState
         /\ (noSwitch(line') <=> noSwitch(line))
<1> DEFINE t == [id |-> newId, kind |-> "poll", load |-> Off]
<1> USE DEF IInv
<1>1. /\ freeIds # {}
      /\ line' = IF isOpen THEN Append(line, t) ELSE line
      /\ dev' = [dev EXCEPT !.pollerPending = @ \cup {newId},
                            !.pendingStateQueryIds = @ \cup {newId}]
      /\ isOpen' = isOpen /\ output' = output /\ patient' = patient /\ confirmed' = confirmed
  BY DEF onPollTimer, startTransaction
<1>2. /\ newId \in TransactionId /\ newId \notin dev.switcherPending \cup dev.pendingSwitchIds
      /\ \A i \in 1..Len(line) : line[i].id # newId
  BY <1>1, NewIdIsNew
<1>3. t \in Transaction /\ t.id = newId /\ t.kind = "poll"
  BY <1>2, SourceAssumption DEF Transaction
<1>4. /\ dev' \in Device
      /\ dev'.currState = dev.currState
      /\ dev'.pollCountBeforeIdleOrError = dev.pollCountBeforeIdleOrError
      /\ dev'.pendingSwitchIds = dev.pendingSwitchIds
      /\ dev'.switcherPending = dev.switcherPending
      /\ dev'.loadpointCurrent = dev.loadpointCurrent
      /\ dev'.loadpointRequestedLast = dev.loadpointRequestedLast
      /\ dev'.closeRequested = dev.closeRequested
      /\ dev'.active = dev.active
  <2>1. dev \in Device
    BY DEF TypeOK
  <2> QED
    BY <1>1, <1>2, <2>1 DEF Device
<1> HIDE DEF t
<1>5. line \in Seq(Transaction) /\ Awaited(line, dev) /\ LastIsRequested(line, dev)
  BY DEF TypeOK
<1>6. /\ line' \in Seq(Transaction)
      /\ Awaited(line', dev') /\ LastIsRequested(line', dev')
      /\ noSwitch(line') <=> noSwitch(line)
      /\ oneSwitch(line) => oneSwitch(line')
  <2>1. CASE isOpen
    BY <1>1, <1>2, <1>3, <1>4, <1>5, <2>1, Joined
  <2>2. CASE ~isOpen
    <3>1. line' = line
      BY <1>1, <2>2
    <3> QED
      BY <1>4, <1>5, <3>1 DEF Awaited, LastIsRequested
  <2> QED
    BY <2>1, <2>2
<1>7. isOpen' \/ line' = <<>>
  BY <1>1
<1>8. TypeOK'
  BY <1>1, <1>4, <1>6 DEF TypeOK
<1>9. patient => Patience(line', dev')
  BY <1>4, <1>6 DEF Patience
<1> QED
  BY <1>1, <1>4, <1>6, <1>7, <1>8, <1>9

\* What a switch makes of the line and the objects; d is the source before it
SwitchIsStarted(d, l) ==
  /\ dev' \in Device
  /\ line' \in Seq(Transaction)
  /\ isOpen \/ line' = <<>>
  /\ Awaited(line', dev')
  /\ LastIsRequested(line', dev')
  /\ noSwitch(line') => ~isOpen
  /\ noSwitch(line) => oneSwitch(line')
  /\ dev'.currState = "SWITCH_BUSY"
  /\ dev'.pollCountBeforeIdleOrError = d.pollCountBeforeIdleOrError
  /\ dev'.switcherPending # {}
  /\ dev'.loadpointCurrent = d.loadpointCurrent
  /\ dev'.loadpointRequestedLast = l
  /\ dev'.closeRequested = d.closeRequested
  /\ dev'.active = d.active

LEMMA SwitchStart ==
  ASSUME IInv, freeIds # {}, NEW d \in Device, NEW l \in Load, switchState(d, l),
         d.switcherPending = dev.switcherPending,
         d.pendingSwitchIds = dev.pendingSwitchIds,
         d.loadpointRequestedLast = dev.loadpointRequestedLast
  PROVE  SwitchIsStarted(d, l)
<1> DEFINE t == [id |-> newId, kind |-> "switch", load |-> l]
           b == [d EXCEPT !.pendingSwitchIds = @ \cup {newId}]
           s == setState(b, "SWITCH_BUSY")
<1> USE DEF IInv
<1>1. /\ line' = IF isOpen THEN Append(line, t) ELSE line
      /\ dev' = [s EXCEPT !.switcherPending = @ \cup {newId}, !.loadpointRequestedLast = l]
  BY DEF switchState, startTransaction
<1>2. /\ newId \in TransactionId
      /\ \A i \in 1..Len(line) : line[i].id # newId
  BY NewIdIsNew
<1>3. t \in Transaction /\ t.id = newId /\ t.kind = "switch" /\ t.load = l
  BY <1>2 DEF Transaction
<1>4. /\ b \in Device
      /\ b.pendingSwitchIds = d.pendingSwitchIds \cup {newId}
      /\ b.pollCountBeforeIdleOrError = d.pollCountBeforeIdleOrError
      /\ Untouched(d, b)
  BY <1>2 DEF Device, Untouched
<1> HIDE DEF b, t
<1>5. StateSet(b, s, "SWITCH_BUSY")
  BY <1>4, SetState DEF States
<1> HIDE DEF s
<1>6. /\ dev' \in Device
      /\ dev'.currState = "SWITCH_BUSY"
      /\ dev'.pollCountBeforeIdleOrError = d.pollCountBeforeIdleOrError
      /\ dev'.pendingSwitchIds = d.pendingSwitchIds \cup {newId}
      /\ dev'.switcherPending = d.switcherPending \cup {newId}
      /\ dev'.loadpointCurrent = d.loadpointCurrent
      /\ dev'.loadpointRequestedLast = l
      /\ dev'.closeRequested = d.closeRequested
      /\ dev'.active = d.active
  BY <1>1, <1>2, <1>4, <1>5 DEF Device, StateSet, Untouched
<1>7. line \in Seq(Transaction) /\ Awaited(line, d) /\ LastIsRequested(line, d)
  BY DEF TypeOK, Awaited, LastIsRequested
<1>8. CASE isOpen
  <2>1. line' = Append(line, t)
    BY <1>1, <1>8
  <2>2. /\ line' \in Seq(Transaction)
        /\ Awaited(line', dev')
        /\ LastIsRequested(line', dev')
        /\ ~noSwitch(line')
        /\ noSwitch(line) => oneSwitch(line')
    BY <1>2, <1>3, <1>6, <1>7, <2>1, Joined
  <2> QED
    BY <1>6, <1>8, <2>2 DEF SwitchIsStarted
<1>9. CASE ~isOpen
  <2>1. line' = <<>>
    BY <1>1, <1>9
  <2>2. line' \in Seq(Transaction)
    BY <2>1, EmptySeq
  <2> QED
    BY <1>6, <1>9, <2>1, <2>2, EmptyLine DEF SwitchIsStarted
<1> QED
  BY <1>8, <1>9

\* A client that waits has nothing under way when it switches.
LEMMA NothingUnderWay ==
  ASSUME IInv, patient => switchThrough
  PROVE  patient => /\ noSwitch(line)
                    /\ dev.currState # "SWITCH_BUSY"
                    /\ dev.active => ~dev.closeRequested
<1>1. noSwitch(line) \/ dev.switcherPending # {}
  BY DEF IInv, Awaited, noSwitch
<1> QED
  BY <1>1 DEF switchThrough, IInv, Patience

\* A client switches.
LEMMA SwitchStep ==
  ASSUME IInv, NEW l \in Load, switchLoad(l)
  PROVE  IInv' /\ dev'.active /\ dev'.currState = "SWITCH_BUSY"
<1> USE DEF IInv
<1>1. /\ freeIds # {} /\ dev.active /\ (patient => switchThrough) /\ switchState(dev, l)
      /\ isOpen' = isOpen /\ output' = output /\ patient' = patient /\ confirmed' = confirmed
  BY DEF switchLoad
<1>2. SwitchIsStarted(dev, l)
  BY <1>1, SwitchStart DEF TypeOK
<1>3. patient => /\ noSwitch(line)
                 /\ dev.currState # "SWITCH_BUSY"
                 /\ ~dev.closeRequested
  BY <1>1, NothingUnderWay
<1>4. TypeOK'
  BY <1>1, <1>2 DEF TypeOK, SwitchIsStarted
<1>5. confirmed /\ noSwitch(line') => dev'.loadpointCurrent = output
  <2>1. noSwitch(line') => noSwitch(line)
    BY <1>2, EmptyLine DEF SwitchIsStarted
  <2> QED
    BY <1>2, <2>1 DEF SwitchIsStarted
<1>6. patient => Patience(line', dev')
  <2>1. patient => ~(dev.pollCountBeforeIdleOrError > 0)
    BY <1>1, <1>3 DEF Patience
  <2> QED
    BY <1>2, <1>3, <2>1 DEF Patience, SwitchIsStarted
<1> QED
  BY <1>1, <1>2, <1>4, <1>5, <1>6 DEF SwitchIsStarted

\* A client closes the source.
LEMMA CloseStep ==
  ASSUME IInv, close
  PROVE  IInv' /\ IF dev'.active THEN dev'.currState = "SWITCH_BUSY" ELSE line' = line
<1> DEFINE requested == [dev EXCEPT !.closeRequested = TRUE, !.pollTimer = FALSE]
<1> USE DEF IInv
<1>1. /\ freeIds # {} /\ dev.active /\ ~dev.closeRequested /\ (patient => switchThrough)
      /\ isOpen' = isOpen /\ output' = output /\ patient' = patient /\ confirmed' = confirmed
      /\ IF dev.loadpointCurrent # Off
         THEN switchState(requested, Off)
         ELSE dev' = doFinalCloseActivities(requested) /\ line' = line
  BY DEF close
<1>2. /\ requested \in Device
      /\ requested.currState = dev.currState
      /\ requested.pollCountBeforeIdleOrError = dev.pollCountBeforeIdleOrError
      /\ requested.pendingSwitchIds = dev.pendingSwitchIds
      /\ requested.switcherPending = dev.switcherPending
      /\ requested.loadpointCurrent = dev.loadpointCurrent
      /\ requested.loadpointRequestedLast = dev.loadpointRequestedLast
      /\ requested.active = dev.active
  BY DEF TypeOK, Device
<1> HIDE DEF requested
<1>3. patient => noSwitch(line) /\ dev.currState # "SWITCH_BUSY"
  BY <1>1, NothingUnderWay
<1>4. CASE dev.loadpointCurrent # Off
  <2>1. SwitchIsStarted(requested, Off)
    <3>1. switchState(requested, Off) /\ Off \in Load
      BY <1>1, <1>4, SourceAssumption
    <3> QED
      BY <1>1, <1>2, <3>1, SwitchStart
  <2>2. TypeOK'
    BY <1>1, <2>1 DEF TypeOK, SwitchIsStarted
  <2>3. confirmed /\ noSwitch(line') => dev'.loadpointCurrent = output
    <3>1. noSwitch(line') => noSwitch(line)
      BY <2>1, EmptyLine DEF SwitchIsStarted
    <3> QED
      BY <1>2, <2>1, <3>1 DEF SwitchIsStarted
  <2>4. patient => Patience(line', dev')
    <3>1. patient => ~(dev.pollCountBeforeIdleOrError > 0)
      BY <1>1, <1>3 DEF Patience
    <3> QED
      BY <1>2, <1>3, <2>1, <3>1 DEF Patience, SwitchIsStarted
  <2>5. dev'.active
    BY <1>1, <1>2, <2>1 DEF SwitchIsStarted
  <2> QED
    BY <1>1, <2>1, <2>2, <2>3, <2>4, <2>5 DEF SwitchIsStarted
<1>5. CASE dev.loadpointCurrent = Off
  <2>1. dev' = [requested EXCEPT !.active = FALSE] /\ line' = line
    BY <1>1, <1>5 DEF doFinalCloseActivities
  <2>2. /\ dev' \in Device
        /\ dev'.pendingSwitchIds = dev.pendingSwitchIds
        /\ dev'.switcherPending = dev.switcherPending
        /\ dev'.loadpointCurrent = dev.loadpointCurrent
        /\ dev'.loadpointRequestedLast = dev.loadpointRequestedLast
        /\ dev'.active = FALSE
    BY <1>2, <2>1 DEF Device
  <2>3. TypeOK'
    BY <1>1, <2>1, <2>2 DEF TypeOK
  <2>4. Awaited(line', dev') /\ LastIsRequested(line', dev')
    BY <2>1, <2>2 DEF Awaited, LastIsRequested
  <2>5. patient => Patience(line', dev')
    BY <2>1, <2>2 DEF Patience
  <2> QED
    BY <1>1, <1>3, <1>5, <2>1, <2>2, <2>3, <2>4, <2>5
<1> QED
  BY <1>4, <1>5

\* What the end of transactions makes of what the source puts out
LEMMA Outcome ==
  ASSUME NEW d, NEW ts \in Seq(Transaction), ts # <<>>, NEW passed \in BOOLEAN,
         output \in Load, confirmed \in BOOLEAN, transactionsEnd(d, ts, passed)
  PROVE  /\ dev' = afterResponses(d, ts, passed)
         /\ output' \in Load
         /\ confirmed' \in BOOLEAN
         /\ noSwitch(ts) => output' = output /\ confirmed' = confirmed
         /\ ~noSwitch(ts) /\ confirmed' => /\ passed /\ Head(ts).kind = "switch"
                                            /\ noSwitch(Tail(ts)) /\ output' = Head(ts).load
         /\ ~noSwitch(ts) /\ passed /\ Head(ts).kind = "switch" /\ noSwitch(Tail(ts)) => confirmed'
         /\ Head(ts).kind = "poll" => output' = output
<1> DEFINE h == Head(ts)
           r == Tail(ts)
<1>1. h \in Transaction /\ r \in Seq(Transaction) /\ h = ts[1] /\ 1 \in 1..Len(ts)
  BY HeadTailProperties, EmptySeq
<1>2. /\ dev' = afterResponses(d, ts, passed)
      /\ CASE ~(h.kind = "switch") -> output' = output
           [] h.kind = "switch" /\ passed -> output' = h.load
           [] OTHER -> output' \in {output, h.load}
      /\ confirmed' = IF \E t \in ToSet(ts) : t.kind = "switch"
                      THEN h.kind = "switch" /\ passed /\ \A t \in ToSet(r) : ~(t.kind = "switch")
                      ELSE confirmed
  BY DEF transactionsEnd
<1>3. /\ noSwitch(ts) <=> ~\E t \in ToSet(ts) : t.kind = "switch"
      /\ noSwitch(r) <=> \A t \in ToSet(r) : ~(t.kind = "switch")
  <2>1. \A l \in Seq(Transaction) : ToSet(l) = {l[i] : i \in 1..Len(l)}
    BY LenProperties DEF ToSet
  <2>2. ToSet(ts) = {ts[i] : i \in 1..Len(ts)} /\ ToSet(r) = {r[i] : i \in 1..Len(r)}
    BY <1>1, <2>1
  <2> HIDE DEF r
  <2> QED
    BY <2>2 DEF noSwitch
<1>4. noSwitch(ts) => h.kind # "switch"
  BY <1>1 DEF noSwitch
<1>5. h.load \in Load /\ h.kind \in {"poll", "switch"}
  BY <1>1 DEF Transaction
<1> HIDE DEF h, r
<1>6. output' \in Load /\ (h.kind = "poll" => output' = output)
      /\ (h.kind = "switch" /\ passed => output' = h.load)
  BY <1>2, <1>5
<1>7. confirmed' \in BOOLEAN
  BY <1>2
<1>8. /\ noSwitch(ts) => confirmed' = confirmed
      /\ ~noSwitch(ts) =>
           (confirmed' <=> h.kind = "switch" /\ passed /\ noSwitch(r))
  BY <1>2, <1>3
<1> QED
  BY <1>2, <1>4, <1>5, <1>6, <1>7, <1>8 DEF h, r

\* The oldest transaction has ended, and nothing else.
LEMMA OneOutcome ==
  ASSUME NEW d \in Device, NEW t \in Transaction, NEW passed \in BOOLEAN,
         output \in Load, confirmed \in BOOLEAN, transactionsEnd(d, <<t>>, passed)
  PROVE  /\ Reported(d, dev', t, passed)
         /\ output' \in Load
         /\ confirmed' \in BOOLEAN
         /\ t.kind = "poll" => output' = output /\ confirmed' = confirmed
         /\ t.kind = "switch" => /\ confirmed' => passed
                                 /\ passed => output' = t.load
<1> DEFINE ts == <<t>>
<1>1. /\ ts \in Seq(Transaction) /\ ts # <<>> /\ Head(ts) = t /\ Tail(ts) = <<>>
      /\ Len(ts) = 1 /\ ts[1] = t
  OBVIOUS
<1>2. t.kind = "poll" \/ t.kind = "switch"
  BY DEF Transaction
<1>3. transactionsEnd(d, ts, passed)
  OBVIOUS
<1> HIDE DEF ts
<1>4. noSwitch(ts) <=> t.kind = "poll"
  BY <1>1, <1>2 DEF noSwitch
<1>5. dev' = afterResponses(d, ts, passed)
  BY <1>1, <1>3, Outcome
<1>6. Reported(d, dev', t, passed)
  BY <1>5, OneResponse DEF ts
<1> QED
  BY <1>1, <1>2, <1>3, <1>4, <1>6, Outcome, EmptyLine

\* The queue finishes the oldest transaction.
LEMMA FinishStep ==
  ASSUME IInv, NEW passed \in BOOLEAN, transactionFinishes(passed)
  PROVE  IInv'
<1> DEFINE t == Head(line)
<1> USE DEF IInv
<1>1. /\ line # <<>> /\ transactionsEnd(dev, <<t>>, passed)
      /\ line' = Tail(line) /\ isOpen' = isOpen /\ patient' = patient
  BY DEF transactionFinishes
<1>2. /\ line \in Seq(Transaction) /\ dev \in Device /\ output \in Load /\ confirmed \in BOOLEAN
      /\ isOpen
  BY <1>1 DEF TypeOK
<1>3. t \in Transaction
  BY <1>1, <1>2, HeadTailProperties
<1> HIDE DEF t
<1>4. /\ Reported(dev, dev', t, passed)
      /\ output' \in Load
      /\ confirmed' \in BOOLEAN
      /\ t.kind = "poll" => output' = output /\ confirmed' = confirmed
      /\ t.kind = "switch" => /\ confirmed' => passed
                              /\ passed => output' = t.load
  BY <1>1, <1>2, <1>3, OneOutcome
<1>5. /\ line' \in Seq(Transaction)
      /\ Awaited(line', dev')
      /\ LastIsRequested(line', dev')
      /\ noSwitch(line) <=> noSwitch(line') /\ t.kind = "poll"
      /\ oneSwitch(line) => oneSwitch(line') /\ (t.kind = "switch" => noSwitch(line'))
      /\ t.kind = "switch" =>
           /\ t.id \in dev.switcherPending \cap dev.pendingSwitchIds
           /\ noSwitch(line') => t.load = dev.loadpointRequestedLast
      /\ t.kind = "poll" => t.id \notin dev.switcherPending \cup dev.pendingSwitchIds
  BY <1>1, <1>2, <1>4, Left DEF t, Reported
<1>6. t.kind = "poll" \/ t.kind = "switch"
  BY <1>3 DEF Transaction
<1>7. TypeOK'
  BY <1>1, <1>4, <1>5 DEF TypeOK, Reported
<1>8. confirmed' /\ noSwitch(line') => dev'.loadpointCurrent = output'
  BY <1>4, <1>5, <1>6 DEF Reported
<1>9. ASSUME patient
      PROVE  Patience(line', dev')
  <2>1. Patience(line, dev)
    BY <1>9
  <2>2. /\ dev.pollCountBeforeIdleOrError \in Nat /\ dev'.pollCountBeforeIdleOrError \in Nat
        /\ dev'.active => dev.active
        /\ oneSwitch(line')
    BY <1>2, <1>4, <1>5, <2>1 DEF Device, Reported, Patience
  <2>3. ASSUME dev'.active, t.kind = "switch"
        PROVE  /\ dev'.pollCountBeforeIdleOrError > 0 => dev'.currState = "SWITCH_BUSY"
               /\ noSwitch(line')
    <3>1. ~(dev.pollCountBeforeIdleOrError > 0)
      BY <1>5, <2>1, <2>2, <2>3 DEF Patience
    <3>2. SwitchAnswered(dev, dev', passed)
      BY <1>4, <1>5, <2>3 DEF Reported
    <3>3. dev'.pollCountBeforeIdleOrError > 0 => dev'.currState = "SWITCH_BUSY"
      BY <2>2, <3>1, <3>2 DEF SwitchAnswered
    <3> QED
      BY <1>5, <2>1, <2>3, <3>3 DEF Patience
  <2>4. ASSUME dev'.active, t.kind = "poll"
        PROVE  /\ dev'.pollCountBeforeIdleOrError > 0 =>
                    dev'.currState = "SWITCH_BUSY" /\ noSwitch(line')
               /\ noSwitch(line') \/ dev'.currState \in {"SWITCH_BUSY"} \cup ErrorStates
    <3>1. /\ dev.pollCountBeforeIdleOrError > 0 =>
               dev.currState = "SWITCH_BUSY" /\ noSwitch(line')
          /\ noSwitch(line') \/ dev.currState \in {"SWITCH_BUSY"} \cup ErrorStates
      BY <1>5, <2>1, <2>2, <2>4 DEF Patience
    <3>2. \/ PollAnswered(dev, dev', passed)
          \/ /\ dev'.currState = dev.currState
             /\ dev'.pollCountBeforeIdleOrError = dev.pollCountBeforeIdleOrError
      BY <1>4, <1>5, <2>4 DEF Reported
    <3> QED
      BY <2>2, <3>1, <3>2 DEF PollAnswered, ErrorStates
  <2>5. dev'.active /\ dev'.closeRequested =>
          dev'.loadpointRequestedLast = Off /\ dev'.switcherPending # {}
    BY <1>4, <2>1 DEF Patience, Reported
  <2> QED
    BY <1>6, <2>2, <2>3, <2>4, <2>5 DEF Patience
<1>10. ASSUME patient, ~dev'.active
       PROVE  noSwitch(line') /\ (confirmed' => output' = Off)
  <2>1. CASE ~dev.active
    BY <1>2, <1>4, <1>5, <1>10, <2>1
  <2>2. CASE dev.active
    <3>1. t.id \in dev.switcherPending /\ dev.closeRequested
      BY <1>4, <1>10, <2>2 DEF Reported
    <3>2. t.kind = "switch"
      BY <1>5, <1>6, <3>1
    <3>3. noSwitch(line') /\ dev.loadpointRequestedLast = Off
      BY <1>5, <1>10, <2>2, <3>1, <3>2 DEF Patience
    <3> QED
      BY <1>4, <1>5, <3>2, <3>3
  <2> QED
    BY <2>1, <2>2
<1> QED
  BY <1>1, <1>2, <1>5, <1>7, <1>8, <1>9, <1>10

\* Whom the transactions in the line belong to
LEMMA Owners ==
  ASSUME NEW l \in Seq(Transaction), NEW d, Awaited(l, d), LastIsRequested(l, d)
  PROVE  /\ noSwitch(l) =>
              \A i \in 1..Len(l) : l[i].id \notin d.switcherPending \cup d.pendingSwitchIds
         /\ l # <<>> =>
              /\ Head(l) = l[1]
              /\ Head(l).kind = "switch" =>
                   /\ Head(l).id \in d.switcherPending
                   /\ noSwitch(Tail(l)) => Head(l).load = d.loadpointRequestedLast
<1>1. ASSUME noSwitch(l), NEW i \in 1..Len(l)
      PROVE  l[i].id \notin d.switcherPending \cup d.pendingSwitchIds
  <2>1. l[i] \in Transaction
    BY <1>1, ElementOfSeq
  <2>2. l[i].kind \in {"poll", "switch"}
    BY <2>1 DEF Transaction
  <2>3. l[i].kind = "poll"
    BY <1>1, <2>2 DEF noSwitch
  <2> QED
    BY <2>3 DEF Awaited
<1>2. ASSUME l # <<>>
      PROVE  /\ Head(l) = l[1]
             /\ Head(l).kind = "switch" =>
                  /\ Head(l).id \in d.switcherPending
                  /\ noSwitch(Tail(l)) => Head(l).load = d.loadpointRequestedLast
  <2> DEFINE e == [switcherPending |-> d.switcherPending \ {Head(l).id},
                   pendingSwitchIds |-> d.pendingSwitchIds \ {Head(l).id},
                   loadpointRequestedLast |-> d.loadpointRequestedLast]
  <2>1. /\ e.switcherPending = d.switcherPending \ {Head(l).id}
        /\ e.pendingSwitchIds = d.pendingSwitchIds \ {Head(l).id}
        /\ e.loadpointRequestedLast = d.loadpointRequestedLast
    OBVIOUS
  <2>2. Head(l) = l[1]
    BY <1>2
  <2> HIDE DEF e
  <2> QED
    BY <1>2, <2>1, <2>2, Left
<1> QED
  BY <1>1, <1>2

\* The device reports an I/O error.
LEMMA ErrorStep ==
  ASSUME IInv, ioError
  PROVE  IInv'
<1> USE DEF IInv
<1>1. /\ line # <<>> /\ transactionsEnd(dev, line, FALSE)
      /\ line' = <<>> /\ isOpen' = isOpen /\ patient' = patient
  BY DEF ioError
<1>2. /\ line \in Seq(Transaction) /\ dev \in Device /\ output \in Load /\ confirmed \in BOOLEAN
  BY DEF TypeOK
<1>3. /\ dev' = afterResponses(dev, line, FALSE)
      /\ output' \in Load
      /\ confirmed' \in BOOLEAN
      /\ noSwitch(line) => output' = output /\ confirmed' = confirmed
      /\ ~noSwitch(line) => ~confirmed'
  BY <1>1, <1>2, Outcome
<1>4. /\ Kept(dev, dev')
      /\ dev'.loadpointCurrent = dev.loadpointCurrent
      /\ (\A i \in 1..Len(line) : line[i].id \notin dev.switcherPending) =>
           dev'.active = dev.active
  <2>1. NewCurrent(dev, line, FALSE) = dev.loadpointCurrent
    BY DEF NewCurrent
  <2> QED
    BY <1>1, <1>2, <1>3, <2>1, BatchKeeps
<1>5. noSwitch(line) =>
        \A i \in 1..Len(line) : line[i].id \notin dev.switcherPending \cup dev.pendingSwitchIds
  BY <1>2, Owners
<1>6. TypeOK'
  BY <1>1, <1>3, <1>4, EmptySeq DEF TypeOK, Kept
<1>7. confirmed' => dev'.loadpointCurrent = output'
  BY <1>3, <1>4
<1>8. ASSUME patient, dev'.active
      PROVE  /\ dev'.pollCountBeforeIdleOrError > 0 => dev'.currState = "SWITCH_BUSY"
             /\ dev'.closeRequested =>
                  dev'.loadpointRequestedLast = Off /\ dev'.switcherPending # {}
  <2>1. Patience(line, dev) /\ dev.active
    BY <1>4, <1>8 DEF Kept
  <2>2. dev.pollCountBeforeIdleOrError > 0 =>
          /\ dev.currState = "SWITCH_BUSY"
          /\ \A i \in 1..Len(line) : line[i].id \notin dev.pendingSwitchIds
    BY <1>5, <2>1 DEF Patience
  <2>3. dev'.pollCountBeforeIdleOrError > 0 => dev'.currState = "SWITCH_BUSY"
    BY <1>2, <1>3, <2>2, BatchFails
  <2> QED
    BY <1>4, <1>8, <2>1, <2>3 DEF Kept, Patience
<1>9. ASSUME patient, ~dev'.active, isOpen
      PROVE  confirmed' => output' = Off
  <2>1. confirmed' => noSwitch(line) /\ ~dev.active /\ confirmed
    BY <1>3, <1>4, <1>5, <1>9
  <2> QED
    BY <1>3, <1>9, <2>1
<1> QED
  BY <1>1, <1>6, <1>7, <1>8, <1>9, EmptyLine DEF Patience

\* The source is unplugged, or a demo device is; d is the source as it is left.
LEMMA DisconnectStep ==
  ASSUME IInv, NEW d \in Device, disconnected(d),
         d.switcherPending = dev.switcherPending,
         d.pendingSwitchIds = dev.pendingSwitchIds,
         d.loadpointCurrent = dev.loadpointCurrent,
         d.loadpointRequestedLast = dev.loadpointRequestedLast
  PROVE  IInv' /\ ~dev'.active
<1> DEFINE g == doFinalCloseActivities(d)
<1> USE DEF IInv
<1>1. PICK passed \in BOOLEAN : transactionsEnd(g, line, passed)
  BY DEF disconnected
<1>2. isOpen' = FALSE /\ line' = <<>> /\ patient' = patient
  BY DEF disconnected
<1>3. /\ g \in Device /\ g.active = FALSE
      /\ g.switcherPending = dev.switcherPending
      /\ g.pendingSwitchIds = dev.pendingSwitchIds
      /\ g.loadpointCurrent = dev.loadpointCurrent
      /\ g.loadpointRequestedLast = dev.loadpointRequestedLast
  BY DEF doFinalCloseActivities, Device
<1> HIDE DEF g
<1>4. line \in Seq(Transaction) /\ output \in Load /\ confirmed \in BOOLEAN
  BY DEF TypeOK
<1>5. /\ dev' \in Device /\ ~dev'.active
      /\ output' \in Load /\ confirmed' \in BOOLEAN
      /\ confirmed' => dev'.loadpointCurrent = output'
  <2>1. CASE line = <<>>
    <3>1. dev' = g /\ output' = output /\ confirmed' = confirmed
      BY <1>1, <2>1 DEF transactionsEnd
    <3> QED
      BY <1>3, <1>4, <2>1, <3>1, EmptyLine
  <2>2. CASE line # <<>>
    <3>1. /\ dev' = afterResponses(g, line, passed)
          /\ output' \in Load /\ confirmed' \in BOOLEAN
          /\ noSwitch(line) => output' = output /\ confirmed' = confirmed
          /\ ~noSwitch(line) /\ confirmed' =>
               /\ passed /\ Head(line).kind = "switch"
               /\ noSwitch(Tail(line)) /\ output' = Head(line).load
      BY <1>1, <1>4, <2>2, Outcome
    <3>2. Kept(g, dev') /\ dev'.loadpointCurrent = NewCurrent(g, line, passed)
      BY <1>3, <1>4, <2>2, <3>1, BatchKeeps
    <3>3. /\ noSwitch(line) => \A i \in 1..Len(line) : line[i].id \notin dev.switcherPending
          /\ Head(line) = line[1]
          /\ Head(line).kind = "switch" =>
               /\ Head(line).id \in dev.switcherPending
               /\ noSwitch(Tail(line)) => Head(line).load = dev.loadpointRequestedLast
      BY <1>4, <2>2, Owners
    <3>4. 1 \in 1..Len(line)
      BY <1>4, <2>2, EmptySeq
    <3>5. confirmed' => dev'.loadpointCurrent = output'
      <4>1. CASE noSwitch(line)
        BY <1>3, <3>1, <3>2, <3>3, <3>4, <4>1 DEF NewCurrent
      <4>2. CASE ~noSwitch(line)
        BY <1>3, <3>1, <3>2, <3>3, <4>2 DEF NewCurrent
      <4> QED
        BY <4>1, <4>2
    <3> QED
      BY <1>3, <3>1, <3>2, <3>5 DEF Kept
  <2> QED
    BY <2>1, <2>2
<1>6. TypeOK'
  BY <1>2, <1>5, EmptySeq DEF TypeOK
<1>7. patient => Patience(line', dev')
  BY <1>2, <1>5, EmptyLine DEF Patience
<1> QED
  BY <1>2, <1>5, <1>6, <1>7, EmptyLine

LEMMA InvNext ==
  ASSUME IInv, [Next]_vars
  PROVE  IInv'
<1>1. dev \in Device
  BY DEF IInv, TypeOK
<1>2. CASE onPollTimer
  BY <1>2, PollStep
<1>3. CASE \E l \in Load : switchLoad(l)
  BY <1>3, SwitchStep
<1>4. CASE close
  BY <1>4, CloseStep
<1>5. CASE demoClose
  <2> DEFINE d == [dev EXCEPT !.closeRequested = TRUE]
  <2>1. /\ d \in Device
        /\ d.switcherPending = dev.switcherPending
        /\ d.pendingSwitchIds = dev.pendingSwitchIds
        /\ d.loadpointCurrent = dev.loadpointCurrent
        /\ d.loadpointRequestedLast = dev.loadpointRequestedLast
    BY <1>1 DEF Device
  <2>2. disconnected(d)
    BY <1>5 DEF demoClose
  <2> HIDE DEF d
  <2> QED
    BY <2>1, <2>2, DisconnectStep
<1>6. CASE ioDisconnects
  BY <1>1, <1>6, DisconnectStep DEF ioDisconnects
<1>7. CASE TransactionEnds
  BY <1>7, FinishStep, ErrorStep DEF TransactionEnds
<1>8. CASE UNCHANGED vars
  BY <1>8 DEF vars, IInv, TypeOK
<1> QED
  BY <1>2, <1>3, <1>4, <1>5, <1>6, <1>7, <1>8 DEF Next

LEMMA Invariant == Spec => []IInv
BY InvInit, InvNext, PTL DEF Spec

-----------------------------------------------------------------------------
(* The theorems *)

\* The ids that the objects of a source wait for, its states and its load points stay within
\* their types, however many polls, switches, errors and closings follow each other.
THEOREM TypeCorrect == Spec => []TypeOK
<1>1. IInv => TypeOK
  BY DEF IInv
<1> QED
  BY <1>1, Invariant, PTL

\* Whatever clients switch, however impatiently, and whatever goes wrong in between: when the
\* last switch has succeeded and none is under way, the load point shown and saved is what the
\* source puts out, although the switcher takes it from the last request.
THEOREM CurrentIsAlwaysOutput == Spec => []CurrentIsOutput
<1>1. IInv => CurrentIsOutput
  <2> SUFFICES ASSUME IInv, confirmed, idsInLine("switch") = {}
               PROVE  dev.loadpointCurrent = output
    BY DEF CurrentIsOutput
  <2>1. line \in Seq(Transaction)
    BY DEF IInv, TypeOK
  <2>2. {t.id : t \in {u \in ToSet(line) : u.kind = "switch"}} = {}
    BY DEF idsInLine
  <2>3. noSwitch(line)
    BY <2>1, <2>2, SwitchIds
  <2> QED
    BY <2>3 DEF IInv
<1> QED
  BY <1>1, Invariant, PTL

\* A source that is closed although it was not unplugged is off, if its client waited for its
\* switches and the last one succeeded.
THEOREM ClosedMeansOff == Spec => []ClosedIsOff
<1>1. IInv => ClosedIsOff
  BY DEF IInv, ClosedIsOff
<1> QED
  BY <1>1, Invariant, PTL

-----------------------------------------------------------------------------
(* The source implements SourceStatus for a client that waits *)

\* The status that is shown of d
statusOf(d) ==
  CASE ~d.active -> "gone"
    [] d.active /\ d.currState = "UNDEFINED" -> "unknown"
    [] d.active /\ d.currState = "IDLE" -> "idle"
    [] d.active /\ d.currState = "SWITCH_BUSY" -> "busy"
    [] d.active /\ isErrorState(d) -> "failed"

LEMMA StatusOf ==
  ASSUME NEW d \in Device
  PROVE  /\ d.active \/ statusOf(d) = "gone"
         /\ d.active =>
              /\ d.currState = "UNDEFINED" => statusOf(d) = "unknown"
              /\ d.currState = "IDLE" => statusOf(d) = "idle"
              /\ d.currState = "SWITCH_BUSY" => statusOf(d) = "busy"
              /\ d.currState \in ErrorStates => statusOf(d) = "failed"
<1>1. ~d.active => statusOf(d) = "gone"
  BY DEF statusOf
<1>2. d.active /\ d.currState = "UNDEFINED" => statusOf(d) = "unknown"
  BY DEF statusOf, isErrorState, ErrorStates
<1>3. d.active /\ d.currState = "IDLE" => statusOf(d) = "idle"
  BY DEF statusOf, isErrorState, ErrorStates
<1>4. d.active /\ d.currState = "SWITCH_BUSY" => statusOf(d) = "busy"
  BY DEF statusOf, isErrorState, ErrorStates
<1>5. d.active /\ d.currState \in ErrorStates => statusOf(d) = "failed"
  BY DEF statusOf, isErrorState, ErrorStates
<1> QED
  BY <1>1, <1>2, <1>3, <1>4, <1>5

\* What a step may do to the status, in terms of the source: a switch is started, the source
\* leaves, the state stays, a switch ends, a poll ends.
Progress ==
  \/ dev.active /\ dev'.active /\ dev'.currState = "SWITCH_BUSY"
  \/ ~dev'.active /\ (noSwitch(line) => noSwitch(line'))
  \/ /\ dev'.active = dev.active /\ dev'.currState = dev.currState
     /\ noSwitch(line) => noSwitch(line')
  \/ /\ dev.active /\ dev'.active /\ dev.currState = "SWITCH_BUSY"
     /\ \/ dev'.currState = "IDLE" /\ noSwitch(line')
        \/ dev'.currState \in ErrorStates /\ (noSwitch(line) => noSwitch(line'))
  \/ /\ dev.active /\ dev'.active /\ noSwitch(line) /\ noSwitch(line')
     /\ \/ dev.currState = "UNDEFINED" /\ dev'.currState = "IDLE"
        \/ dev.currState \in {"UNDEFINED", "IDLE"} /\ dev'.currState \in ErrorStates

\* The step of SourceStatus for the status s and the switch w under way
StatusStep(s, w, s1, w1) ==
  \/ s # "gone" /\ s1 = "busy" /\ w1 \in BOOLEAN
  \/ w /\ ~w1 /\ s1 = s
  \/ /\ s = "busy"
     /\ \/ s1 = "idle" /\ ~w1
        \/ s1 = "failed" /\ (w1 => w)
  \/ /\ \/ s = "unknown" /\ s1 = "idle"
        \/ s \in {"unknown", "idle"} /\ s1 = "failed"
     /\ ~w /\ w1 = w
  \/ s1 = "gone" /\ (w1 => w)
  \/ s1 = s /\ w1 = w

LEMMA ProgressIsStatusStep ==
  ASSUME dev \in Device, dev' \in Device, Progress,
         NEW w \in BOOLEAN, NEW w1 \in BOOLEAN, w <=> ~noSwitch(line), w1 <=> ~noSwitch(line')
  PROVE  StatusStep(statusOf(dev), w, statusOf(dev'), w1)
<1>1. /\ dev.active \/ statusOf(dev) = "gone"
      /\ dev.active =>
           /\ dev.currState = "UNDEFINED" => statusOf(dev) = "unknown"
           /\ dev.currState = "IDLE" => statusOf(dev) = "idle"
           /\ dev.currState = "SWITCH_BUSY" => statusOf(dev) = "busy"
           /\ dev.currState \in ErrorStates => statusOf(dev) = "failed"
  BY StatusOf
<1>2. /\ dev'.active \/ statusOf(dev') = "gone"
      /\ dev'.active =>
           /\ dev'.currState = "UNDEFINED" => statusOf(dev') = "unknown"
           /\ dev'.currState = "IDLE" => statusOf(dev') = "idle"
           /\ dev'.currState = "SWITCH_BUSY" => statusOf(dev') = "busy"
           /\ dev'.currState \in ErrorStates => statusOf(dev') = "failed"
  BY StatusOf
<1>3. dev.active => statusOf(dev) # "gone"
  <2>1. dev.currState \in States
    BY DEF Device
  <2> QED
    BY <1>1, <2>1 DEF States, ErrorStates
<1>4. CASE dev.active /\ dev'.active /\ dev'.currState = "SWITCH_BUSY"
  BY <1>2, <1>3, <1>4 DEF StatusStep
<1>5. CASE ~dev'.active /\ (noSwitch(line) => noSwitch(line'))
  BY <1>2, <1>5 DEF StatusStep
<1>6. CASE /\ dev'.active = dev.active /\ dev'.currState = dev.currState
           /\ noSwitch(line) => noSwitch(line')
  <2>1. dev.currState \in States /\ dev.active \in BOOLEAN
    BY DEF Device
  <2>2. statusOf(dev') = statusOf(dev)
    BY <1>1, <1>2, <1>6, <2>1 DEF States, ErrorStates
  <2>3. w1 = w \/ (w /\ ~w1)
    BY <1>6
  <2> QED
    BY <2>2, <2>3 DEF StatusStep
<1>7. CASE /\ dev.active /\ dev'.active /\ dev.currState = "SWITCH_BUSY"
           /\ \/ dev'.currState = "IDLE" /\ noSwitch(line')
              \/ dev'.currState \in ErrorStates /\ (noSwitch(line) => noSwitch(line'))
  <2>1. /\ statusOf(dev) = "busy"
        /\ \/ statusOf(dev') = "idle" /\ ~w1
           \/ statusOf(dev') = "failed" /\ (w1 => w)
    BY <1>1, <1>2, <1>7
  <2> QED
    BY <2>1 DEF StatusStep
<1>8. CASE /\ dev.active /\ dev'.active /\ noSwitch(line) /\ noSwitch(line')
           /\ \/ dev.currState = "UNDEFINED" /\ dev'.currState = "IDLE"
              \/ dev.currState \in {"UNDEFINED", "IDLE"} /\ dev'.currState \in ErrorStates
  <2>1. w = FALSE /\ w1 = FALSE
    BY <1>8
  <2>2. \/ statusOf(dev) = "unknown" /\ statusOf(dev') = "idle"
        \/ statusOf(dev) \in {"unknown", "idle"} /\ statusOf(dev') = "failed"
    BY <1>1, <1>2, <1>8
  <2> QED
    BY <2>1, <2>2 DEF StatusStep
<1> QED
  BY <1>4, <1>5, <1>6, <1>7, <1>8 DEF Progress

\* The oldest transaction has ended, for a client that waits.
LEMMA FinishProgress ==
  ASSUME IInv, patient, NEW passed \in BOOLEAN, transactionFinishes(passed)
  PROVE  Progress
<1> DEFINE t == Head(line)
<1> USE DEF IInv
<1>1. line # <<>> /\ line' = Tail(line) /\ transactionsEnd(dev, <<t>>, passed)
  BY DEF transactionFinishes
<1>2. line \in Seq(Transaction) /\ dev \in Device /\ output \in Load /\ confirmed \in BOOLEAN
  BY DEF TypeOK
<1>3. t \in Transaction
  BY <1>1, <1>2, HeadTailProperties
<1> HIDE DEF t
<1>4. Reported(dev, dev', t, passed)
  BY <1>1, <1>2, <1>3, OneOutcome
<1>5. /\ noSwitch(line) <=> noSwitch(line') /\ t.kind = "poll"
      /\ t.kind = "switch" => noSwitch(line') /\ t.id \in dev.pendingSwitchIds
      /\ t.kind = "poll" => t.id \notin dev.switcherPending \cup dev.pendingSwitchIds
  BY <1>1, <1>2, <1>4, Left DEF t, Reported, Patience
<1>6. t.kind = "poll" \/ t.kind = "switch"
  BY <1>3 DEF Transaction
<1>7. dev.active \in BOOLEAN /\ dev'.active \in BOOLEAN /\ (dev'.active => dev.active)
      /\ dev.currState \in States /\ dev.pollCountBeforeIdleOrError \in Nat
      /\ dev'.pollCountBeforeIdleOrError \in Nat
  BY <1>2, <1>4 DEF Device, Reported
<1>8. CASE ~dev'.active
  BY <1>5, <1>8 DEF Progress
<1>9. CASE dev'.active /\ t.kind = "switch"
  <2>1. dev.active /\ dev'.active /\ ~noSwitch(line) /\ noSwitch(line')
    BY <1>5, <1>7, <1>9
  <2>2. dev.currState \in {"SWITCH_BUSY"} \cup ErrorStates
    BY <2>1 DEF Patience
  <2>3. SwitchAnswered(dev, dev', passed)
    BY <1>4, <1>5, <1>9 DEF Reported
  <2>4. \/ dev'.currState = "SWITCH_BUSY"
        \/ dev'.currState = dev.currState
        \/ dev.currState = "SWITCH_BUSY" /\ dev'.currState \in {"IDLE"} \cup ErrorStates
    BY <2>2, <2>3 DEF SwitchAnswered, ErrorStates
  <2> QED
    BY <1>7, <2>1, <2>4 DEF Progress
<1>10. CASE dev'.active /\ t.kind = "poll"
  <2>1. dev.active /\ dev'.active /\ (noSwitch(line) <=> noSwitch(line'))
    BY <1>5, <1>7, <1>10
  <2>2. /\ dev.pollCountBeforeIdleOrError > 0 => dev.currState = "SWITCH_BUSY" /\ noSwitch(line)
        /\ noSwitch(line) \/ dev.currState \in {"SWITCH_BUSY"} \cup ErrorStates
    BY <2>1 DEF Patience
  <2>3. PollAnswered(dev, dev', passed) \/ dev'.currState = dev.currState
    BY <1>4, <1>5, <1>10 DEF Reported
  <2>4. \/ dev'.currState = dev.currState
        \/ dev.currState = "SWITCH_BUSY" /\ dev'.currState \in ErrorStates
        \/ dev.currState = "SWITCH_BUSY" /\ dev'.currState = "IDLE" /\ noSwitch(line)
        \/ /\ noSwitch(line)
           /\ \/ dev.currState = "UNDEFINED" /\ dev'.currState = "IDLE"
              \/ dev.currState \in {"UNDEFINED", "IDLE"} /\ dev'.currState \in ErrorStates
    BY <1>7, <2>2, <2>3 DEF PollAnswered, States, ErrorStates
  <2> QED
    BY <1>7, <2>1, <2>4 DEF Progress
<1> QED
  BY <1>6, <1>8, <1>9, <1>10

\* The line is aborted, for a client that waits.
LEMMA ErrorProgress ==
  ASSUME IInv, patient, ioError
  PROVE  Progress
<1> USE DEF IInv
<1>1. line # <<>> /\ transactionsEnd(dev, line, FALSE) /\ line' = <<>>
  BY DEF ioError
<1>2. /\ line \in Seq(Transaction) /\ dev \in Device /\ output \in Load /\ confirmed \in BOOLEAN
  BY DEF TypeOK
<1>3. dev' = afterResponses(dev, line, FALSE)
  BY <1>1, <1>2, Outcome
<1>4. Kept(dev, dev')
  BY <1>1, <1>2, <1>3, BatchKeeps
<1>5. noSwitch(line')
  BY <1>1, EmptyLine
<1>6. CASE ~dev'.active
  BY <1>5, <1>6 DEF Progress
<1>7. CASE dev'.active
  <2>1. dev.active /\ Patience(line, dev) /\ dev.currState \in States
        /\ dev.active \in BOOLEAN /\ dev'.active \in BOOLEAN
    BY <1>2, <1>4, <1>7 DEF Kept, Device
  <2>2. noSwitch(line) =>
          \A i \in 1..Len(line) : line[i].id \notin dev.switcherPending \cup dev.pendingSwitchIds
    BY <1>2, Owners
  <2>3. dev.pollCountBeforeIdleOrError > 0 =>
          /\ dev.currState = "SWITCH_BUSY"
          /\ \A i \in 1..Len(line) : line[i].id \notin dev.pendingSwitchIds
    BY <2>1, <2>2 DEF Patience
  <2>4. \/ dev'.currState = dev.currState
        \/ dev.currState \notin ErrorStates /\ dev'.currState \in ErrorStates
    BY <1>2, <1>3, <2>3, BatchFails
  <2>5. noSwitch(line) \/ dev.currState \in {"SWITCH_BUSY"} \cup ErrorStates
    BY <2>1 DEF Patience
  <2>6. \/ dev'.currState = dev.currState
        \/ dev.currState = "SWITCH_BUSY" /\ dev'.currState \in ErrorStates
        \/ /\ noSwitch(line)
           /\ dev.currState \in {"UNDEFINED", "IDLE"} /\ dev'.currState \in ErrorStates
    BY <2>1, <2>4, <2>5 DEF States, ErrorStates
  <2> QED
    BY <1>5, <1>7, <2>1, <2>6 DEF Progress
<1> QED
  BY <1>6, <1>7

LEMMA EveryProgress ==
  ASSUME IInv, patient, [Next]_vars
  PROVE  Progress
<1>1. dev \in Device /\ dev.active \in BOOLEAN
  BY DEF IInv, TypeOK, Device
<1>2. CASE onPollTimer
  BY <1>2, PollStep DEF Progress
<1>3. CASE \E l \in Load : switchLoad(l)
  <2>1. dev'.active /\ dev'.currState = "SWITCH_BUSY"
    BY <1>3, SwitchStep
  <2>2. dev.active
    BY <1>3 DEF switchLoad
  <2> QED
    BY <2>1, <2>2 DEF Progress
<1>4. CASE close
  <2>1. IF dev'.active THEN dev'.currState = "SWITCH_BUSY" ELSE line' = line
    BY <1>4, CloseStep
  <2>2. dev.active
    BY <1>4 DEF close
  <2> QED
    BY <2>1, <2>2 DEF Progress
<1>5. CASE demoClose
  <2> DEFINE d == [dev EXCEPT !.closeRequested = TRUE]
  <2>1. /\ d \in Device
        /\ d.switcherPending = dev.switcherPending
        /\ d.pendingSwitchIds = dev.pendingSwitchIds
        /\ d.loadpointCurrent = dev.loadpointCurrent
        /\ d.loadpointRequestedLast = dev.loadpointRequestedLast
    BY <1>1 DEF Device
  <2>2. disconnected(d)
    BY <1>5 DEF demoClose
  <2>3. line' = <<>>
    BY <2>2 DEF disconnected
  <2> HIDE DEF d
  <2> QED
    BY <2>1, <2>2, <2>3, DisconnectStep, EmptyLine DEF Progress
<1>6. CASE ioDisconnects
  <2>1. line' = <<>>
    BY <1>6 DEF ioDisconnects, disconnected
  <2> QED
    BY <1>1, <1>6, <2>1, DisconnectStep, EmptyLine DEF Progress, ioDisconnects
<1>7. CASE TransactionEnds
  BY <1>7, FinishProgress, ErrorProgress DEF TransactionEnds
<1>8. CASE UNCHANGED vars
  BY <1>8 DEF vars, Progress
<1> QED
  BY <1>2, <1>3, <1>4, <1>5, <1>6, <1>7, <1>8 DEF Next

\* What a client that waits for its switches reads of the source is what SourceStatus promises:
\* busy from the switch on until the source has carried it out or failed, whatever polls are
\* answered meanwhile; a failure until the next switch; and once gone it stays away.
THEOREM SourceImplementsStatus == Spec => ImplementsSourceStatus
<1>1. Init => Status!Init
  <2> SUFFICES ASSUME Init
               PROVE  Status!Init
    OBVIOUS
  <2>1. dev \in Device /\ dev.active = TRUE /\ dev.currState = "UNDEFINED" /\ line = <<>>
    BY SourceAssumption DEF Init, Device, States
  <2>2. statusOf(dev) = "unknown"
    BY <2>1, StatusOf
  <2>3. ({t.id : t \in {u \in ToSet(line) : u.kind = "switch"}} = {}) <=> noSwitch(line)
    BY <2>1, SwitchIds, EmptySeq
  <2>4. idsInLine("switch") = {}
    BY <2>1, <2>3, EmptyLine DEF idsInLine
  <2> QED
    BY <2>2, <2>4 DEF Status!Init, shownStatus, statusOf
<1>2. IInv /\ IInv' /\ [Next]_vars => [Status!Next]_Status!statusVars
  <2> SUFFICES ASSUME IInv, IInv', [Next]_vars
               PROVE  [Status!Next]_Status!statusVars
    OBVIOUS
  <2> DEFINE s == IF patient THEN shownStatus ELSE "unknown"
             w == patient /\ idsInLine("switch") # {}
             s1 == IF patient' THEN statusOf(dev') ELSE "unknown"
             w1 == patient' /\ ~noSwitch(line')
  <2>1. /\ dev \in Device /\ dev' \in Device /\ patient \in BOOLEAN
        /\ line \in Seq(Transaction) /\ line' \in Seq(Transaction)
    BY DEF IInv, TypeOK
  <2>2. patient' = patient
    BY DEF vars, Next, onPollTimer, switchLoad, close, demoClose, disconnected, ioDisconnects,
           TransactionEnds, transactionFinishes, ioError
  <2>3. /\ (idsInLine("switch") = {}) <=> noSwitch(line)
        /\ (idsInLine("switch")' = {}) <=> noSwitch(line')
    BY <2>1, SwitchIds DEF idsInLine
  <2>4. shownStatus = statusOf(dev) /\ shownStatus' = statusOf(dev')
    BY DEF shownStatus, statusOf, isErrorState
  <2>5. StatusStep(s, w, s', w')
    <3>1. CASE patient
      <4>1. Progress
        BY <3>1, EveryProgress
      <4>2. s = statusOf(dev) /\ s' = statusOf(dev')
        BY <2>2, <2>4, <3>1
      <4>3. (w <=> ~noSwitch(line)) /\ (w' <=> ~noSwitch(line')) /\ w \in BOOLEAN /\ w' \in BOOLEAN
        BY <2>2, <2>3, <3>1
      <4> HIDE DEF s, w
      <4> QED
        BY <2>1, <4>1, <4>2, <4>3, ProgressIsStatusStep
    <3>2. CASE ~patient
      BY <2>2, <3>2 DEF StatusStep
    <3> QED
      BY <3>1, <3>2
  <2> QED
    BY <2>5 DEF StatusStep, Status!Next, Status!statusVars, Status!Switch, Status!Answer,
                Status!SwitchEnds, Status!PollEnds, Status!Leave
<1> QED
  BY Invariant, <1>1, <1>2, PTL DEF Spec, ImplementsSourceStatus, Status!Spec
=============================================================================
