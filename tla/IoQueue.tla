------------------------------ MODULE IoQueue ------------------------------
(***************************************************************************)
(* The I/O queue of the external (serial) source: IoQueue hands the        *)
(* transfers of one group after the other to an asynchronous I/O device.   *)
(* The device answers by sigIoFinished, posted to the event loop, and      *)
(* reports its loss by sigDisconnected, called directly.  Groups carry an  *)
(* error behaviour that says when their remaining transfers are dropped.   *)
(*                                                                         *)
(* An action is one call from outside (a user enqueues, the device         *)
(* answers, the event loop delivers), with everything it calls.            *)
(***************************************************************************)
EXTENDS Naturals, Sequences, SequencesExt

CONSTANTS
  Group,                \* the groups users create; each is enqueued once
  TransferCount,        \* [Group -> Nat]: getTransferCount()
  ErrorBehavior,        \* [Group -> Behavior]: getErrorBehavior()
  MaxPendingGroups,     \* m_maxPendingGroups, 0: no limit
  NoIo                  \* no I/O id

Behavior == {"STOP_ON_ERROR", "CONTINUE_ON_ERROR", "STOP_ON_FIRST_OK"}

ASSUME QueueAssumption ==
  /\ TransferCount \in [Group -> Nat]
  /\ ErrorBehavior \in [Group -> Behavior]
  /\ MaxPendingGroups \in Nat
  /\ NoIo \notin Nat

VARIABLES
  isOpen,               \* m_ioDevice->isOpen()
  pendingGroups,        \* m_pendingGroups
  nextPosInCurrGroup,   \* m_nextPosInCurrGroup
  currIoId,             \* m_currIoId: the I/O waited for, or NoIo
  lastId,               \* the device's id generator
  working,              \* the transfer the device works on: a set of at most one [id, group]
  posted,               \* posted sigIoFinished not delivered yet: Seq([id, error])
  outcome,              \* [Group -> Seq(BOOLEAN)]: didIoPass of the transfers evaluated so far
  finished              \* sigTransferGroupFinished emitted so far: Seq(Group)

vars == <<isOpen, pendingGroups, nextPosInCurrGroup, currIoId, lastId, working,
          posted, outcome, finished>>

Work == [id : Nat, group : Group]
Report == [id : Nat, error : BOOLEAN]

Init ==
  /\ isOpen \in BOOLEAN             \* a device that could not be opened is handed over as well
  /\ pendingGroups = <<>>
  /\ nextPosInCurrGroup = 0
  /\ currIoId = NoIo
  /\ lastId = 0
  /\ working = {}
  /\ posted = <<>>
  /\ outcome = [g \in Group |-> <<>>]
  /\ finished = <<>>

-----------------------------------------------------------------------------
(* Faulty variants of the steps below: each breaks one of the properties *)

exhaustedOneEarly(gs, pos) == gs # <<>> /\ pos + 1 >= TransferCount[Head(gs)]

abortKeepsPosition ==
  /\ pendingGroups' = <<>>
  /\ UNCHANGED nextPosInCurrGroup
  /\ finished' = finished \o pendingGroups

abortToMinusOne ==
  /\ pendingGroups' = <<>>
  /\ nextPosInCurrGroup' = IF pendingGroups = <<>> THEN nextPosInCurrGroup ELSE 0 - 1
  /\ finished' = finished \o pendingGroups

abortReportsCurrentOnly ==
  /\ pendingGroups' = <<>>
  /\ nextPosInCurrGroup' = 0
  /\ finished' = IF pendingGroups = <<>> THEN finished ELSE Append(finished, Head(pendingGroups))

abortNewestFirst ==
  /\ pendingGroups' = <<>>
  /\ nextPosInCurrGroup' = IF pendingGroups = <<>> THEN nextPosInCurrGroup ELSE 0
  /\ finished' = finished \o Reverse(pendingGroups)

deviceDisconnectsStillBusy ==
  /\ isOpen
  /\ isOpen' = FALSE
  /\ working' \in {working, {}}
  /\ pendingGroups' = <<>>
  /\ nextPosInCurrGroup' = IF pendingGroups = <<>> THEN nextPosInCurrGroup ELSE 0
  /\ finished' = finished \o pendingGroups
  /\ UNCHANGED <<currIoId, lastId, posted, outcome>>

-----------------------------------------------------------------------------
(* The steps the handlers are made of *)

isIoBusy == currIoId # NoIo

canEnqueue(g) ==
  /\ isOpen
  /\ TransferCount[g] > 0
  /\ MaxPendingGroups = 0 \/ Len(pendingGroups) < MaxPendingGroups

\* The transfer sent last was evaluated and passed.
checkCurrentResponsePassed ==
  LET o == outcome[Head(pendingGroups)]
  IN  nextPosInCurrGroup \in DOMAIN o /\ o[nextPosInCurrGroup]

canContinueCurrentGroup ==
  LET behavior == ErrorBehavior[Head(pendingGroups)] IN
  \/ behavior = "STOP_ON_FIRST_OK" /\ ~checkCurrentResponsePassed
  \/ behavior = "STOP_ON_ERROR" /\ checkCurrentResponsePassed
  \/ behavior = "CONTINUE_ON_ERROR"

\* The device takes a transfer; posts is what is posted by then.  A write that
\* fails at once is posted as an error.
sendAndReceive(g, posts) ==
  /\ lastId' = lastId + 1
  /\ currIoId' = lastId + 1
  /\ \/ /\ working' = {[id |-> lastId + 1, group |-> g]}
        /\ posted' = posts
     \/ /\ working' = {}
        /\ posted' = Append(posts, [id |-> lastId + 1, error |-> TRUE])

\* getNextIoTransfer finds the first group exhausted: finishCurrentGroup, next group
exhausted(gs, pos) == gs # <<>> /\ pos >= TransferCount[Head(gs)]

\* tryStartNextIo on an idle device, with the pending groups gs, the position
\* pos in the first of them and the groups fin finished so far.
tryStartNextIo(gs, pos, fin, posts) ==
  LET over == exhausted(gs, pos)
      rest == IF over THEN Tail(gs) ELSE gs
      next == IF over THEN 0 ELSE pos
  IN  /\ pendingGroups' = rest
      /\ finished' = IF over THEN Append(fin, Head(gs)) ELSE fin
      /\ \/ /\ rest # <<>>
            /\ nextPosInCurrGroup' = next + 1
            /\ sendAndReceive(Head(rest), posts)
         \/ /\ rest = <<>>
            /\ nextPosInCurrGroup' = next
            /\ currIoId' = NoIo
            /\ posted' = posts
            /\ UNCHANGED <<lastId, working>>

abortAllGroups ==
  /\ pendingGroups' = <<>>
  /\ nextPosInCurrGroup' = IF pendingGroups = <<>> THEN nextPosInCurrGroup ELSE 0
  /\ finished' = finished \o pendingGroups

-----------------------------------------------------------------------------
(* The calls from outside *)

submitted == ToSet(pendingGroups) \cup ToSet(finished)

enqueueTransferGroup(g) ==
  /\ g \notin submitted
  /\ UNCHANGED <<isOpen, outcome>>
  /\ \/ /\ ~canEnqueue(g)
        /\ finished' = Append(finished, g)
        /\ UNCHANGED <<pendingGroups, nextPosInCurrGroup, currIoId, lastId, working, posted>>
     \/ /\ canEnqueue(g)
        /\ ~isIoBusy
        /\ tryStartNextIo(Append(pendingGroups, g), nextPosInCurrGroup, finished, posted)
     \/ /\ canEnqueue(g)
        /\ isIoBusy
        /\ pendingGroups' = Append(pendingGroups, g)
        /\ UNCHANGED <<nextPosInCurrGroup, currIoId, lastId, working, posted, finished>>

\* The event loop delivers sigIoFinished.
onIoFinished ==
  /\ posted # <<>>
  /\ UNCHANGED <<isOpen, outcome>>
  /\ LET report == Head(posted) IN
     \/ /\ report.id # currIoId                    \* not ours (any more)
        /\ posted' = Tail(posted)
        /\ UNCHANGED <<pendingGroups, nextPosInCurrGroup, currIoId, lastId, working, finished>>
     \/ /\ report.id = currIoId
        /\ report.error
        /\ abortAllGroups
        /\ currIoId' = NoIo
        /\ posted' = Tail(posted)
        /\ UNCHANGED <<lastId, working>>
     \/ /\ report.id = currIoId
        /\ ~report.error
        /\ canContinueCurrentGroup
        /\ tryStartNextIo(pendingGroups, nextPosInCurrGroup, finished, Tail(posted))
     \/ /\ report.id = currIoId
        /\ ~report.error
        /\ ~canContinueCurrentGroup                \* finishCurrentGroup
        /\ tryStartNextIo(Tail(pendingGroups), 0,
                          Append(finished, Head(pendingGroups)), Tail(posted))

\* The device has its answer or its timeout: the transfer is evaluated, and the
\* end of the I/O posted.  A closed demo device still answers what it was sent.
deviceAnswers ==
  \E w \in working, pass \in BOOLEAN :
    /\ working' = {}
    /\ outcome' = [outcome EXCEPT ![w.group] = Append(@, pass)]
    /\ posted' = Append(posted, [id |-> w.id, error |-> FALSE])
    /\ UNCHANGED <<isOpen, pendingGroups, nextPosInCurrGroup, currIoId, lastId, finished>>

\* The device closes: its file disappeared (serial) or close() was called (demo).
\* sigDisconnected runs onIoDisconnected at once.  The serial device drops the
\* transfer it works on, the demo device's timer runs on.
deviceDisconnects ==
  /\ isOpen
  /\ isOpen' = FALSE
  /\ working' \in {working, {}}
  /\ currIoId' = NoIo
  /\ abortAllGroups
  /\ UNCHANGED <<lastId, posted, outcome>>

Next ==
  \/ \E g \in Group : enqueueTransferGroup(g)
  \/ onIoFinished
  \/ deviceAnswers
  \/ deviceDisconnects

Spec == Init /\ [][Next]_vars

\* The event loop runs, and the device answers or times out.
FairSpec == Spec /\ WF_vars(onIoFinished) /\ WF_vars(deviceAnswers)

-----------------------------------------------------------------------------
(* Properties *)

TypeOK ==
  /\ isOpen \in BOOLEAN
  /\ pendingGroups \in Seq(Group)
  /\ nextPosInCurrGroup \in Nat
  /\ currIoId \in Nat \cup {NoIo}
  /\ lastId \in Nat
  /\ working \in SUBSET Work
  /\ \A v, w \in working : v = w
  /\ posted \in Seq(Report)
  /\ outcome \in [Group -> Seq(BOOLEAN)]
  /\ finished \in Seq(Group)

\* The answer to I/O id is still to come: the device works on it or has posted it.
Awaited(id) ==
  \/ \E w \in working : w.id = id
  \/ \E r \in ToSet(posted) : r.id = id

\* The queue never stalls and never talks to a lost device: it waits for an I/O
\* exactly while groups are pending, that I/O's end is on its way, and groups
\* are pending on an open device only (isIoBusy, m_currIoId, tryStartNextIo).
NeverStalls ==
  /\ isIoBusy <=> pendingGroups # <<>>
  /\ isIoBusy => Awaited(currIoId)
  /\ pendingGroups # <<>> => isOpen

\* The answer the queue waits for is the one to the transfer it evaluates next:
\* the device works for the oldest group, on the transfer before
\* m_nextPosInCurrGroup, and all transfers before that one are evaluated
\* (checkCurrentResponsePassed looks at m_nextPosInCurrGroup - 1).
AnswerBelongsToCurrentTransfer ==
  \A w \in working : w.id = currIoId =>
    /\ w.group = Head(pendingGroups)
    /\ nextPosInCurrGroup = Len(outcome[w.group]) + 1

\* A group is reported finished at most once and is not reported while it is
\* still pending (finishGroup on refusal, on completion and on abort).
FinishedOnce ==
  /\ IsInjective(pendingGroups \o finished)

\* The group has run as far as its error behaviour allows.
RunsToItsEnd(g) ==
  LET o == outcome[g] IN
  \/ Len(o) = TransferCount[g]
  \/ ErrorBehavior[g] = "STOP_ON_ERROR" /\ \E i \in DOMAIN o : ~o[i]
  \/ ErrorBehavior[g] = "STOP_ON_FIRST_OK" /\ \E i \in DOMAIN o : o[i]

\* A group runs just to its end: no transfer runs after the one that ends it
\* (canContinueCurrentGroup), and a group that finishes on an open device without a
\* device error has skipped none (onIoFinished).
FinishesOnlyAtTheEnd ==
  [][ \A g \in Group :
        /\ outcome'[g] # outcome[g] => ~RunsToItsEnd(g)
        /\ ( /\ g \in ToSet(pendingGroups)
             /\ g \in ToSet(finished')
             /\ isOpen'
             /\ ~Head(posted).error ) => RunsToItsEnd(g) ]_vars

\* Every group a user handed over is reported finished in the end, whatever the
\* device does, as long as it answers or times out (enqueueTransferGroup).
EveryGroupFinishes ==
  \A g \in Group : g \in submitted ~> g \in ToSet(finished)

\* The queue is a first-in first-out line of groups.
Fifo == INSTANCE GroupFifo WITH line <- pendingGroups, done <- finished
ImplementsFifo == Fifo!Spec
=============================================================================
