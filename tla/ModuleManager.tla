--------------------------- MODULE ModuleManager ---------------------------
(***************************************************************************)
(* ModuleManager starts the modules of a session file one after the other  *)
(* and, on a session change, first destroys all modules of the session     *)
(* before.  m_moduleStartLock serialises all of it; modules that cannot be *)
(* started yet wait in m_deferredStartList.                                *)
(*                                                                         *)
(* Everything runs on one event loop.  Call chains that loop or recurse    *)
(* (the session loader's loop over the file, onModuleStartNext calling     *)
(* startModule calling onModuleStartNext) are modelled call by call:       *)
(* loader, target and startNext say which call is due next, and events are *)
(* handled only when none is (IdleLoop).                                   *)
(***************************************************************************)
EXTENDS Naturals, Sequences, FiniteSets, SequencesExt

CONSTANTS
  Session,              \* session files that exist
  NoSession,
  Entry,                \* module entries of the session files
  Entries,              \* [Session -> Seq(Entry)]: the "modules" array of a file
  HasFactory,           \* entries a plugin was loaded for (m_factoryTable)
  Licensable,           \* entries with "licensable": true
  Licensed,             \* those of them a license exists for
  Failing,              \* entries whose preparation or creation may fail
  ServersMayFail,       \* the DSP server may be unreachable on a session change
  SerialProvider,       \* the status module: the serial number is a component of it
  SerialAtStart,        \* initial values of serialNumberIsInitialized()
  MaxChanges            \* bound: session changes requested

ASSUME ManagerAssumption ==
  /\ NoSession \notin Session
  /\ Entries \in [Session -> Seq(Entry)]
  /\ HasFactory \subseteq Entry
  /\ Licensable \subseteq Entry
  /\ Licensed \subseteq Licensable
  /\ Failing \subseteq Entry
  /\ ServersMayFail \in BOOLEAN
  /\ SerialProvider \in Entry
  /\ SerialAtStart \subseteq BOOLEAN
  /\ MaxChanges \in Nat

\* The session files shipped name an entity once, and begin with the status
\* module, which needs no license.
ASSUME SessionFileAssumption ==
  \A s \in Session :
    /\ Entries[s] # <<>>
    /\ IsInjective(Entries[s])
    /\ Head(Entries[s]) \in HasFactory \ Licensable

VARIABLES
  sessionFile,          \* m_sessionFile
  target,               \* newSessionFile of the changeSessionFile call under way, or NoSession
  loader,               \* entries of its file the session loader has not parsed yet
  startNext,            \* an onModuleStartNext call is due
  lock,                 \* m_moduleStartLock
  deferred,             \* m_deferredStartList
  prepare,              \* the entry of m_currModulePrepareTask: a set of at most one
  modules,              \* m_moduleDataList: Seq(Module)
  shutdown,             \* progress of m_allModulesDestroyTask
  dying,                \* its modules: Seq(Dying)
  leaked,               \* entries of modules a failed destroy task left behind
  shared,               \* the module shared data exists
  serial,               \* serialNumberIsInitialized()
  default,              \* the default session in the configuration file
  ready,                \* sigModulesLoaded was emitted since the last session change
  broken,               \* history: entries whose start failed
  changes,              \* session changes so far
  overtaken,            \* history: a change was accepted while entries of a session waited
  aborted               \* qFatal

callVars == <<target, loader, startNext>>
taskVars == <<shutdown, dying, leaked>>
vars == <<sessionFile, target, loader, startNext, lock, deferred, prepare, modules, shutdown,
          dying, leaked, shared, serial, default, ready, broken, changes, overtaken, aborted>>

\* A module: m_moduleIsFullySetUp, whether it measures, and whether its set-up
\* was started again while it ran.
Module == [entry : Entry, setUp : BOOLEAN, measures : BOOLEAN, restarted : BOOLEAN]
\* A module in the destroy task
Dying == [entry : Entry, phase : {"deactivating", "deleting", "gone"}]

Init ==
  /\ sessionFile = NoSession
  /\ target = NoSession
  /\ loader = <<>>
  /\ startNext = FALSE
  /\ lock = FALSE
  /\ deferred = <<>>
  /\ prepare = {}
  /\ modules = <<>>
  /\ shutdown = "none"
  /\ dying = <<>>
  /\ leaked = {}
  /\ shared = FALSE
  /\ serial \in SerialAtStart
  /\ default \in Session
  /\ ready = FALSE
  /\ broken = {}
  /\ changes = 0
  /\ overtaken = FALSE
  /\ aborted = FALSE

IdleLoop == ~aborted /\ target = NoSession /\ ~startNext

\* Positions in m_moduleDataList
starting == {i \in DOMAIN modules : ~modules[i].setUp}
fullySetUp == {i \in DOMAIN modules : modules[i].setUp}

-----------------------------------------------------------------------------
(* Faulty variants of the steps below: each breaks one of the properties *)

startable(e) == e \in HasFactory /\ (e \in Licensable => serial /\ e \in Licensed)

prepareModule(e) == prepare' = {e} /\ shared' = TRUE /\ lock' = TRUE /\ startNext' = FALSE

skipModule == lock' = FALSE /\ startNext' = TRUE /\ UNCHANGED <<prepare, shared>>

startModuleNewestFirst(e, locked, queue) ==
  \/ ~locked /\ startable(e) /\ prepareModule(e) /\ deferred' = queue
  \/ ~locked /\ ~startable(e) /\ serial /\ skipModule /\ deferred' = queue
  \/ /\ locked \/ (~startable(e) /\ ~serial)
     /\ lock' = locked
     /\ deferred' = <<e>> \o queue
     /\ startNext' = FALSE
     /\ UNCHANGED <<prepare, shared>>

handleFinalDropsName ==
  /\ default' = target
  /\ shared' = FALSE
  /\ ready' = TRUE

destroyModulesUnlocked ==
  /\ modules' = <<>>
  /\ UNCHANGED lock
  /\ IF modules # <<>>
     THEN /\ shutdown' = "connecting"
          /\ dying' = [i \in DOMAIN modules |->
                         [entry |-> modules[i].entry, phase |-> "deactivating"]]
     ELSE UNCHANGED <<shutdown, dying>>

delayedStartForgotten(known, locked) == startNext' = FALSE

moduleActivatedStaysLocked ==
  /\ IdleLoop
  /\ \E i \in starting :
       modules' = [modules EXCEPT ![i].setUp = TRUE, ![i].measures = TRUE]
  /\ UNCHANGED <<sessionFile, callVars, lock, deferred, prepare, taskVars, shared, serial,
                 default, ready, broken, changes, overtaken, aborted>>

serialNumberUnheard ==
  /\ IdleLoop
  /\ ~serial
  /\ \E i \in DOMAIN modules : modules[i].entry = SerialProvider
  /\ serial' = TRUE
  /\ UNCHANGED <<sessionFile, callVars, lock, deferred, prepare, modules, taskVars, shared,
                 default, ready, broken, changes, overtaken, aborted>>

-----------------------------------------------------------------------------
(* startModule, called by the session loader and by onModuleStartNext *)

canStart(e) ==
  /\ e \in HasFactory
  /\ e \in Licensable => serial /\ e \in Licensed

\* startModule(e) with the start lock at locked and the deferred list at queue.
\* It starts the preparation, skips to the next module, or defers the entry.
startModule(e, locked, queue) ==
  \/ /\ ~locked
     /\ canStart(e)
     /\ prepare' = {e}
     /\ shared' = TRUE                          \* createCommonModuleParam
     /\ lock' = TRUE
     /\ deferred' = queue
     /\ startNext' = FALSE
  \/ /\ ~locked
     /\ ~canStart(e)
     /\ serial
     /\ lock' = FALSE
     /\ deferred' = queue
     /\ startNext' = TRUE
     /\ UNCHANGED <<prepare, shared>>
  \/ /\ locked \/ (~canStart(e) /\ ~serial)
     /\ lock' = locked
     /\ deferred' = Append(queue, e)
     /\ startNext' = FALSE
     /\ UNCHANGED <<prepare, shared>>

handleFinalModuleLoaded ==
  /\ default' = sessionFile                     \* saveDefaultSession
  /\ shared' = FALSE
  /\ ready' = TRUE

onModuleStartNext ==
  /\ startNext
  /\ ~aborted
  /\ \/ /\ deferred # <<>>
        /\ startModule(Head(deferred), FALSE, Tail(deferred))
        /\ UNCHANGED <<default, ready>>
     \/ /\ deferred = <<>>
        /\ handleFinalModuleLoaded
        /\ lock' = FALSE
        /\ startNext' = FALSE
        /\ UNCHANGED <<deferred, prepare>>
  /\ UNCHANGED <<sessionFile, target, loader, modules, taskVars, serial, broken, changes,
                 overtaken, aborted>>

-----------------------------------------------------------------------------
(* changeSessionFile *)

\* destroyModules: all modules move to the destroy task.
destroyModules ==
  /\ modules' = <<>>
  /\ IF modules # <<>>
     THEN /\ lock' = TRUE
          /\ shutdown' = "connecting"
          /\ dying' = [i \in DOMAIN modules |->
                         [entry |-> modules[i].entry, phase |-> "deactivating"]]
     ELSE UNCHANGED <<lock, shutdown, dying>>

\* A client or the application asks for another session.
changeSessionFile(s) ==
  /\ IdleLoop
  /\ s # sessionFile
  /\ changes < MaxChanges
  /\ changes' = changes + 1
  /\ \/ /\ lock                                 \* loadSession refuses: qFatal
        /\ aborted' = TRUE
        /\ UNCHANGED <<target, loader, lock, modules, shutdown, dying, ready, overtaken>>
     \/ /\ ~lock
        /\ destroyModules
        /\ target' = s
        /\ loader' = Entries[s]
        /\ ready' = FALSE
        /\ overtaken' = (overtaken \/ deferred # <<>>)
        /\ UNCHANGED aborted
  /\ UNCHANGED <<sessionFile, startNext, deferred, prepare, leaked, shared, serial, default,
                 broken>>

\* The session loader's loop: sigModuleInfoParsed for the next entry.
parseModule ==
  /\ loader # <<>>
  /\ ~startNext
  /\ ~aborted
  /\ startModule(Head(loader), lock, deferred)
  /\ loader' = Tail(loader)
  /\ UNCHANGED <<sessionFile, target, modules, taskVars, serial, default, ready, broken,
                 changes, overtaken, aborted>>

\* loadSession returned true.
sessionFileAccepted ==
  /\ target # NoSession
  /\ loader = <<>>
  /\ ~startNext
  /\ ~aborted
  /\ sessionFile' = target
  /\ target' = NoSession
  /\ UNCHANGED <<loader, startNext, lock, deferred, prepare, modules, taskVars, shared, serial,
                 default, ready, broken, changes, overtaken, aborted>>

-----------------------------------------------------------------------------
(* Events *)

\* The prepare task is done, at once or later: createModule and doStartModule,
\* or an error message and nothing else.
prepareFinished(e, ok) ==
  /\ ~aborted
  /\ e \in prepare
  /\ ok \/ e \in Failing
  /\ prepare' = {}
  /\ IF ok
     THEN /\ modules' = Append(modules, [entry |-> e, setUp |-> FALSE,
                                         measures |-> FALSE, restarted |-> FALSE])
          /\ UNCHANGED broken
     ELSE broken' = broken \cup {e} /\ UNCHANGED modules
  /\ UNCHANGED <<sessionFile, callVars, lock, deferred, taskVars, shared, serial, default,
                 ready, changes, overtaken, aborted>>

\* delayedModuleStartNext, with the serial number and the lock as they are then
delayedModuleStartNext(known, locked) == startNext' = (known /\ ~locked)

\* A module's set-up task ran to its end: startMeas, moduleActivated.
moduleActivated ==
  /\ IdleLoop
  /\ \E i \in starting :
       modules' = [modules EXCEPT ![i].setUp = TRUE, ![i].measures = TRUE]
  /\ lock' = FALSE
  /\ delayedModuleStartNext(serial, FALSE)
  /\ UNCHANGED <<sessionFile, target, loader, deferred, prepare, taskVars, shared, serial,
                 default, ready, broken, changes, overtaken, aborted>>

\* sigSerialNumberInitialized of the license system: the status module has read it.
serialNumberInitialized ==
  /\ IdleLoop
  /\ ~serial
  /\ \E i \in DOMAIN modules : modules[i].entry = SerialProvider
  /\ serial' = TRUE
  /\ delayedModuleStartNext(TRUE, lock)
  /\ UNCHANGED <<sessionFile, target, loader, lock, deferred, prepare, modules, taskVars,
                 shared, default, ready, broken, changes, overtaken, aborted>>

\* sigModulesPausedChanged: stopModule or startModule of every module in the list.
\* stopModule on a module being set up does nothing, startModule sets it up again.
setModulesPaused(paused) ==
  /\ IdleLoop
  /\ modules # <<>>
  /\ modules' = [i \in DOMAIN modules |->
                   IF modules[i].setUp
                   THEN [modules[i] EXCEPT !.measures = ~paused]
                   ELSE [modules[i] EXCEPT !.restarted = @ \/ ~paused]]
  /\ UNCHANGED <<sessionFile, callVars, lock, deferred, prepare, taskVars, shared, serial,
                 default, ready, broken, changes, overtaken, aborted>>

-----------------------------------------------------------------------------
(* TaskAllModulesDestroy: connect the DSP server and remove its command lists, *)
(* then deactivate and delete all modules in parallel                          *)

serversHandled(ok) ==
  /\ IdleLoop
  /\ shutdown = "connecting"
  /\ ok \/ ServersMayFail
  /\ IF ok
     THEN /\ shutdown' = "destroying"
          /\ UNCHANGED <<startNext, dying, leaked>>
     ELSE /\ shutdown' = "none"                 \* onFinish(false), onAllModulesDestroyed
          /\ startNext' = TRUE
          /\ leaked' = leaked \cup {dying[i].entry : i \in DOMAIN dying}
          /\ dying' = <<>>
  /\ UNCHANGED <<sessionFile, target, loader, lock, deferred, prepare, modules, shared, serial,
                 default, ready, broken, changes, overtaken, aborted>>

moduleDeactivated ==
  /\ IdleLoop
  /\ shutdown = "destroying"
  /\ \E i \in DOMAIN dying :
       /\ dying[i].phase = "deactivating"
       /\ dying' = [dying EXCEPT ![i].phase = "deleting"]
  /\ UNCHANGED <<sessionFile, callVars, lock, deferred, prepare, modules, shutdown, leaked,
                 shared, serial, default, ready, broken, changes, overtaken, aborted>>

\* A module is gone; with the last one onAllModulesDestroyed.
moduleDestroyed ==
  /\ IdleLoop
  /\ \E i \in DOMAIN dying :
       /\ dying[i].phase = "deleting"
       /\ LET last == \A j \in DOMAIN dying \ {i} : dying[j].phase = "gone" IN
          /\ dying' = IF last THEN <<>> ELSE [dying EXCEPT ![i].phase = "gone"]
          /\ shutdown' = IF last THEN "none" ELSE shutdown
          /\ startNext' = last
  /\ UNCHANGED <<sessionFile, target, loader, lock, deferred, prepare, modules, leaked, shared,
                 serial, default, ready, broken, changes, overtaken, aborted>>

-----------------------------------------------------------------------------
Calls == onModuleStartNext \/ parseModule \/ sessionFileAccepted

Tasks ==
  \/ \E e \in Entry : prepareFinished(e, TRUE)
  \/ moduleActivated
  \/ serversHandled(TRUE)
  \/ moduleDeactivated
  \/ moduleDestroyed

Next ==
  \/ Calls
  \/ Tasks
  \/ serialNumberInitialized
  \/ \E s \in Session : changeSessionFile(s)
  \/ \E e \in Entry : prepareFinished(e, FALSE)
  \/ \E paused \in BOOLEAN : setModulesPaused(paused)
  \/ serversHandled(FALSE)

Spec == Init /\ [][Next]_vars

\* Calls return, tasks end, and the serial number is read some time.
FairSpec ==
  Spec /\ WF_vars(Calls) /\ WF_vars(Tasks) /\ WF_vars(serialNumberInitialized)

-----------------------------------------------------------------------------
(* Properties *)

TypeOK ==
  /\ sessionFile \in Session \cup {NoSession}
  /\ target \in Session \cup {NoSession}
  /\ loader \in Seq(Entry)
  /\ startNext \in BOOLEAN
  /\ lock \in BOOLEAN
  /\ deferred \in Seq(Entry)
  /\ prepare \in SUBSET Entry
  /\ modules \in Seq(Module)
  /\ shutdown \in {"none", "connecting", "destroying"}
  /\ dying \in Seq(Dying)
  /\ leaked \in SUBSET Entry
  /\ shared \in BOOLEAN
  /\ serial \in BOOLEAN
  /\ default \in Session
  /\ ready \in BOOLEAN
  /\ broken \in SUBSET Entry
  /\ changes \in 0..MaxChanges
  /\ overtaken \in BOOLEAN
  /\ aborted \in BOOLEAN

\* Modules of the session before that still exist
undead == {dying[i].entry : i \in {j \in DOMAIN dying : dying[j].phase # "gone"}} \cup leaked

\* "do not allow starting until all modules are shut down" (startModule): while
\* a module of the session before exists, none is prepared, set up or running.
StartOnlyAfterShutdown ==
  prepare # {} \/ modules # <<>> => undead = {}

\* Modules come up one by one and all of them do: whatever is asked for meanwhile, at most
\* one is between startModule and moduleActivated, and the start lock is held for it; a lock
\* that is held has an owner that will release it, a module on its way up or the destroy
\* task, and only a failed start leaves it held for ever; when it is free and the serial
\* number is known, no module is left in m_deferredStartList, and the session has been
\* announced and saved as the default (m_moduleStartLock, delayedModuleStartNext; every
\* way out of startModule and onModuleStartNext).
LockHasOwner ==
  /\ Cardinality(prepare) + Cardinality(starting) <= 1
  /\ prepare # {} \/ starting # {} => lock
  /\ IdleLoop /\ lock => \/ prepare # {} \/ starting # {}
                         \/ shutdown # "none"
                         \/ broken # {}
  /\ IdleLoop /\ ~lock /\ serial /\ sessionFile # NoSession =>
       deferred = <<>> /\ ready /\ default = sessionFile

\* What can run in a session once the serial number is known
wanted(s) == {e \in ToSet(Entries[s]) : e \in HasFactory /\ (e \in Licensable => e \in Licensed)}

\* Entries of the modules that are set up
running == {modules[i].entry : i \in fullySetUp}

\* The session modules are started for: the one being loaded or the one loaded
current == IF target # NoSession THEN target ELSE sessionFile

\* Modules are started in the order of the session file, also those that had to wait for the
\* serial number or the start lock (startModule, onModuleStartNext); unless the session was
\* changed while entries waited: they are started in the next one.
SessionOrder ==
  overtaken \/ \A i, j \in DOMAIN modules :
    i < j => \E k, l \in DOMAIN Entries[current] :
               /\ k < l
               /\ Entries[current][k] = modules[i].entry
               /\ Entries[current][l] = modules[j].entry

\* startModule asserts "!m_currModulePrepareTask": no preparation is started
\* while another one is under way, whoever asks for the next module.
AssertNoPrepareTask ==
  [][ prepare' \subseteq prepare \/ prepare = {} ]_vars

\* A session change that was accepted ends with the session announced, unless
\* a module fails to start (or another session was asked for meanwhile: that ends the
\* program or, while entries wait, may leave all of them waiting).
SessionGetsLoaded ==
  \A s \in Session : target = s ~> ready \/ broken # {} \/ aborted \/ overtaken

\* "Cannot switch sessions while session change already is in progress"
\* (loadSession): a session change is accepted only when all modules of the
\* session before have been started.
NoSwitchWhileLoading ==
  [][ target = NoSession /\ target' # NoSession => deferred = <<>> ]_vars

\* A session change is what SessionSwitch promises: all modules of the old session
\* are gone before the first one of the new session is set up, and the session
\* is announced with all its modules running, never before
\* (destroyModules, onAllModulesDestroyed, handleFinalModuleLoaded).  Not claimed once the
\* destroy task has failed or waiting entries were overtaken by a change.
Switching ==
  INSTANCE SessionSwitch WITH
    session <- current,
    old <- undead,
    running <- running,
    announced <- ready,
    Wanted <- [s \in Session |-> wanted(s)]
Disturbed == leaked # {} \/ overtaken
ImplementsSessionSwitch ==
  Switching!Init /\ [][Switching!Next \/ Disturbed']_(Switching!switchVars)
=============================================================================
