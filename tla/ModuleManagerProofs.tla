------------------------ MODULE ModuleManagerProofs ------------------------
(***************************************************************************)
(* What holds of ModuleManager for any session files, plugins, licenses    *)
(* and any number of session changes, checked by TLAPS.                    *)
(***************************************************************************)
EXTENDS ModuleManager, SequenceTheorems, FiniteSetTheorems, TLAPS

\* One module is on its way up at most, and the start lock is held for it.
OneAtATime ==
  /\ \A e, f \in prepare : e = f
  /\ \A i, j \in starting : i = j
  /\ prepare = {} \/ starting = {}
  /\ prepare # {} \/ starting # {} => lock

\* A lock that is held will be released, by a module on its way up or by the destroy
\* task, unless a start failed.
LockOwned ==
  ~startNext /\ lock => \/ prepare # {} \/ starting # {}
                        \/ shutdown # "none"
                        \/ broken # {}

\* Calls are due one at a time.  The first entry of a file can always be started, so that
\* the lock is taken before the loader goes on to the second one.
CallsInTurn ==
  /\ startNext => /\ target = NoSession
                  /\ prepare = {}
                  /\ starting = {}
  /\ target # NoSession => lock \/ loader = Entries[target]
  /\ target = NoSession => loader = <<>>

\* Until the first session change nothing happens.
NothingYet ==
  current = NoSession => /\ modules = <<>>
                         /\ deferred = <<>>
                         /\ prepare = {}
                         /\ ~lock
                         /\ ~startNext

\* While the destroy task runs nothing is started; a failed start stops everything.
NothingMeanwhile ==
  /\ shutdown = "none" <=> dying = <<>>
  /\ shutdown # "none" => modules = <<>> /\ prepare = {} /\ lock /\ ~startNext
  /\ broken # {} => /\ lock
                    /\ prepare = {}
                    /\ starting = {}
                    /\ shutdown = "none"
                    /\ ~startNext

\* With the lock free and the serial number known all modules have been started.
AllStarted ==
  target = NoSession /\ ~startNext /\ ~lock /\ serial /\ sessionFile # NoSession =>
    deferred = <<>> /\ ready /\ default = sessionFile

\* The session file modules are started from, and the number of its entries
\* that have left the loader and the deferred list
file == Entries[current]
handled == Len(file) - (Len(deferred) + Len(loader))

CanRun(e) == e \in HasFactory /\ (e \in Licensable => e \in Licensed)

\* The entries that wait are the end of the session file, in its order.
WaitingInOrder ==
  /\ handled \in Nat
  /\ \A i \in DOMAIN deferred : deferred[i] = file[handled + i]
  /\ \A i \in DOMAIN loader : loader[i] = file[handled + Len(deferred) + i]

\* The modules are those of the entries before them that can run, in the order of the file.
StartedInOrder ==
  /\ \A i \in DOMAIN modules : \E p \in 1 .. handled : file[p] = modules[i].entry
  /\ \A i, j \in DOMAIN modules : i < j =>
       \A p, q \in DOMAIN file :
         file[p] = modules[i].entry /\ file[q] = modules[j].entry => p < q
  /\ \A e \in prepare : \E p \in 1 .. handled :
       /\ file[p] = e
       /\ \A i \in DOMAIN modules, q \in DOMAIN file : file[q] = modules[i].entry => q < p
  /\ \A p \in 1 .. handled : CanRun(file[p]) =>
       \/ file[p] \in prepare \cup broken
       \/ \E i \in DOMAIN modules : modules[i].entry = file[p]

\* onModuleStartNext puts an entry it cannot start yet to the end of the list.  It
\* never has to, for it is called without the serial number after a shutdown only,
\* when the first entry is still to be started.
FirstEntryNext ==
  /\ shutdown # "none" => handled = 0
  /\ startNext /\ ~serial => handled = 0

InOrder ==
  ~overtaken /\ current # NoSession => WaitingInOrder /\ StartedInOrder /\ FirstEntryNext

\* What is started can run, and no module is destroyed twice.
ProperModules ==
  /\ \A e \in prepare : CanRun(e)
  /\ \A i \in DOMAIN modules : CanRun(modules[i].entry)
  /\ ~overtaken => \A i, j \in DOMAIN dying : dying[i].entry = dying[j].entry => i = j

\* The inductive invariant: that the lock has an owner (LockHasOwner) rests on whose turn
\* it is, and the order of the modules (SessionOrder) on the order of what still waits.
IInv ==
  /\ TypeOK
  /\ OneAtATime
  /\ LockOwned
  /\ CallsInTurn
  /\ NothingYet
  /\ NothingMeanwhile
  /\ AllStarted
  /\ InOrder
  /\ ProperModules

-----------------------------------------------------------------------------
(* Sequences *)

LEMMA HeadAndTail ==
  ASSUME NEW S, NEW s \in Seq(S), s # <<>>
  PROVE  /\ Len(s) \in Nat \ {0}
         /\ DOMAIN s = 1 .. Len(s)
         /\ Head(s) \in S
         /\ Head(s) = s[1]
         /\ Tail(s) \in Seq(S)
         /\ Len(Tail(s)) = Len(s) - 1
         /\ DOMAIN Tail(s) = 1 .. Len(s) - 1
         /\ \A i \in 1 .. Len(s) - 1 : Tail(s)[i] = s[i + 1]
  BY EmptySeq, LenProperties, HeadTailProperties

LEMMA Appended ==
  ASSUME NEW S, NEW s \in Seq(S), NEW e \in S
  PROVE  /\ Append(s, e) \in Seq(S)
         /\ Len(Append(s, e)) = Len(s) + 1
         /\ Len(s) \in Nat
         /\ DOMAIN s = 1 .. Len(s)
         /\ DOMAIN Append(s, e) = 1 .. Len(s) + 1
         /\ \A i \in 1 .. Len(s) : Append(s, e)[i] = s[i]
         /\ Append(s, e)[Len(s) + 1] = e
  BY AppendProperties, LenProperties

LEMMA NoElement ==
  ASSUME NEW S, NEW s \in Seq(S)
  PROVE  /\ Len(s) \in Nat
         /\ DOMAIN s = 1 .. Len(s)
         /\ s = <<>> <=> Len(s) = 0
  BY EmptySeq, LenProperties

\* A function on the first numbers is a sequence.
LEMMA SequenceOf ==
  ASSUME NEW S, NEW n \in Nat, NEW f, f = [i \in 1 .. n |-> f[i]],
         \A i \in 1 .. n : f[i] \in S
  PROVE  f \in Seq(S)
  OBVIOUS

\* Session files: what SessionFileAssumption says position by position.
LEMMA SessionFiles ==
  ASSUME NEW s \in Session
  PROVE  /\ Entries[s] \in Seq(Entry)
         /\ Len(Entries[s]) \in Nat \ {0}
         /\ DOMAIN Entries[s] = 1 .. Len(Entries[s])
         /\ Entries[s][1] \in HasFactory \ Licensable
         /\ Head(Entries[s]) = Entries[s][1]
         /\ \A p, q \in 1 .. Len(Entries[s]) : Entries[s][p] = Entries[s][q] => p = q
<1>1. Entries[s] \in Seq(Entry) /\ Entries[s] # <<>>
  BY ManagerAssumption, SessionFileAssumption
<1> QED
  BY <1>1, HeadAndTail, SessionFileAssumption DEF IsInjective

-----------------------------------------------------------------------------
(* The initial state and the steps *)

LEMMA IInvInit == Init => IInv
<1> SUFFICES ASSUME Init
             PROVE  IInv
  OBVIOUS
<1> USE DEF Init
<1>1. /\ <<>> \in Seq(Entry)
      /\ <<>> \in Seq(Module)
      /\ <<>> \in Seq(Dying)
      /\ DOMAIN <<>> = {}
  BY EmptySeq, LenProperties
<1>2. TypeOK
  <2>1. serial \in BOOLEAN /\ changes \in 0 .. MaxChanges
    BY ManagerAssumption
  <2> QED
    BY <1>1, <2>1 DEF TypeOK
<1>3. starting = {}
  BY <1>1 DEF starting
<1>4. current = NoSession
  BY DEF current
<1> QED
  BY <1>1, <1>2, <1>3, <1>4
     DEF IInv, OneAtATime, LockOwned, CallsInTurn, NothingYet, NothingMeanwhile, AllStarted,
         InOrder, ProperModules

\* The session file and how far it has been worked off do not change.
LEMMA SameFile ==
  ASSUME UNCHANGED <<sessionFile, target, loader, deferred>>
  PROVE  current' = current /\ file' = file /\ handled' = handled
  BY DEF current, file, handled

LEMMA TypeOfCurrent ==
  ASSUME TypeOK
  PROVE  current \in Session \cup {NoSession}
  BY DEF TypeOK, current

LEMMA ModulesAreModules ==
  ASSUME TypeOK
  PROVE  /\ modules \in Seq(Module)
         /\ Len(modules) \in Nat
         /\ DOMAIN modules = 1 .. Len(modules)
         /\ modules = <<>> <=> Len(modules) = 0
         /\ \A i \in DOMAIN modules : /\ modules[i] \in Module
                                      /\ modules[i].entry \in Entry
                                      /\ modules[i].setUp \in BOOLEAN
<1>1. modules \in Seq(Module)
  BY DEF TypeOK
<1>2. \A i \in DOMAIN modules : modules[i] \in Module
  BY <1>1, LenProperties, ElementOfSeq
<1> QED
  BY <1>1, <1>2, NoElement DEF Module

LEMMA DyingModules ==
  ASSUME TypeOK
  PROVE  /\ dying \in Seq(Dying)
         /\ Len(dying) \in Nat
         /\ DOMAIN dying = 1 .. Len(dying)
         /\ \A i \in DOMAIN dying : dying[i] \in Dying /\ dying[i].entry \in Entry
<1>1. dying \in Seq(Dying)
  BY DEF TypeOK
<1>2. \A i \in DOMAIN dying : dying[i] \in Dying
  BY <1>1, LenProperties, ElementOfSeq
<1> QED
  BY <1>1, <1>2, LenProperties DEF Dying

\* A module of the destroy task gets on.
LEMMA DyingPhase ==
  ASSUME TypeOK, NEW i \in DOMAIN dying, NEW ph \in {"deactivating", "deleting", "gone"},
         dying' = [dying EXCEPT ![i].phase = ph]
  PROVE  /\ dying' \in Seq(Dying)
         /\ DOMAIN dying' = DOMAIN dying
         /\ \A j \in DOMAIN dying : /\ dying'[j].entry = dying[j].entry
                                    /\ dying'[j].phase = IF j = i THEN ph ELSE dying[j].phase
<1> DEFINE d == [dying[i] EXCEPT !.phase = ph]
<1>1. d \in Dying /\ d.entry = dying[i].entry /\ d.phase = ph
  BY DyingModules DEF Dying
<1>2. dying' = [dying EXCEPT ![i] = d]
  OBVIOUS
<1> HIDE DEF d
<1>3. /\ dying' \in Seq(Dying)
      /\ DOMAIN dying' = DOMAIN dying
      /\ \A j \in DOMAIN dying : dying'[j] = IF j = i THEN d ELSE dying[j]
  BY <1>1, <1>2, DyingModules, ExceptSeq, LenProperties
<1> QED
  BY <1>1, <1>3

\* The modules in the list do not change, only what is known of their set-up.
LEMMA SameModules ==
  ASSUME IInv,
         UNCHANGED <<sessionFile, target, loader, deferred, prepare, broken, overtaken>>,
         DOMAIN modules' = DOMAIN modules,
         \A i \in DOMAIN modules : modules'[i].entry = modules[i].entry,
         shutdown' = shutdown,
         startNext' /\ ~serial' => (startNext /\ ~serial) \/ handled = 0
  PROVE  InOrder'
<1>1. current' = current /\ file' = file /\ handled' = handled
  BY SameFile
<1>2. CASE overtaken \/ current = NoSession
  BY <1>1, <1>2 DEF InOrder
<1>3. CASE ~overtaken /\ current # NoSession
  <2>1. WaitingInOrder /\ StartedInOrder /\ FirstEntryNext
    BY <1>3 DEF IInv, InOrder
  <2>2. WaitingInOrder'
    BY <1>1, <2>1 DEF WaitingInOrder
  <2>3. StartedInOrder'
    BY <1>1, <2>1 DEF StartedInOrder
  <2>4. FirstEntryNext'
    BY <1>1, <2>1 DEF FirstEntryNext
  <2> QED
    BY <2>2, <2>3, <2>4 DEF InOrder
<1> QED
  BY <1>2, <1>3

\* startModule keeps the types of what it changes.
LEMMA StartModuleType ==
  ASSUME TypeOK, NEW e \in Entry, NEW locked \in BOOLEAN, NEW queue \in Seq(Entry),
         startModule(e, locked, queue)
  PROVE  /\ prepare' \in SUBSET Entry
         /\ shared' \in BOOLEAN
         /\ lock' \in BOOLEAN
         /\ deferred' \in Seq(Entry)
         /\ startNext' \in BOOLEAN
<1>1. Append(queue, e) \in Seq(Entry)
  BY AppendProperties
<1> QED
  BY <1>1 DEF startModule, TypeOK

LEMMA CurrentFile ==
  ASSUME IInv, current # NoSession
  PROVE  /\ current \in Session
         /\ file \in Seq(Entry)
         /\ Len(file) \in Nat \ {0}
         /\ DOMAIN file = 1 .. Len(file)
         /\ file[1] \in HasFactory \ Licensable
         /\ \A p, q \in 1 .. Len(file) : file[p] = file[q] => p = q
         /\ Len(deferred) \in Nat
         /\ DOMAIN deferred = 1 .. Len(deferred)
         /\ Len(loader) \in Nat
         /\ DOMAIN loader = 1 .. Len(loader)
         /\ handled = Len(file) - (Len(deferred) + Len(loader))
<1>1. current \in Session
  BY TypeOfCurrent DEF IInv
<1> QED
  BY <1>1, SessionFiles, LenProperties DEF IInv, TypeOK, file, handled

\* The next entry of the session file is started while no other one is on its way up, or
\* skipped for it cannot run: what is started stays in order.
LEMMA NextInOrder ==
  ASSUME IInv, ~overtaken, current # NoSession, prepare = {},
         file' = file, handled' = handled + 1, handled < Len(file),
         UNCHANGED <<modules, broken>>,
         \/ prepare' = {file[handled + 1]}
         \/ prepare' = {} /\ ~CanRun(file[handled + 1])
  PROVE  StartedInOrder'
<1>1. WaitingInOrder /\ StartedInOrder
  BY DEF IInv, InOrder
<1>2. handled \in Nat
  BY <1>1 DEF WaitingInOrder
<1>3. /\ Len(file) \in Nat
      /\ DOMAIN file = 1 .. Len(file)
      /\ \A p, q \in 1 .. Len(file) : file[p] = file[q] => p = q
  BY CurrentFile
<1>4. \A p \in 1 .. handled + 1 : p \in 1 .. handled \/ p = handled + 1
  BY <1>2
<1>5. \A p \in 1 .. handled : p \in 1 .. handled + 1
  BY <1>2
<1>6. \A i \in DOMAIN modules, q \in DOMAIN file :
        file[q] = modules[i].entry => q < handled + 1
  <2> SUFFICES ASSUME NEW i \in DOMAIN modules, NEW q \in DOMAIN file,
                      file[q] = modules[i].entry
               PROVE  q < handled + 1
    OBVIOUS
  <2>1. PICK p \in 1 .. handled : file[p] = modules[i].entry
    BY <1>1 DEF StartedInOrder
  <2>2. p = q
    BY <2>1, <1>2, <1>3
  <2> QED
    BY <2>2, <1>2
<1>7. \A i \in DOMAIN modules : \E p \in 1 .. handled + 1 : file[p] = modules[i].entry
  BY <1>1, <1>5 DEF StartedInOrder
<1>8. \A e \in prepare' : /\ handled + 1 \in 1 .. handled + 1
                          /\ file[handled + 1] = e
  BY <1>2
<1>9. \A p \in 1 .. handled + 1 : CanRun(file[p]) =>
        \/ file[p] \in prepare' \cup broken
        \/ \E i \in DOMAIN modules : modules[i].entry = file[p]
  <2> SUFFICES ASSUME NEW p \in 1 .. handled + 1, CanRun(file[p])
               PROVE  \/ file[p] \in prepare' \cup broken
                      \/ \E i \in DOMAIN modules : modules[i].entry = file[p]
    OBVIOUS
  <2>1. CASE p \in 1 .. handled
    BY <2>1, <1>1 DEF StartedInOrder
  <2>2. CASE p = handled + 1
    BY <2>2
  <2> QED
    BY <2>1, <2>2, <1>4
<1> QED
  BY <1>1, <1>6, <1>7, <1>8, <1>9 DEF StartedInOrder

LEMMA ModuleActivatedInv ==
  ASSUME IInv, moduleActivated
  PROVE  IInv'
<1>1. PICK i \in starting :
        modules' = [modules EXCEPT ![i].setUp = TRUE, ![i].measures = TRUE]
  BY DEF moduleActivated
<1>2. /\ modules \in Seq(Module)
      /\ DOMAIN modules = 1 .. Len(modules)
      /\ i \in 1 .. Len(modules)
      /\ modules[i] \in Module
  BY ModulesAreModules DEF IInv, starting
<1>3. /\ modules' \in Seq(Module)
      /\ DOMAIN modules' = DOMAIN modules
      /\ \A j \in DOMAIN modules : modules'[j].entry = modules[j].entry
      /\ \A j \in DOMAIN modules : modules'[j].setUp = (modules[j].setUp \/ j = i)
  <2> DEFINE m == [modules[i] EXCEPT !.setUp = TRUE, !.measures = TRUE]
  <2>1. /\ m \in Module
        /\ m.entry = modules[i].entry
        /\ m.setUp = TRUE
    BY <1>2 DEF Module
  <2>2. modules' = [modules EXCEPT ![i] = m]
    BY <1>1, <1>2
  <2>3. \A j \in DOMAIN modules : modules[j].setUp \in BOOLEAN
    BY ModulesAreModules DEF IInv
  <2> HIDE DEF m
  <2>4. /\ modules' \in Seq(Module)
        /\ DOMAIN modules' = DOMAIN modules
        /\ \A j \in DOMAIN modules : modules'[j] = IF j = i THEN m ELSE modules[j]
    BY <2>1, <2>2, <1>2, ExceptSeq, LenProperties
  <2> QED
    BY <2>1, <2>3, <2>4
<1>4. starting = {i} /\ prepare = {} /\ shutdown = "none" /\ starting' = {}
  BY <1>1, <1>2, <1>3 DEF IInv, OneAtATime, NothingMeanwhile, starting
<1>5. TypeOK'
  BY <1>3 DEF moduleActivated, IInv, TypeOK, taskVars, delayedModuleStartNext
<1>6. InOrder'
  BY <1>3, SameModules DEF moduleActivated, taskVars, delayedModuleStartNext, IInv, TypeOK
<1>7. ProperModules'
  BY <1>3 DEF moduleActivated, taskVars, IInv, ProperModules
<1>8. current' = current
  BY DEF moduleActivated, current
<1> QED
  BY <1>2, <1>3, <1>4, <1>5, <1>6, <1>7, <1>8
     DEF moduleActivated, taskVars, delayedModuleStartNext, IdleLoop, IInv, TypeOK, OneAtATime,
         LockOwned, CallsInTurn, NothingYet, NothingMeanwhile, AllStarted

LEMMA SerialNumberInitializedInv ==
  ASSUME IInv, serialNumberInitialized
  PROVE  IInv'
<1> USE DEF serialNumberInitialized, taskVars, delayedModuleStartNext
<1>1. starting' = starting /\ current' = current
  BY DEF starting, current
<1>2. modules # <<>>
  BY NoElement DEF IInv, TypeOK
<1>3. ~lock => prepare = {} /\ starting = {} /\ shutdown = "none"
  BY DEF IInv, OneAtATime, NothingMeanwhile
<1>4. TypeOK'
  BY DEF IInv, TypeOK
<1>5. InOrder'
  BY SameModules
<1> QED
  BY <1>1, <1>2, <1>3, <1>4, <1>5
     DEF IdleLoop, IInv, TypeOK, OneAtATime, LockOwned, CallsInTurn, NothingYet,
         NothingMeanwhile, AllStarted, ProperModules

LEMMA SetModulesPausedInv ==
  ASSUME IInv, NEW paused \in BOOLEAN, setModulesPaused(paused)
  PROVE  IInv'
<1>1. /\ modules \in Seq(Module)
      /\ DOMAIN modules = 1 .. Len(modules)
      /\ Len(modules) \in Nat
      /\ \A i \in DOMAIN modules : modules[i] \in Module
  BY ModulesAreModules DEF IInv
<1>2. /\ DOMAIN modules' = DOMAIN modules
      /\ \A i \in DOMAIN modules :
           /\ modules'[i] \in Module
           /\ modules'[i].entry = modules[i].entry
           /\ modules'[i].setUp = modules[i].setUp
  BY <1>1 DEF setModulesPaused, Module
<1>3. modules' \in Seq(Module)
  BY <1>1, <1>2, SequenceOf DEF setModulesPaused
<1>4. starting' = starting /\ current' = current
  BY <1>2 DEF starting, current, setModulesPaused, callVars
<1>5. modules' # <<>> /\ modules # <<>>
  BY <1>1, <1>2, <1>3, NoElement DEF setModulesPaused
<1>6. InOrder'
  BY <1>2, SameModules DEF setModulesPaused, callVars, taskVars
<1>7. TypeOK'
  BY <1>3 DEF setModulesPaused, callVars, taskVars, IInv, TypeOK
<1>8. ProperModules'
  BY <1>2 DEF setModulesPaused, taskVars, IInv, ProperModules
<1> QED
  BY <1>4, <1>5, <1>6, <1>7, <1>8
     DEF setModulesPaused, callVars, taskVars, IdleLoop, IInv, TypeOK, OneAtATime, LockOwned,
         CallsInTurn, NothingYet, NothingMeanwhile, AllStarted

LEMMA PrepareFinishedInv ==
  ASSUME IInv, NEW e \in Entry, NEW ok \in BOOLEAN, prepareFinished(e, ok)
  PROVE  IInv'
<1> DEFINE m == [entry |-> e, setUp |-> FALSE, measures |-> FALSE, restarted |-> FALSE]
<1>1. /\ prepare = {e} /\ starting = {} /\ lock /\ prepare' = {}
      /\ ~startNext /\ shutdown = "none" /\ broken = {}
  BY DEF prepareFinished, IInv, OneAtATime, CallsInTurn, NothingMeanwhile
<1>2. /\ current' = current /\ file' = file /\ handled' = handled
      /\ UNCHANGED <<sessionFile, target, loader, startNext, lock, deferred, shutdown, dying,
                     leaked, shared, serial, default, ready, changes, overtaken, aborted>>
  BY SameFile DEF prepareFinished, callVars, taskVars
<1>3. current # NoSession
  BY <1>1 DEF IInv, NothingYet
<1>4. CASE ~ok
  <2>1. modules' = modules /\ broken' = {e}
    BY <1>1, <1>4 DEF prepareFinished
  <2>2. starting' = {}
    BY <1>1, <2>1 DEF starting
  <2>3. StartedInOrder /\ ~overtaken => StartedInOrder'
    BY <1>1, <1>2, <2>1 DEF StartedInOrder
  <2>4. InOrder'
    BY <1>2, <1>3, <2>3 DEF IInv, InOrder, WaitingInOrder, FirstEntryNext
  <2>5. TypeOK'
    BY <1>1, <1>2, <2>1 DEF IInv, TypeOK
  <2> QED
    BY <1>1, <1>2, <1>3, <2>1, <2>2, <2>4, <2>5
       DEF IInv, OneAtATime, LockOwned, CallsInTurn, NothingYet, NothingMeanwhile, AllStarted,
           ProperModules
<1>5. CASE ok
  <2> DEFINE n == Len(modules) + 1
  <2>1. /\ modules' = Append(modules, m)
        /\ broken' = {}
        /\ m \in Module /\ m.entry = e /\ m.setUp = FALSE
    BY <1>1, <1>5 DEF prepareFinished, Module
  <2> HIDE DEF m
  <2>2. /\ modules' \in Seq(Module)
        /\ DOMAIN modules = 1 .. Len(modules)
        /\ DOMAIN modules' = 1 .. n
        /\ Len(modules) \in Nat
        /\ \A i \in DOMAIN modules : modules'[i] = modules[i]
        /\ modules'[n] = m
    BY <2>1, ModulesAreModules, Appended DEF IInv
  <2>3. starting' = {n}
    BY <1>1, <2>1, <2>2 DEF starting
  <2>4. ASSUME ~overtaken
        PROVE  StartedInOrder'
    <3>1. StartedInOrder
      BY <1>3, <2>4 DEF IInv, InOrder
    <3>2. PICK p \in 1 .. handled :
            /\ file[p] = e
            /\ \A i \in DOMAIN modules, q \in DOMAIN file : file[q] = modules[i].entry => q < p
      BY <1>1, <3>1 DEF StartedInOrder
    <3>3. /\ handled \in Nat
          /\ \A q \in DOMAIN file : file[q] = e => q = p
          /\ p \in DOMAIN file
      <4>1. current \in Session
        BY <1>3, TypeOfCurrent DEF IInv
      <4>2. handled \in Nat
        BY <1>3, <2>4 DEF IInv, InOrder, WaitingInOrder
      <4>3. Len(deferred) \in Nat /\ Len(loader) \in Nat
        BY LenProperties DEF IInv, TypeOK
      <4>4. handled <= Len(file)
        BY <4>1, <4>2, <4>3, SessionFiles DEF handled, file
      <4> QED
        BY <4>1, <4>2, <4>4, <3>2, SessionFiles DEF file
    <3>4. \A i \in DOMAIN modules' : \E q \in 1 .. handled : file[q] = modules'[i].entry
      BY <2>1, <2>2, <3>1, <3>2 DEF StartedInOrder
    <3>5. \A i, j \in DOMAIN modules' : i < j =>
            \A q, r \in DOMAIN file :
              file[q] = modules'[i].entry /\ file[r] = modules'[j].entry => q < r
      <4> SUFFICES ASSUME NEW i \in 1 .. n, NEW j \in 1 .. n, i < j,
                          NEW q \in DOMAIN file, NEW r \in DOMAIN file,
                          file[q] = modules'[i].entry, file[r] = modules'[j].entry
                   PROVE  q < r
        BY <2>2
      <4>1. i \in DOMAIN modules
        BY <2>2
      <4>2. CASE j = n
        BY <4>1, <4>2, <2>1, <2>2, <3>2, <3>3
      <4>3. CASE j # n
        <5>1. j \in DOMAIN modules
          BY <4>3, <2>2
        <5> QED
          BY <5>1, <4>1, <2>2, <3>1 DEF StartedInOrder
      <4> QED
        BY <4>2, <4>3
    <3>6. \A q \in 1 .. handled : CanRun(file[q]) =>
            \E i \in DOMAIN modules' : modules'[i].entry = file[q]
      <4> SUFFICES ASSUME NEW q \in 1 .. handled, CanRun(file[q])
                   PROVE  \E i \in 1 .. n : modules'[i].entry = file[q]
        BY <2>2
      <4>1. CASE file[q] = e
        BY <4>1, <2>1, <2>2
      <4>2. CASE file[q] # e
        <5>1. PICK i \in DOMAIN modules : modules[i].entry = file[q]
          BY <4>2, <1>1, <3>1 DEF StartedInOrder
        <5> QED
          BY <5>1, <2>2
      <4> QED
        BY <4>1, <4>2
    <3> QED
      BY <1>1, <1>2, <3>4, <3>5, <3>6 DEF StartedInOrder
  <2>5. InOrder'
    BY <1>2, <1>3, <2>4 DEF IInv, InOrder, WaitingInOrder, FirstEntryNext
  <2>6. TypeOK'
    BY <1>1, <1>2, <2>1, <2>2 DEF IInv, TypeOK
  <2>7. ProperModules'
    <3>1. CanRun(e)
      BY <1>1 DEF IInv, ProperModules
    <3>2. \A i \in DOMAIN modules' : CanRun(modules'[i].entry)
      BY <3>1, <2>1, <2>2 DEF IInv, ProperModules
    <3> QED
      BY <1>1, <1>2, <3>2 DEF IInv, ProperModules
  <2> QED
    BY <1>1, <1>2, <1>3, <2>1, <2>3, <2>5, <2>6, <2>7
       DEF IInv, OneAtATime, LockOwned, CallsInTurn, NothingYet, NothingMeanwhile, AllStarted
<1> QED
  BY <1>4, <1>5

LEMMA ServersHandledInv ==
  ASSUME IInv, NEW ok \in BOOLEAN, serversHandled(ok)
  PROVE  IInv'
<1>1. /\ target = NoSession /\ shutdown = "connecting" /\ modules = <<>> /\ prepare = {}
      /\ lock /\ broken = {} /\ dying # <<>> /\ ~startNext
  BY DEF serversHandled, IdleLoop, IInv, NothingMeanwhile
<1>2. /\ current' = current /\ file' = file /\ handled' = handled
      /\ starting' = starting /\ starting = {}
      /\ UNCHANGED <<sessionFile, target, loader, lock, deferred, prepare, modules, shared,
                     serial, default, ready, broken, changes, overtaken, aborted>>
  <2>1. DOMAIN modules = {}
    BY <1>1, ModulesAreModules DEF IInv
  <2> QED
    BY <2>1, SameFile DEF serversHandled, starting
<1>3. current # NoSession
  BY <1>1 DEF IInv, NothingYet
<1>4. ~overtaken => handled = 0
  BY <1>1, <1>3 DEF IInv, InOrder, FirstEntryNext
<1>5. InOrder'
  BY <1>2, <1>3, <1>4 DEF IInv, InOrder, WaitingInOrder, StartedInOrder, FirstEntryNext
<1>6. CASE ok
  <2>1. shutdown' = "destroying" /\ UNCHANGED <<startNext, dying, leaked>>
    BY <1>6 DEF serversHandled
  <2> QED
    BY <1>1, <1>2, <1>3, <1>5, <2>1
       DEF IInv, TypeOK, OneAtATime, LockOwned, CallsInTurn, NothingYet, NothingMeanwhile,
           AllStarted, ProperModules
<1>7. CASE ~ok
  <2>1. /\ shutdown' = "none" /\ startNext' = TRUE /\ dying' = <<>>
        /\ leaked' = leaked \cup {dying[i].entry : i \in DOMAIN dying}
    BY <1>7 DEF serversHandled
  <2>2. /\ leaked' \in SUBSET Entry /\ dying' \in Seq(Dying) /\ DOMAIN dying' = {}
    BY <2>1, DyingModules, EmptySeq, LenProperties DEF IInv, TypeOK
  <2> QED
    BY <1>1, <1>2, <1>3, <1>5, <2>1, <2>2
       DEF IInv, TypeOK, OneAtATime, LockOwned, CallsInTurn, NothingYet, NothingMeanwhile,
           AllStarted, ProperModules
<1> QED
  BY <1>6, <1>7

LEMMA ModuleDeactivatedInv ==
  ASSUME IInv, moduleDeactivated
  PROVE  IInv'
<1>1. PICK i \in DOMAIN dying : dying' = [dying EXCEPT ![i].phase = "deleting"]
  BY DEF moduleDeactivated
<1>2. /\ dying' \in Seq(Dying)
      /\ DOMAIN dying' = DOMAIN dying
      /\ \A j \in DOMAIN dying : dying'[j].entry = dying[j].entry
  BY <1>1, DyingPhase DEF IInv
<1>3. /\ current' = current /\ file' = file /\ handled' = handled /\ starting' = starting
  BY SameFile DEF moduleDeactivated, callVars, starting
<1>4. dying # <<>> /\ dying' # <<>>
  BY <1>1, <1>2, NoElement DEF IInv, TypeOK
<1>5. InOrder'
  BY <1>3, SameModules DEF moduleDeactivated, callVars
<1> QED
  BY <1>2, <1>3, <1>4, <1>5
     DEF moduleDeactivated, callVars, IInv, TypeOK, OneAtATime, LockOwned, CallsInTurn,
         NothingYet, NothingMeanwhile, AllStarted, ProperModules

LEMMA ModuleDestroyedInv ==
  ASSUME IInv, moduleDestroyed
  PROVE  IInv'
<1>1. PICK i \in DOMAIN dying :
        LET last == \A j \in DOMAIN dying \ {i} : dying[j].phase = "gone" IN
        /\ dying' = IF last THEN <<>> ELSE [dying EXCEPT ![i].phase = "gone"]
        /\ shutdown' = IF last THEN "none" ELSE shutdown
        /\ startNext' = last
  BY DEF moduleDestroyed
<1>2. /\ target = NoSession /\ ~startNext
      /\ UNCHANGED <<sessionFile, target, loader, lock, deferred, prepare, modules, leaked,
                     shared, serial, default, ready, broken, changes, overtaken, aborted>>
  BY DEF moduleDestroyed, IdleLoop
<1>3. /\ dying # <<>> /\ shutdown # "none" /\ modules = <<>> /\ prepare = {}
      /\ lock /\ broken = {}
  BY <1>1, NoElement DEF IInv, TypeOK, NothingMeanwhile
<1>4. /\ current' = current /\ file' = file /\ handled' = handled
      /\ starting' = starting /\ starting = {}
  <2>1. DOMAIN modules = {}
    BY <1>3, ModulesAreModules DEF IInv
  <2> QED
    BY <2>1, <1>2, SameFile DEF starting
<1>5. current # NoSession
  BY <1>3 DEF IInv, NothingYet
<1>6. ~overtaken => handled = 0
  BY <1>3, <1>5 DEF IInv, InOrder, FirstEntryNext
<1>7. InOrder'
  BY <1>2, <1>4, <1>5, <1>6 DEF IInv, InOrder, WaitingInOrder, StartedInOrder, FirstEntryNext
<1>8. CASE dying' = <<>> /\ shutdown' = "none" /\ startNext' = TRUE
  <2>1. dying' \in Seq(Dying) /\ DOMAIN dying' = {}
    BY <1>8, EmptySeq, LenProperties
  <2> QED
    BY <1>2, <1>3, <1>4, <1>5, <1>7, <1>8, <2>1
       DEF IInv, TypeOK, OneAtATime, LockOwned, CallsInTurn, NothingYet, NothingMeanwhile,
           AllStarted, ProperModules
<1>9. CASE /\ dying' = [dying EXCEPT ![i].phase = "gone"]
           /\ shutdown' = shutdown
           /\ startNext' = FALSE
  <2>1. /\ dying' \in Seq(Dying)
        /\ DOMAIN dying' = DOMAIN dying
        /\ \A j \in DOMAIN dying : dying'[j].entry = dying[j].entry
    BY <1>9, DyingPhase DEF IInv
  <2>2. dying' # <<>>
    BY <1>1, <2>1, NoElement
  <2>3. ProperModules'
    BY <1>2, <2>1 DEF IInv, ProperModules
  <2>4. shutdown' = shutdown /\ startNext' = FALSE
    BY <1>9
  <2> QED
    BY <1>2, <1>3, <1>4, <1>5, <1>7, <2>1, <2>2, <2>3, <2>4
       DEF IInv, TypeOK, OneAtATime, LockOwned, CallsInTurn, NothingYet, NothingMeanwhile,
           AllStarted
<1> QED
  BY <1>1, <1>8, <1>9

LEMMA ChangeSessionFileInv ==
  ASSUME IInv, NEW s \in Session, changeSessionFile(s)
  PROVE  IInv'
<1>1. /\ target = NoSession /\ ~startNext /\ loader = <<>>
      /\ changes' \in 0 .. MaxChanges
  BY ManagerAssumption DEF changeSessionFile, IdleLoop, IInv, CallsInTurn, TypeOK
<1>2. UNCHANGED <<sessionFile, startNext, deferred, prepare, leaked, shared, serial, default,
                  broken>>
  BY DEF changeSessionFile
<1>3. CASE lock
  <2>1. /\ aborted' = TRUE
        /\ UNCHANGED <<target, loader, lock, modules, shutdown, dying, ready, overtaken>>
    BY <1>3 DEF changeSessionFile
  <2>2. starting' = starting /\ current' = current
    BY <1>2, <2>1 DEF starting, current
  <2>3. InOrder'
    BY <1>2, <2>1, SameModules
  <2> QED
    BY <1>1, <1>2, <2>1, <2>2, <2>3
       DEF IInv, TypeOK, OneAtATime, LockOwned, CallsInTurn, NothingYet, NothingMeanwhile,
           AllStarted, ProperModules
<1>4. CASE ~lock
  <2>1. /\ destroyModules
        /\ target' = s
        /\ loader' = Entries[s]
        /\ ready' = FALSE
        /\ overtaken' = (overtaken \/ deferred # <<>>)
        /\ aborted' = aborted
    BY <1>4 DEF changeSessionFile
  <2>2. /\ prepare = {} /\ starting = {} /\ broken = {} /\ shutdown = "none" /\ dying = <<>>
    BY <1>4 DEF IInv, OneAtATime, NothingMeanwhile
  <2>3. s # NoSession /\ target' # NoSession /\ current' = s
    BY <2>1, ManagerAssumption DEF current
  <2>4. /\ Entries[s] \in Seq(Entry)
        /\ Len(Entries[s]) \in Nat
        /\ loader' \in Seq(Entry)
    BY <2>1, SessionFiles
  <2>5. /\ modules' = <<>> /\ modules' \in Seq(Module) /\ DOMAIN modules' = {} /\ starting' = {}
    BY <2>1, EmptySeq, LenProperties DEF destroyModules, starting
  <2>6. /\ dying' \in Seq(Dying)
        /\ shutdown' \in {"none", "connecting"}
        /\ lock' \in BOOLEAN
        /\ shutdown' = "none" <=> dying' = <<>>
        /\ shutdown' # "none" => lock'
        /\ lock' => shutdown' # "none"
        /\ ~overtaken' => \A i, j \in DOMAIN dying' : dying'[i].entry = dying'[j].entry => i = j
    <3>1. CASE modules = <<>>
      <4>1. UNCHANGED <<lock, shutdown, dying>>
        BY <3>1, <2>1 DEF destroyModules
      <4>2. DOMAIN dying = {}
        BY <2>2, EmptySeq, LenProperties
      <4> QED
        BY <4>1, <4>2, <2>2, <1>4 DEF IInv, TypeOK
    <3>2. CASE modules # <<>>
      <4> DEFINE n == Len(modules)
      <4>1. /\ lock' = TRUE
            /\ shutdown' = "connecting"
            /\ dying' = [i \in 1 .. n |-> [entry |-> modules[i].entry, phase |-> "deactivating"]]
            /\ n \in Nat \ {0}
        BY <3>2, <2>1, ModulesAreModules DEF destroyModules, IInv
      <4>2. \A i \in 1 .. n : dying'[i] \in Dying /\ dying'[i].entry = modules[i].entry
        BY <4>1, ModulesAreModules DEF Dying, IInv
      <4>3. DOMAIN dying' = 1 .. n
        BY <4>1
      <4>4. dying' \in Seq(Dying)
        BY <4>1, <4>2, SequenceOf
      <4>5. dying' # <<>>
        BY <4>1, <4>3, <4>4, NoElement
      <4>6. ASSUME ~overtaken', NEW i \in 1 .. n, NEW j \in 1 .. n,
                   dying'[i].entry = dying'[j].entry
            PROVE  i = j
        <5>1. current # NoSession /\ ~overtaken
          BY <3>2, <4>6, <2>1 DEF IInv, NothingYet
        <5>2. StartedInOrder /\ handled \in Nat
          BY <5>1 DEF IInv, InOrder, WaitingInOrder
        <5>3. current \in Session /\ Len(deferred) \in Nat /\ Len(loader) \in Nat
          BY <5>1, TypeOfCurrent, LenProperties DEF IInv, TypeOK
        <5>4. handled <= Len(file) /\ DOMAIN file = 1 .. Len(file) /\ Len(file) \in Nat
          BY <5>2, <5>3, SessionFiles DEF handled, file
        <5>5. PICK p \in 1 .. handled : file[p] = modules[i].entry
          BY <5>2, ModulesAreModules DEF StartedInOrder, IInv
        <5>6. p \in DOMAIN file /\ file[p] = modules[j].entry /\ ~(p < p)
          BY <5>2, <5>4, <5>5, <4>2, <4>6
        <5>7. i \in DOMAIN modules /\ j \in DOMAIN modules
          BY ModulesAreModules DEF IInv
        <5>8. /\ i < j => p < p
              /\ j < i => p < p
          BY <5>2, <5>5, <5>6, <5>7 DEF StartedInOrder
        <5> QED
          BY <5>6, <5>8
      <4> QED
        BY <4>1, <4>3, <4>4, <4>5, <4>6
    <3> QED
      BY <3>1, <3>2
  <2>7. ~overtaken' => WaitingInOrder' /\ StartedInOrder' /\ FirstEntryNext'
    <3> SUFFICES ASSUME ~overtaken'
                 PROVE  WaitingInOrder' /\ StartedInOrder' /\ FirstEntryNext'
      OBVIOUS
    <3>1. deferred' = <<>> /\ DOMAIN deferred' = {} /\ Len(deferred') = 0
      <4>1. deferred = <<>>
        BY <2>1
      <4> QED
        BY <4>1, <1>2, EmptySeq, LenProperties
    <3>2. file' = Entries[s] /\ handled' = 0 /\ 1 .. handled' = {}
      BY <2>1, <2>3, <2>4, <3>1 DEF file, handled
    <3>3. \A i \in DOMAIN loader' : loader'[i] = file'[handled' + Len(deferred') + i]
      BY <2>1, <2>4, <3>1, <3>2, LenProperties
    <3>4. prepare' = {}
      BY <1>2, <2>2
    <3> QED
      BY <2>5, <3>1, <3>2, <3>3, <3>4 DEF WaitingInOrder, StartedInOrder, FirstEntryNext
  <2>8. TypeOK'
    BY <1>1, <1>2, <2>1, <2>3, <2>4, <2>5, <2>6 DEF IInv, TypeOK
  <2>9. InOrder'
    BY <2>7 DEF InOrder
  <2> QED
    BY <1>1, <1>2, <2>1, <2>2, <2>3, <2>5, <2>6, <2>8, <2>9
       DEF IInv, OneAtATime, LockOwned, CallsInTurn, NothingYet, NothingMeanwhile,
           AllStarted, ProperModules
<1> QED
  BY <1>3, <1>4

LEMMA SessionFileAcceptedInv ==
  ASSUME IInv, sessionFileAccepted
  PROVE  IInv'
<1>1. target \in Session /\ target # NoSession /\ Entries[target] # <<>> /\ lock
  BY SessionFileAssumption DEF sessionFileAccepted, IInv, TypeOK, CallsInTurn
<1>2. /\ current = target /\ current' = current /\ file' = file /\ handled' = handled
      /\ starting' = starting
  BY <1>1 DEF sessionFileAccepted, current, file, handled, starting
<1>3. InOrder'
  BY <1>1, <1>2
     DEF sessionFileAccepted, taskVars, IInv, InOrder, WaitingInOrder, StartedInOrder,
         FirstEntryNext
<1> QED
  BY <1>1, <1>2, <1>3
     DEF sessionFileAccepted, taskVars, IInv, TypeOK, OneAtATime, LockOwned, CallsInTurn,
         NothingYet, NothingMeanwhile, AllStarted, ProperModules

LEMMA ParseModuleInv ==
  ASSUME IInv, parseModule
  PROVE  IInv'
<1> DEFINE e == Head(loader)
<1>1. /\ loader # <<>> /\ ~startNext /\ loader \in Seq(Entry) /\ deferred \in Seq(Entry)
      /\ target # NoSession /\ target \in Session
      /\ lock \/ loader = Entries[target]
      /\ lock \in BOOLEAN
  BY DEF parseModule, IInv, TypeOK, CallsInTurn
<1>2. /\ startModule(e, lock, deferred)
      /\ loader' = Tail(loader)
      /\ UNCHANGED <<sessionFile, target, modules, taskVars, serial, default, ready, broken,
                     changes, overtaken, aborted>>
  BY DEF parseModule
<1>3. current' = current /\ file' = file /\ current = target /\ current # NoSession
      /\ starting' = starting
  BY <1>1, <1>2 DEF current, file, starting
<1>4. /\ e \in Entry /\ e = loader[1]
      /\ Len(loader) \in Nat \ {0}
      /\ loader' \in Seq(Entry)
      /\ Len(loader') = Len(loader) - 1
      /\ DOMAIN loader' = 1 .. Len(loader) - 1
      /\ \A i \in 1 .. Len(loader) - 1 : loader'[i] = loader[i + 1]
  BY <1>1, <1>2, HeadAndTail
<1>5. TypeOK'
  BY <1>1, <1>2, <1>4, StartModuleType DEF IInv, TypeOK, taskVars
<1> HIDE DEF e
<1>6. CASE ~lock
  <2>1. loader = file /\ e \in HasFactory \ Licensable
    BY <1>1, <1>3, <1>4, <1>6, CurrentFile DEF file
  <2>2. /\ prepare' = {e} /\ lock' = TRUE /\ deferred' = deferred /\ startNext' = FALSE
        /\ CanRun(e)
    BY <1>2, <1>6, <2>1 DEF startModule, canStart, CanRun
  <2>3. prepare = {} /\ starting = {} /\ shutdown = "none" /\ broken = {}
    BY <1>6 DEF IInv, OneAtATime, NothingMeanwhile
  <2>4. ASSUME ~overtaken
        PROVE  WaitingInOrder' /\ StartedInOrder' /\ FirstEntryNext'
    <3>1. /\ handled = 0 - Len(deferred)
          /\ handled \in Nat
          /\ Len(deferred) \in Nat
      BY <1>3, <2>1, <2>4, CurrentFile DEF IInv, InOrder, WaitingInOrder
    <3>2. Len(deferred) = 0 /\ handled = 0
      BY <3>1
    <3>3. handled' = 1 /\ Len(deferred') = 0 /\ handled < Len(file) /\ DOMAIN deferred = {}
      BY <1>3, <1>4, <2>1, <2>2, <3>2, CurrentFile DEF handled
    <3>4. \A i \in DOMAIN loader' : loader'[i] = file'[handled' + Len(deferred') + i]
      BY <1>3, <1>4, <2>1, <3>3
    <3>5. WaitingInOrder'
      BY <2>2, <3>3, <3>4 DEF WaitingInOrder
    <3>6. StartedInOrder'
      BY <1>2, <1>3, <1>4, <2>1, <2>2, <2>3, <2>4, <3>2, <3>3, NextInOrder
    <3>7. FirstEntryNext'
      BY <1>2, <2>2, <2>3 DEF FirstEntryNext, taskVars
    <3> QED
      BY <3>5, <3>6, <3>7
  <2>5. InOrder'
    BY <1>2, <2>4 DEF InOrder
  <2> QED
    BY <1>1, <1>2, <1>3, <1>5, <2>2, <2>3, <2>5
       DEF taskVars, IInv, OneAtATime, LockOwned, CallsInTurn, NothingYet, NothingMeanwhile,
           AllStarted, ProperModules
<1>7. CASE lock
  <2>1. /\ lock' = TRUE /\ deferred' = Append(deferred, e) /\ startNext' = FALSE
        /\ prepare' = prepare
    BY <1>2, <1>7 DEF startModule
  <2>2. /\ Len(deferred) \in Nat
        /\ DOMAIN deferred = 1 .. Len(deferred)
        /\ Len(deferred') = Len(deferred) + 1
        /\ DOMAIN deferred' = 1 .. Len(deferred) + 1
        /\ \A i \in 1 .. Len(deferred) : deferred'[i] = deferred[i]
        /\ deferred'[Len(deferred) + 1] = e
    BY <1>1, <1>4, <2>1, Appended
  <2>3. handled' = handled
    BY <1>3, <1>4, <2>2, CurrentFile DEF handled
  <2>4. ASSUME ~overtaken
        PROVE  WaitingInOrder' /\ StartedInOrder' /\ FirstEntryNext'
    <3>1. WaitingInOrder /\ StartedInOrder /\ FirstEntryNext /\ handled \in Nat
      BY <1>3, <2>4 DEF IInv, InOrder, WaitingInOrder
    <3>2. e = file[handled + Len(deferred) + 1]
      <4>1. 1 \in DOMAIN loader
        BY <1>1, <1>4, HeadAndTail
      <4> QED
        BY <4>1, <1>4, <3>1 DEF WaitingInOrder
    <3>3. \A i \in DOMAIN deferred' : deferred'[i] = file[handled + i]
      <4> SUFFICES ASSUME NEW i \in 1 .. Len(deferred) + 1
                   PROVE  deferred'[i] = file[handled + i]
        BY <2>2
      <4>1. CASE i \in 1 .. Len(deferred)
        BY <4>1, <2>2, <3>1 DEF WaitingInOrder
      <4>2. CASE i = Len(deferred) + 1
        BY <4>2, <2>2, <3>1, <3>2
      <4> QED
        BY <4>1, <4>2, <2>2
    <3>4. \A i \in DOMAIN loader' : loader'[i] = file[handled + Len(deferred') + i]
      <4> SUFFICES ASSUME NEW i \in 1 .. Len(loader) - 1
                   PROVE  loader[i + 1] = file[handled + (Len(deferred) + 1) + i]
        BY <1>4, <2>2
      <4>1. i + 1 \in DOMAIN loader
        BY <1>1, <1>4, HeadAndTail
      <4>2. handled + (Len(deferred) + 1) + i = handled + Len(deferred) + (i + 1)
        BY <2>2, <3>1
      <4> QED
        BY <4>1, <4>2, <3>1 DEF WaitingInOrder
    <3>5. WaitingInOrder'
      BY <1>3, <2>3, <3>1, <3>3, <3>4 DEF WaitingInOrder
    <3>6. StartedInOrder'
      BY <1>2, <1>3, <2>1, <2>3, <3>1 DEF StartedInOrder
    <3>7. FirstEntryNext'
      BY <1>2, <2>1, <2>3, <3>1 DEF FirstEntryNext, taskVars
    <3> QED
      BY <3>5, <3>6, <3>7
  <2>5. InOrder'
    BY <1>2, <2>4 DEF InOrder
  <2> QED
    BY <1>1, <1>2, <1>3, <1>5, <1>7, <2>1, <2>5
       DEF taskVars, IInv, OneAtATime, LockOwned, CallsInTurn, NothingYet, NothingMeanwhile,
           AllStarted, ProperModules
<1> QED
  BY <1>1, <1>6, <1>7

LEMMA OnModuleStartNextInv ==
  ASSUME IInv, onModuleStartNext
  PROVE  IInv'
<1>1. /\ startNext /\ target = NoSession /\ loader = <<>> /\ prepare = {} /\ starting = {}
      /\ shutdown = "none" /\ dying = <<>> /\ broken = {} /\ deferred \in Seq(Entry)
  BY DEF onModuleStartNext, IInv, TypeOK, CallsInTurn, NothingMeanwhile
<1>2. UNCHANGED <<sessionFile, target, loader, modules, taskVars, serial, broken, changes,
                  overtaken, aborted>>
  BY DEF onModuleStartNext
<1>3. /\ current' = current /\ file' = file /\ current # NoSession /\ current = sessionFile
      /\ sessionFile \in Session /\ starting' = {}
  <2>1. current # NoSession
    BY <1>1 DEF IInv, NothingYet
  <2> QED
    BY <2>1, <1>1, <1>2 DEF current, file, starting, IInv, TypeOK
<1>4. Len(loader) = 0 /\ Len(loader') = 0 /\ DOMAIN loader' = {}
  BY <1>1, <1>2, EmptySeq, LenProperties
<1>5. CASE deferred = <<>>
  <2>1. /\ default' = sessionFile /\ shared' = FALSE /\ ready' = TRUE
        /\ lock' = FALSE /\ startNext' = FALSE
        /\ UNCHANGED <<deferred, prepare>>
    BY <1>5 DEF onModuleStartNext, handleFinalModuleLoaded
  <2>2. TypeOK'
    BY <1>2, <1>3, <2>1 DEF IInv, TypeOK, taskVars
  <2>3. handled' = handled
    BY <1>2, <2>1, SameFile
  <2>4. InOrder'
    BY <1>1, <1>2, <1>3, <2>1, <2>3, SameModules DEF taskVars
  <2> QED
    BY <1>1, <1>2, <1>3, <1>5, <2>1, <2>2, <2>4
       DEF taskVars, IInv, OneAtATime, LockOwned, CallsInTurn, NothingYet, NothingMeanwhile,
           AllStarted, ProperModules
<1>6. CASE deferred # <<>>
  <2> DEFINE e == Head(deferred)
  <2>1. /\ startModule(e, FALSE, Tail(deferred))
        /\ UNCHANGED <<default, ready>>
    BY <1>6 DEF onModuleStartNext
  <2>2. /\ Len(deferred) \in Nat \ {0}
        /\ DOMAIN deferred = 1 .. Len(deferred)
        /\ e \in Entry
        /\ e = deferred[1]
        /\ Tail(deferred) \in Seq(Entry)
        /\ Len(Tail(deferred)) = Len(deferred) - 1
        /\ DOMAIN Tail(deferred) = 1 .. Len(deferred) - 1
        /\ \A i \in 1 .. Len(deferred) - 1 : Tail(deferred)[i] = deferred[i + 1]
    BY <1>1, <1>6, HeadAndTail
  <2>3. TypeOK'
    BY <1>2, <2>1, <2>2, StartModuleType DEF IInv, TypeOK, taskVars
  <2> HIDE DEF e
  <2>4. ASSUME ~overtaken
        PROVE  /\ WaitingInOrder /\ FirstEntryNext /\ handled \in Nat
               /\ e = file[handled + 1]
               /\ handled = Len(file) - Len(deferred)
               /\ handled < Len(file)
    <3>1. WaitingInOrder /\ FirstEntryNext /\ handled \in Nat
      BY <1>3, <2>4 DEF IInv, InOrder, WaitingInOrder
    <3>2. e = file[handled + 1]
      BY <2>2, <3>1 DEF WaitingInOrder
    <3>3. Len(file) \in Nat /\ handled = Len(file) - (Len(deferred) + Len(loader))
      BY <1>3, CurrentFile
    <3> QED
      BY <1>4, <2>2, <3>1, <3>2, <3>3
  <2>5. ASSUME ~overtaken, ~serial
        PROVE  canStart(e)
    <3>1. handled = 0
      BY <1>1, <2>4, <2>5 DEF FirstEntryNext
    <3> QED
      BY <1>3, <2>4, <2>5, <3>1, CurrentFile DEF canStart
  <2>6. ASSUME ~overtaken, deferred' = Tail(deferred), ~startNext' \/ serial,
               \/ prepare' = {e}
               \/ prepare' = {} /\ ~CanRun(e)
        PROVE  WaitingInOrder' /\ StartedInOrder' /\ FirstEntryNext'
    <3>1. handled' = handled + 1
      <4>1. handled' = Len(file) - (Len(deferred) - 1)
        BY <1>3, <1>4, <2>2, <2>6, CurrentFile DEF handled
      <4> QED
        BY <1>3, <2>2, <2>4, <2>6, <4>1, CurrentFile
    <3>2. \A i \in DOMAIN deferred' : deferred'[i] = file[handled + 1 + i]
      <4> SUFFICES ASSUME NEW i \in 1 .. Len(deferred) - 1
                   PROVE  deferred[i + 1] = file[handled + 1 + i]
        BY <2>2, <2>6
      <4>1. i + 1 \in DOMAIN deferred /\ handled + (i + 1) = handled + 1 + i
        BY <2>2, <2>4, <2>6
      <4> QED
        BY <4>1, <2>4, <2>6 DEF WaitingInOrder
    <3>3. WaitingInOrder'
      BY <1>3, <1>4, <2>4, <2>6, <3>1, <3>2 DEF WaitingInOrder
    <3>4. StartedInOrder'
      BY <1>1, <1>2, <1>3, <2>4, <2>6, <3>1, NextInOrder
    <3>5. FirstEntryNext'
      BY <1>1, <1>2, <2>6 DEF FirstEntryNext, taskVars
    <3> QED
      BY <3>3, <3>4, <3>5
  <2>7. CASE canStart(e)
    <3>1. /\ prepare' = {e} /\ lock' = TRUE /\ deferred' = Tail(deferred) /\ startNext' = FALSE
          /\ CanRun(e)
      BY <2>1, <2>7 DEF startModule, canStart, CanRun
    <3>2. InOrder'
      BY <1>2, <2>6, <3>1 DEF InOrder
    <3> QED
      BY <1>1, <1>2, <1>3, <2>3, <3>1, <3>2
         DEF taskVars, IInv, OneAtATime, LockOwned, CallsInTurn, NothingYet, NothingMeanwhile,
             AllStarted, ProperModules
  <2>8. CASE ~canStart(e) /\ serial
    <3>1. /\ lock' = FALSE /\ deferred' = Tail(deferred) /\ startNext' = TRUE
          /\ prepare' = {}
          /\ ~CanRun(e)
      BY <1>1, <2>1, <2>8 DEF startModule, canStart, CanRun
    <3>2. InOrder'
      BY <1>2, <2>6, <2>8, <3>1 DEF InOrder
    <3> QED
      BY <1>1, <1>2, <1>3, <2>3, <3>1, <3>2
         DEF taskVars, IInv, OneAtATime, LockOwned, CallsInTurn, NothingYet, NothingMeanwhile,
             AllStarted, ProperModules
  <2>9. CASE ~canStart(e) /\ ~serial
    <3>1. /\ lock' = FALSE /\ startNext' = FALSE /\ prepare' = {} /\ overtaken
      BY <1>1, <2>1, <2>5, <2>9 DEF startModule
    <3>2. InOrder'
      BY <1>2, <3>1 DEF InOrder
    <3> QED
      BY <1>1, <1>2, <1>3, <2>3, <2>9, <3>1, <3>2
         DEF taskVars, IInv, OneAtATime, LockOwned, CallsInTurn, NothingYet, NothingMeanwhile,
             AllStarted, ProperModules
  <2> QED
    BY <2>7, <2>8, <2>9
<1> QED
  BY <1>5, <1>6

\* Every step keeps the inductive invariant.
LEMMA IInvNext == IInv /\ [Next]_vars => IInv'
<1> SUFFICES ASSUME IInv, [Next]_vars
             PROVE  IInv'
  OBVIOUS
<1>1. CASE Calls
  BY <1>1, OnModuleStartNextInv, ParseModuleInv, SessionFileAcceptedInv DEF Calls
<1>2. CASE Tasks
  BY <1>2, PrepareFinishedInv, ModuleActivatedInv, ServersHandledInv, ModuleDeactivatedInv,
     ModuleDestroyedInv DEF Tasks
<1>3. CASE serialNumberInitialized
  BY <1>3, SerialNumberInitializedInv
<1>4. CASE \E s \in Session : changeSessionFile(s)
  BY <1>4, ChangeSessionFileInv
<1>5. CASE \E e \in Entry : prepareFinished(e, FALSE)
  BY <1>5, PrepareFinishedInv
<1>6. CASE \E paused \in BOOLEAN : setModulesPaused(paused)
  BY <1>6, SetModulesPausedInv
<1>7. CASE serversHandled(FALSE)
  BY <1>7, ServersHandledInv
<1>8. CASE UNCHANGED vars
  <2>1. /\ starting' = starting /\ current' = current
        /\ UNCHANGED <<sessionFile, target, loader, startNext, lock, deferred, prepare, modules,
                       shutdown, dying, leaked, shared, serial, default, ready, broken, changes,
                       overtaken, aborted>>
    BY <1>8 DEF vars, starting, current
  <2>2. InOrder'
    BY <2>1, SameModules
  <2> QED
    BY <2>1, <2>2
       DEF IInv, TypeOK, OneAtATime, LockOwned, CallsInTurn, NothingYet, NothingMeanwhile,
           AllStarted, ProperModules
<1> QED
  BY <1>1, <1>2, <1>3, <1>4, <1>5, <1>6, <1>7, <1>8 DEF Next

-----------------------------------------------------------------------------
(* The theorems *)

\* The variables always have the values ModuleManager's declarations give them.
THEOREM TypeCorrect == Spec => []TypeOK
<1>1. IInv => TypeOK
  BY DEF IInv
<1> QED
  BY IInvInit, IInvNext, <1>1, PTL DEF Spec

LEMMA OneModuleAtMost ==
  ASSUME IInv
  PROVE  Cardinality(prepare) + Cardinality(starting) <= 1
<1>1. Cardinality({}) = 0
  BY FS_EmptySet
<1>2. prepare = {} \/ \E e : prepare = {e}
  BY DEF IInv, OneAtATime
<1>3. starting = {} \/ \E i : starting = {i}
  BY DEF IInv, OneAtATime
<1>4. \A x : Cardinality({x}) = 1
  BY FS_Singleton
<1>5. Cardinality(prepare) \in {0, 1} /\ (prepare = {} => Cardinality(prepare) = 0)
  BY <1>1, <1>2, <1>4
<1>6. Cardinality(starting) \in {0, 1} /\ (starting = {} => Cardinality(starting) = 0)
  BY <1>1, <1>3, <1>4
<1>7. prepare = {} \/ starting = {}
  BY DEF IInv, OneAtATime
<1> QED
  BY <1>5, <1>6, <1>7

\* Modules come up one by one, and all of them: the start lock is held by whoever will
\* release it, and once it is free and the serial number known, the session is complete
\* (m_moduleStartLock, m_deferredStartList, delayedModuleStartNext).
THEOREM LockAlwaysHasOwner == Spec => []LockHasOwner
<1>1. IInv => LockHasOwner
  <2> SUFFICES ASSUME IInv
               PROVE  LockHasOwner
    OBVIOUS
  <2>1. Cardinality(prepare) + Cardinality(starting) <= 1
    BY OneModuleAtMost
  <2> QED
    BY <2>1 DEF LockHasOwner, IdleLoop, IInv, OneAtATime, LockOwned, AllStarted
<1> QED
  BY IInvInit, IInvNext, <1>1, PTL DEF Spec

\* Modules are started in the order of the session file, also those that had to wait for
\* the serial number or the lock (startModule, onModuleStartNext).
THEOREM ModulesComeInSessionOrder == Spec => []SessionOrder
<1>1. IInv => SessionOrder
  <2> SUFFICES ASSUME IInv, ~overtaken, NEW i \in DOMAIN modules, NEW j \in DOMAIN modules,
                      i < j
               PROVE  \E k, l \in DOMAIN Entries[current] :
                        /\ k < l
                        /\ Entries[current][k] = modules[i].entry
                        /\ Entries[current][l] = modules[j].entry
    BY DEF SessionOrder
  <2>1. current # NoSession
    BY ModulesAreModules DEF IInv, NothingYet
  <2>2. WaitingInOrder /\ StartedInOrder /\ handled \in Nat
    BY <2>1 DEF IInv, InOrder, WaitingInOrder
  <2>3. /\ DOMAIN file = 1 .. Len(file)
        /\ handled <= Len(file)
        /\ Len(file) \in Nat
    BY <2>1, <2>2, CurrentFile
  <2>4. PICK k \in 1 .. handled : file[k] = modules[i].entry
    BY <2>2 DEF StartedInOrder
  <2>5. PICK l \in 1 .. handled : file[l] = modules[j].entry
    BY <2>2 DEF StartedInOrder
  <2>6. k \in DOMAIN file /\ l \in DOMAIN file
    BY <2>2, <2>3
  <2>7. k < l
    BY <2>2, <2>4, <2>5, <2>6 DEF StartedInOrder
  <2> QED
    BY <2>4, <2>5, <2>6, <2>7 DEF file
<1> QED
  BY IInvInit, IInvNext, <1>1, PTL DEF Spec

\* No preparation is started while another one is under way, whoever asks for the next
\* module: the assertion "!m_currModulePrepareTask" of startModule never fails.
THEOREM PrepareTaskIsFree == Spec => AssertNoPrepareTask
<1>1. IInv /\ [Next]_vars => [prepare' \subseteq prepare \/ prepare = {}]_vars
  <2> SUFFICES ASSUME IInv, Next, prepare # {}
               PROVE  prepare' \subseteq prepare
    OBVIOUS
  <2>1. lock /\ ~startNext
    BY DEF IInv, OneAtATime, CallsInTurn
  <2>2. CASE parseModule
    <3>1. prepare' = prepare
      BY <2>1, <2>2 DEF parseModule, startModule
    <3> QED
      BY <3>1
  <2>3. CASE \E e \in Entry, ok \in BOOLEAN : prepareFinished(e, ok)
    BY <2>3 DEF prepareFinished
  <2>4. CASE UNCHANGED prepare
    BY <2>4
  <2> QED
    BY <2>1, <2>2, <2>3, <2>4
       DEF Next, Calls, Tasks, onModuleStartNext, sessionFileAccepted, moduleActivated,
           serversHandled, moduleDeactivated, moduleDestroyed, serialNumberInitialized,
           changeSessionFile, setModulesPaused
<1> QED
  BY IInvInit, IInvNext, <1>1, PTL DEF Spec, AssertNoPrepareTask

-----------------------------------------------------------------------------
(* ModuleManager implements SessionSwitch *)

\* What a step may look like to a client of the module manager
SwitchStep == [Switching!Next \/ Disturbed']_(Switching!switchVars)

\* A step that touches nothing a client sees
LEMMA QuietStep ==
  ASSUME current' = current, UNCHANGED <<modules, dying, leaked, ready>>
  PROVE  SwitchStep
  BY DEF SwitchStep, Switching!switchVars, undead, running, fullySetUp

\* Modules that still come up, or are paused, do not count as running or stop doing so.
LEMMA SameRunning ==
  ASSUME IInv, DOMAIN modules \subseteq DOMAIN modules',
         \A i \in DOMAIN modules : /\ modules'[i].entry = modules[i].entry
                                   /\ modules'[i].setUp = modules[i].setUp,
         \A i \in DOMAIN modules' : i \in DOMAIN modules \/ ~modules'[i].setUp
  PROVE  running' = running
<1>1. fullySetUp' = fullySetUp
  BY DEF fullySetUp
<1>2. \A i \in fullySetUp : modules'[i].entry = modules[i].entry
  BY DEF fullySetUp
<1> QED
  BY <1>1, <1>2 DEF running

\* While nothing is being destroyed and no destroy task has failed, all modules of the
\* session before are gone.
LEMMA NothingUndead ==
  ASSUME IInv, shutdown = "none", leaked = {}
  PROVE  undead = {}
<1>1. dying = <<>>
  BY DEF IInv, NothingMeanwhile
<1>2. DOMAIN dying = {}
  BY <1>1, EmptySeq, LenProperties
<1> QED
  BY <1>2 DEF undead

LEMMA PositionsInFile ==
  ASSUME IInv, ~overtaken, current # NoSession
  PROVE  /\ StartedInOrder
         /\ handled \in Nat
         /\ 1 .. handled \subseteq DOMAIN file
         /\ ToSet(file) = {file[p] : p \in DOMAIN file}
<1>1. StartedInOrder /\ handled \in Nat
  BY DEF IInv, InOrder, WaitingInOrder
<1>2. handled <= Len(file) /\ DOMAIN file = 1 .. Len(file) /\ Len(file) \in Nat
  BY <1>1, CurrentFile
<1> QED
  BY <1>1, <1>2 DEF ToSet

\* A module that is started is one the session wants, and no other module is its twin.
LEMMA ModulesAreWanted ==
  ASSUME IInv, ~overtaken, NEW i \in DOMAIN modules
  PROVE  /\ current # NoSession
         /\ modules[i].entry \in wanted(current)
         /\ \A j \in DOMAIN modules : modules[j].entry = modules[i].entry => j = i
<1>1. current # NoSession
  BY ModulesAreModules DEF IInv, NothingYet
<1>2. /\ StartedInOrder
      /\ 1 .. handled \subseteq DOMAIN file
      /\ ToSet(file) = {file[p] : p \in DOMAIN file}
  BY <1>1, PositionsInFile
<1>3. PICK p \in 1 .. handled : file[p] = modules[i].entry
  BY <1>2 DEF StartedInOrder
<1>4. p \in DOMAIN file /\ p \in Nat
  BY <1>2, <1>3
<1>5. modules[i].entry \in wanted(current)
  <2>1. modules[i].entry \in ToSet(file)
    BY <1>2, <1>3, <1>4
  <2>2. CanRun(modules[i].entry)
    BY DEF IInv, ProperModules
  <2> QED
    BY <2>1, <2>2 DEF wanted, CanRun, file
<1>6. ASSUME NEW j \in DOMAIN modules, modules[j].entry = modules[i].entry
      PROVE  j = i
  <2>1. i \in Nat /\ j \in Nat
    BY ModulesAreModules DEF IInv
  <2>2. i < j => p < p
    BY <1>2, <1>3, <1>4, <1>6 DEF StartedInOrder
  <2>3. j < i => p < p
    BY <1>2, <1>3, <1>4, <1>6 DEF StartedInOrder
  <2> QED
    BY <2>1, <2>2, <2>3, <1>4
<1> QED
  BY <1>1, <1>5, <1>6

\* A session is announced with all its modules running.
LEMMA Announces ==
  ASSUME IInv, onModuleStartNext
  PROVE  SwitchStep
<1>1. /\ startNext /\ target = NoSession /\ loader = <<>> /\ prepare = {} /\ starting = {}
      /\ shutdown = "none" /\ broken = {}
      /\ UNCHANGED <<sessionFile, target, modules, shutdown, dying, leaked, overtaken>>
  BY DEF onModuleStartNext, taskVars, IInv, CallsInTurn, NothingMeanwhile
<1>2. current' = current /\ current # NoSession
  BY <1>1 DEF current, IInv, NothingYet
<1>3. CASE deferred # <<>>
  <2>1. ready' = ready
    BY <1>3 DEF onModuleStartNext
  <2> QED
    BY <1>1, <1>2, <2>1, QuietStep
<1>4. CASE Disturbed'
  BY <1>4 DEF SwitchStep
<1>5. CASE deferred = <<>> /\ ~Disturbed'
  <2>1. leaked = {} /\ ~overtaken
    BY <1>1, <1>5 DEF Disturbed
  <2>2. undead = {} /\ undead' = undead /\ running' = running
    BY <1>1, <2>1, NothingUndead DEF undead, running, fullySetUp
  <2>3. ready' = TRUE
    BY <1>5 DEF onModuleStartNext, handleFinalModuleLoaded
  <2>4. running \subseteq wanted(current)
    BY <2>1, ModulesAreWanted DEF running, fullySetUp
  <2>5. ASSUME NEW e \in wanted(current)
        PROVE  e \in running
    <3>1. /\ StartedInOrder
          /\ ToSet(file) = {file[p] : p \in DOMAIN file}
      BY <1>2, <2>1, PositionsInFile
    <3>2. DOMAIN file = 1 .. handled
      BY <1>1, <1>2, <1>5, CurrentFile, EmptySeq
    <3>3. PICK p \in 1 .. handled : file[p] = e
      BY <3>1, <3>2, <2>5 DEF wanted, file
    <3>4. CanRun(e)
      BY <2>5 DEF wanted, CanRun
    <3>5. PICK i \in DOMAIN modules : modules[i].entry = e
      BY <1>1, <3>1, <3>3, <3>4 DEF StartedInOrder
    <3>6. modules[i].setUp
      BY <1>1 DEF starting
    <3> QED
      BY <3>5, <3>6 DEF running, fullySetUp
  <2>6. running = wanted(current)
    BY <2>4, <2>5
  <2>7. current \in Session
    BY <1>2, TypeOfCurrent DEF IInv
  <2>8. Switching!Announce
    BY <1>2, <2>2, <2>3, <2>6, <2>7 DEF Switching!Announce
  <2> QED
    BY <2>8 DEF SwitchStep, Switching!Next
<1> QED
  BY <1>3, <1>4, <1>5

\* A module is set up when no module of the session before exists any more.
LEMMA Starts ==
  ASSUME IInv, moduleActivated
  PROVE  SwitchStep
<1>1. PICK i \in starting :
        modules' = [modules EXCEPT ![i].setUp = TRUE, ![i].measures = TRUE]
  BY DEF moduleActivated
<1>2. i \in DOMAIN modules /\ ~modules[i].setUp
  BY DEF starting
<1>3. /\ DOMAIN modules' = DOMAIN modules
      /\ \A j \in DOMAIN modules : modules'[j].entry = modules[j].entry
      /\ \A j \in DOMAIN modules : modules'[j].setUp <=> (modules[j].setUp \/ j = i)
  <2>1. \A j \in DOMAIN modules : modules[j] \in Module
    BY ModulesAreModules DEF IInv
  <2> QED
    BY <1>1, <1>2, <2>1 DEF Module
<1>4. /\ UNCHANGED <<sessionFile, target, dying, leaked, ready, overtaken>>
      /\ current' = current
  BY DEF moduleActivated, taskVars, current
<1>5. CASE Disturbed'
  BY <1>5 DEF SwitchStep
<1>6. CASE ~Disturbed'
  <2> DEFINE e == modules[i].entry
  <2>1. leaked = {} /\ ~overtaken
    BY <1>4, <1>6 DEF Disturbed
  <2>2. shutdown = "none"
    BY <1>2, ModulesAreModules DEF IInv, NothingMeanwhile
  <2>3. undead = {} /\ undead' = undead
    BY <1>4, <2>1, <2>2, NothingUndead DEF undead
  <2>4. /\ current # NoSession
        /\ e \in wanted(current)
        /\ \A j \in DOMAIN modules : modules[j].entry = e => j = i
    BY <1>2, <2>1, ModulesAreWanted
  <2>5. e \notin running
    BY <1>2, <2>4 DEF running, fullySetUp
  <2>6. running' = running \cup {e}
    <3>1. fullySetUp' = fullySetUp \cup {i}
      BY <1>2, <1>3 DEF fullySetUp
    <3>2. \A j \in fullySetUp \cup {i} : modules'[j].entry = modules[j].entry
      BY <1>2, <1>3 DEF fullySetUp
    <3> QED
      BY <3>1, <3>2 DEF running
  <2>7. current \in Session
    BY <2>4, TypeOfCurrent DEF IInv
  <2>8. Switching!Start(e) /\ e \in [s \in Session |-> wanted(s)][current]
    BY <1>4, <2>3, <2>4, <2>5, <2>6, <2>7 DEF Switching!Start
  <2> QED
    BY <2>4, <2>8 DEF SwitchStep, Switching!Next
<1> QED
  BY <1>5, <1>6

\* The modules of the session before go away one by one.
LEMMA Unloads ==
  ASSUME IInv, moduleDestroyed
  PROVE  SwitchStep
<1>1. PICK i \in DOMAIN dying :
        LET last == \A j \in DOMAIN dying \ {i} : dying[j].phase = "gone" IN
        /\ dying[i].phase = "deleting"
        /\ dying' = IF last THEN <<>> ELSE [dying EXCEPT ![i].phase = "gone"]
  BY DEF moduleDestroyed
<1>2. /\ UNCHANGED <<sessionFile, target, modules, leaked, ready, overtaken>>
      /\ current' = current
      /\ running' = running
  BY DEF moduleDestroyed, current, running, fullySetUp
<1>3. CASE Disturbed'
  BY <1>3 DEF SwitchStep
<1>4. CASE ~Disturbed'
  <2> DEFINE e == dying[i].entry
             here(d) == {d[j].entry : j \in {k \in DOMAIN d : d[k].phase # "gone"}}
  <2>1. leaked = {} /\ leaked' = {} /\ ~overtaken
    BY <1>2, <1>4 DEF Disturbed
  <2>2. undead = here(dying) /\ undead' = here(dying')
    BY <2>1 DEF undead
  <2>3. \A j \in DOMAIN dying : dying[j].entry = e => j = i
    BY <2>1 DEF IInv, ProperModules
  <2>4. e \in here(dying)
    BY <1>1
  <2>5. CASE dying' = <<>> /\ \A j \in DOMAIN dying \ {i} : dying[j].phase = "gone"
    <3>1. DOMAIN dying' = {}
      BY <2>5, EmptySeq, LenProperties
    <3>2. here(dying') = {}
      BY <3>1
    <3>3. here(dying) = {e}
      BY <1>1, <2>5
    <3> QED
      BY <1>2, <2>2, <2>4, <3>2, <3>3 DEF SwitchStep, Switching!Next, Switching!Unload
  <2>6. CASE dying' = [dying EXCEPT ![i].phase = "gone"]
    <3>1. /\ DOMAIN dying' = DOMAIN dying
          /\ \A j \in DOMAIN dying : /\ dying'[j].entry = dying[j].entry
                                     /\ dying'[j].phase = IF j = i THEN "gone" ELSE dying[j].phase
      BY <2>6, DyingPhase DEF IInv
    <3>2. here(dying') = here(dying) \ {e}
      BY <2>3, <3>1
    <3> QED
      BY <1>2, <2>2, <2>4, <3>2 DEF SwitchStep, Switching!Next, Switching!Unload
  <2> QED
    BY <1>1, <2>5, <2>6
<1> QED
  BY <1>3, <1>4

\* A session change: all modules are set up, and those become the ones that have to go.
LEMMA Switches ==
  ASSUME IInv, NEW s \in Session, changeSessionFile(s)
  PROVE  SwitchStep
<1>1. CASE lock
  <2>1. UNCHANGED <<sessionFile, target, modules, dying, leaked, ready>>
    BY <1>1 DEF changeSessionFile
  <2> QED
    BY <2>1, QuietStep DEF current
<1>2. CASE ~lock /\ Disturbed'
  BY <1>2 DEF SwitchStep
<1>3. CASE ~lock /\ ~Disturbed'
  <2>1. /\ destroyModules /\ target' = s /\ ready' = FALSE /\ leaked' = leaked
        /\ modules' = <<>>
    BY <1>3 DEF changeSessionFile, destroyModules
  <2>2. /\ leaked = {} /\ leaked' = {}
        /\ starting = {} /\ shutdown = "none" /\ dying = <<>>
    BY <1>3, <2>1 DEF Disturbed, IInv, OneAtATime, NothingMeanwhile
  <2>3. undead = {} /\ current' = s
    BY <2>1, <2>2, NothingUndead, ManagerAssumption DEF current
  <2>4. running' = {}
    BY <2>1, EmptySeq, LenProperties DEF running, fullySetUp
  <2>5. running = {modules[i].entry : i \in DOMAIN modules}
    BY <2>2 DEF running, fullySetUp, starting
  <2>6. undead' = running
    <3>1. CASE modules = <<>>
      <4>1. dying' = <<>> /\ DOMAIN dying' = {} /\ DOMAIN modules = {}
        BY <2>1, <2>2, <3>1, EmptySeq, LenProperties DEF destroyModules
      <4> QED
        BY <4>1, <2>2, <2>5 DEF undead
    <3>2. CASE modules # <<>>
      <4>1. dying' = [i \in DOMAIN modules |->
                        [entry |-> modules[i].entry, phase |-> "deactivating"]]
        BY <2>1, <3>2 DEF destroyModules
      <4> QED
        BY <4>1, <2>2, <2>5 DEF undead
    <3> QED
      BY <3>1, <3>2
  <2>7. Switching!Switch(s)
    BY <2>1, <2>3, <2>4, <2>6 DEF Switching!Switch
  <2> QED
    BY <2>7 DEF SwitchStep, Switching!Next
<1> QED
  BY <1>1, <1>2, <1>3

LEMMA DestroyTaskSwitches ==
  ASSUME IInv, moduleDeactivated \/ \E ok \in BOOLEAN : serversHandled(ok)
  PROVE  SwitchStep
<1>1. CASE moduleDeactivated
  <2>1. PICK i \in DOMAIN dying : /\ dying[i].phase = "deactivating"
                                  /\ dying' = [dying EXCEPT ![i].phase = "deleting"]
    BY <1>1 DEF moduleDeactivated
  <2>2. /\ DOMAIN dying' = DOMAIN dying
        /\ \A j \in DOMAIN dying : /\ dying'[j].entry = dying[j].entry
                                   /\ dying'[j].phase = "gone" <=> dying[j].phase = "gone"
    BY <2>1, DyingPhase DEF IInv
  <2>3. UNCHANGED <<sessionFile, target, modules, leaked, ready>>
    BY <1>1 DEF moduleDeactivated, callVars
  <2>4. undead' = undead
    BY <2>2, <2>3 DEF undead
  <2> QED
    BY <2>3, <2>4 DEF SwitchStep, Switching!switchVars, running, fullySetUp, current
<1>2. CASE serversHandled(TRUE)
  BY <1>2, QuietStep DEF serversHandled, current
<1>3. CASE serversHandled(FALSE)
  <2>1. dying # <<>>
    BY <1>3 DEF serversHandled, IInv, NothingMeanwhile
  <2>2. 1 \in DOMAIN dying
    BY <2>1, NoElement DEF IInv, TypeOK
  <2>3. dying[1].entry \in leaked'
    BY <1>3, <2>2 DEF serversHandled
  <2> QED
    BY <2>3 DEF SwitchStep, Disturbed
<1> QED
  BY <1>1, <1>2, <1>3

\* A session change is what SessionSwitch promises, as long as no destroy task has failed
\* and no waiting entries were overtaken: all modules of the session before are gone before
\* the first one of the new session is set up, and the session is announced with exactly
\* the modules it can have running.
THEOREM ManagerImplementsSessionSwitch == Spec => ImplementsSessionSwitch
<1>1. Init => Switching!Init
  <2> SUFFICES ASSUME Init
               PROVE  Switching!Init
    OBVIOUS
  <2>1. DOMAIN dying = {} /\ DOMAIN modules = {}
    BY EmptySeq, LenProperties DEF Init
  <2> QED
    BY <2>1 DEF Init, Switching!Init, current, undead, running, fullySetUp
<1>2. IInv /\ [Next]_vars => SwitchStep
  <2> SUFFICES ASSUME IInv, [Next]_vars
               PROVE  SwitchStep
    OBVIOUS
  <2>1. CASE parseModule
    BY <2>1, QuietStep DEF parseModule, taskVars, current
  <2>2. CASE sessionFileAccepted
    <3>1. current' = current
      BY <2>2, ManagerAssumption DEF sessionFileAccepted, current
    <3> QED
      BY <2>2, <3>1, QuietStep DEF sessionFileAccepted, taskVars
  <2>3. CASE serialNumberInitialized
    BY <2>3, QuietStep DEF serialNumberInitialized, taskVars, current
  <2>4. CASE UNCHANGED vars
    BY <2>4, QuietStep DEF vars, current
  <2>5. ASSUME NEW e \in Entry, NEW ok \in BOOLEAN, prepareFinished(e, ok)
        PROVE  SwitchStep
    <3>1. UNCHANGED <<sessionFile, target, dying, leaked, ready>>
      BY <2>5 DEF prepareFinished, callVars, taskVars
    <3>2. running' = running
      <4>1. CASE ok
        <5>1. modules' = Append(modules, [entry |-> e, setUp |-> FALSE,
                                          measures |-> FALSE, restarted |-> FALSE])
          BY <2>5, <4>1 DEF prepareFinished
        <5> DEFINE m == [entry |-> e, setUp |-> FALSE, measures |-> FALSE, restarted |-> FALSE]
        <5>2. m \in Module /\ ~m.setUp
          BY DEF Module
        <5> HIDE DEF m
        <5>3. /\ DOMAIN modules = 1 .. Len(modules)
              /\ Len(modules) \in Nat
              /\ DOMAIN modules' = 1 .. Len(modules) + 1
              /\ \A i \in DOMAIN modules : modules'[i] = modules[i]
              /\ ~modules'[Len(modules) + 1].setUp
          BY <5>1, <5>2, ModulesAreModules, Appended DEF IInv, m
        <5> QED
          BY <5>3, SameRunning
      <4>2. CASE ~ok
        BY <2>5, <4>2 DEF prepareFinished, running, fullySetUp
      <4> QED
        BY <4>1, <4>2
    <3> QED
      BY <3>1, <3>2 DEF SwitchStep, Switching!switchVars, current, undead
  <2>6. ASSUME NEW paused \in BOOLEAN, setModulesPaused(paused)
        PROVE  SwitchStep
    <3>1. UNCHANGED <<sessionFile, target, dying, leaked, ready>>
      BY <2>6 DEF setModulesPaused, callVars, taskVars
    <3>2. /\ DOMAIN modules' = DOMAIN modules
          /\ \A i \in DOMAIN modules : /\ modules'[i].entry = modules[i].entry
                                       /\ modules'[i].setUp = modules[i].setUp
      <4>1. \A i \in DOMAIN modules : modules[i] \in Module
        BY ModulesAreModules DEF IInv
      <4> QED
        BY <2>6, <4>1 DEF setModulesPaused, Module
    <3>3. running' = running
      BY <3>2, SameRunning
    <3> QED
      BY <3>1, <3>3 DEF SwitchStep, Switching!switchVars, current, undead
  <2> QED
    BY <2>1, <2>2, <2>3, <2>4, <2>5, <2>6, Announces, Starts, Unloads, Switches,
       DestroyTaskSwitches DEF Next, Calls, Tasks
<1> QED
  BY IInvInit, IInvNext, <1>1, <1>2, PTL DEF Spec, ImplementsSessionSwitch, SwitchStep

-----------------------------------------------------------------------------
(* What the two findings of the module manager take: a DSP server that may be *)
(* unreachable, or a serial number that is read after modules were started    *)

\* As long as the DSP server can be reached on every session change, no module is prepared,
\* set up or running while one of the session before exists ("do not allow starting until all
\* modules are shut down", startModule).
THEOREM ShutdownFirst == ~ServersMayFail => (Spec => []StartOnlyAfterShutdown)
<1> SUFFICES ASSUME ~ServersMayFail
             PROVE  Spec => []StartOnlyAfterShutdown
  OBVIOUS
<1> DEFINE NoneLeaked == leaked = {}
<1>1. Init => NoneLeaked
  BY DEF Init
<1>2. NoneLeaked /\ [Next]_vars => NoneLeaked'
  BY DEF Next, Calls, Tasks, vars, taskVars, onModuleStartNext, parseModule,
         sessionFileAccepted, prepareFinished, moduleActivated, serversHandled,
         moduleDeactivated, moduleDestroyed, serialNumberInitialized, changeSessionFile,
         setModulesPaused
<1>3. IInv /\ NoneLeaked => StartOnlyAfterShutdown
  <2> SUFFICES ASSUME IInv, NoneLeaked, prepare # {} \/ modules # <<>>
               PROVE  undead = {}
    BY DEF StartOnlyAfterShutdown
  <2>1. shutdown = "none"
    BY DEF IInv, NothingMeanwhile
  <2> QED
    BY <2>1, NothingUndead
<1> QED
  BY IInvInit, IInvNext, <1>1, <1>2, <1>3, PTL DEF Spec

\* If the serial number is known from the start, a session change is accepted only when all
\* modules of the session before have been started ("Cannot switch sessions while session
\* change already is in progress", loadSession).
THEOREM NoSwitchWithSerialNumber ==
  SerialAtStart = {TRUE} => (Spec => NoSwitchWhileLoading)
<1> SUFFICES ASSUME SerialAtStart = {TRUE}
             PROVE  Spec => NoSwitchWhileLoading
  OBVIOUS
<1> DEFINE Known == serial = TRUE
<1>1. Init => Known
  BY DEF Init
<1>2. Known /\ [Next]_vars => Known'
  BY DEF Next, Calls, Tasks, vars, onModuleStartNext, parseModule, sessionFileAccepted,
         prepareFinished, moduleActivated, serversHandled, moduleDeactivated, moduleDestroyed,
         serialNumberInitialized, changeSessionFile, setModulesPaused
<1>3. IInv /\ Known /\ [Next]_vars =>
        [target = NoSession /\ target' # NoSession => deferred = <<>>]_vars
  <2> SUFFICES ASSUME IInv, Known, Next, target = NoSession, target' # NoSession
               PROVE  deferred = <<>>
    OBVIOUS
  <2>1. PICK s \in Session : changeSessionFile(s)
    BY DEF Next, Calls, Tasks, callVars, onModuleStartNext, parseModule, sessionFileAccepted,
           prepareFinished, moduleActivated, serversHandled, moduleDeactivated,
           moduleDestroyed, serialNumberInitialized, setModulesPaused
  <2>2. ~startNext /\ ~lock
    BY <2>1 DEF changeSessionFile, IdleLoop
  <2>3. CASE sessionFile = NoSession
    BY <2>3 DEF IInv, NothingYet, current
  <2>4. CASE sessionFile # NoSession
    BY <2>2, <2>4 DEF IInv, AllStarted
  <2> QED
    BY <2>3, <2>4
<1> QED
  BY IInvInit, IInvNext, <1>1, <1>2, <1>3, PTL DEF Spec, NoSwitchWhileLoading
=============================================================================
