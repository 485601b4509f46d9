# zera-classes: a TLA+ model of the ZERA measuring device server

zera-classes is the server side of the ZERA measuring devices: a *module manager*
loads a *session file*, which names some twenty plugins ("modules"), and starts them
one after the other.  Each module owns a vein *entity* (its parameters and values),
talks to services on the device (PCB/range server, DSP server, error calculator
server, resource manager) or to devices at a USB port, and is driven by one Qt event
loop.  There are no threads in the parts modelled here: what is concurrent is what is
*under way* - requests to servers, I/O with a device, timers, posted signals - and the
handlers that run when these end, in an order nobody fixes.

Reading guide: sections 1-2 are the inventory and the plan, section 3 maps modules to
code, section 4 explains every run, section 5 the proofs, section 6 what is left out.

## 1. Inventory

Per component: state it keeps / operations / who it talks to / what is hard / what makes
it correct.  The list with all source files is in `PROJECT.json`.

**Module manager** (`src/modulemanager/lib/modulemanager.cpp`, `jsonsessionloader.cpp`,
`taskallmodulesdestroy.cpp`).  State: `m_moduleStartLock`, `m_deferredStartList`,
`m_moduleDataList`, `m_currModulePrepareTask`, `m_allModulesDestroyTask`, the session
name, the data all modules share.  Operations: `changeSessionFile`, `startModule`,
`onModuleStartNext`, `destroyModules`, `onAllModulesDestroyed`, `setModulesPaused`.
It is called by the vein module system (a client writes the session name), the session
loader, the tasks, the modules (`moduleActivated`) and the license system (serial number
known).  Hard: one flag serialises everything; a session is parsed while the one before
is destroyed; modules that need a licence wait for the serial number, which a module of
the same session reads; starts and servers fail.  Correct: one start at a time, old
modules gone before new ones start, nothing deferred is forgotten, the session is
announced when it is complete.

**I/O queue** (`src/modules/sourcemodule/lib/ext-serial/io-queue`, `io-device`).  State:
the pending groups, the position in the first of them, the I/O id awaited.  Operations:
`enqueueTransferGroup`; `onIoFinished` (posted) and `onIoDisconnected` (direct) by the
device.  Hard: answers arrive for I/O that was given up; groups end early depending on
their error behaviour; the device goes away at any time.  Correct: the answer evaluated
belongs to the transfer evaluated, each group is reported once and in order, and the
queue never waits for nothing.

**External source device** (`ext-serial/source-device`, `source-device-common/sourcedevicetemplate.cpp`).
State: the state controller (state, polls left before a switch counts, pending ids), the
periodic poller, the switcher (load point current and requested last), close requested.
Operations: `switchLoad`, `close`, the poll timer, responses.  Three objects hear every
response.  Hard: a poll and a switch in line together, switches that overlap, closing
while a switch is under way, a plug pulled.  Correct: the status tells the truth, the
load point shown is the one put out, a closed source is off, closing ends.

**Source manager, scanner, program** (`sourcedevicemanager.cpp`, `ext-serial/source-scanner`,
`module-gluelogic`).  State: slots, scans under way, demo count.  Hard: scans started
while slots are free end when they are taken; "all closed" while scans run.
**Internal source** (`source-device-internal`): a queue of switch requests; hard: a
request from within the end of another.

**Base module** (`src/modules-common/zera-basemodule`).  State: two Qt state machines for
activation and deactivation over one list of activists and one iterator, the set-up task,
whether set-up is complete.  Hard: pause and restart during set-up, destroying while
activating.  Correct: each activist is activated once before the module runs, and
deactivated once.

**Range module** (`src/modules/rangemodule`).  `cRangeObsermatic` sees overloads and
changes ranges (automatic, manual, grouped) while range commands are under way.  State:
the ranges wanted, set and shown, four overload flags per channel, two counts of requests
under way.  Operations: each set of measured values, six parameters, clamps, answers.
Hard: everything moves ranges, and every channel answers when it likes.  Correct: counts
match what is under way, clients see the range the hardware is in, ranges do not chase each
other, an overload that can be recovered is.  Adjustment, the measurement program and the
activation around it are chains of requests.

**SCPI module** (`src/modules/scpimodule`).  Clients connect by network or serial line.  State
of a client: the rest of its line (`m_activeCmd`), the transactions pending by name
(`m_veinParamRpcTransactionHash`), the machines of its component sequences, its executors, its
response sorter, registers and error queue; of the module: the store of transactions of all
clients.  Operations: lines, notifications, errors, ends of RPCs, measured values,
signals to status bits.  It talks to the parameters of all modules by vein events.  Hard:
queries end out of order, by somebody else's answer; the hash and the store go
separate ways; clients vanish; machines are shared by queries; `*OPC` while something is pending.
Correct: answers in order and whole, what is pending is known on both sides, the status byte
tells all, every query is settled.

**Error calculator modules** (`sec1module`, `sem1module`, `spm1module`, `modules-common-sec`).
State: four state machines (activation, set-up and start, interrupt or final result,
deactivation), the status word clients read, counts of a sequence of measurements, two
timers.  They talk to the error calculator server (one connection, interrupts of its
own), to the power module they measure with, and to clients.  Hard: interrupts that
come after an abort, a stop that meets a start under way, one answer that moves two
machines, a request refused in the middle.  Correct: a result is that of a whole
measurement, the status never rests between two states, sequences are as long as
asked for, polling ends.

**Measurement programs** (`dft`, `fft`, `rms`, `thdn`, `osci`, `power1/2/3`, `reference`,
`sample`, `range`, `dspsuper`, `periodaverage`, and the activists of `status`, `mode`, `sfc`,
`adjustment`).  Each is up to four state machines of requests to servers: activation
(resources, notifications, DSP memory, variables, commands), deactivation, a query on a
notification, a write of gain scales or corrections to the DSP; values come on each DSP
interrupt.  Hard: machines that run at once and share their signals, notifications
while something is read, refusals.  Correct: a module that says it runs has asked for
everything, one that is gone has given everything back, a change that was notified is
read and published.  **Calculating modules** (`burden1`, `transformer1`, `lambda`,
`dosage`, `recorder`, `sfc`) are formulas with little state.
**Adjustment, status, api, ble, mode, hotplugcontrols**: chains of requests; the hotplug
controls replace a task sequence while it may run.

**Channel range observer** (`modules-common/channel-range-observer`): a full scan shared by
the modules that need channel data.  **Measurement modes** (`modules-common-power`): masks and
phases of a mode.  **Vein interface, service interfaces, DSP support**: wrappers.
**scpi-doc, logging-snapshots**: offline tools.  *External*: the vein framework, the task
library (zera-tasks), the license system, the server proxies.

The hazards of this code - what is hard to test, with the line where it bites - are listed
in `PROJECT.json`; each names the properties that cover it or says why none does yet.

## 2. Plan

| step | modules | abstract specification | what to check | what to prove |
|---|---|---|---|---|
| 1 (done) | `IoQueue`, `GroupFifo` | a FIFO of groups | no mix-up, no stall, each group once | done: all safety properties, refinement |
| 2 (done) | `ModuleManager`, `SessionSwitch` | a session change as a client sees it | order, nothing forgotten | done: type, lock, order, the `Q_ASSERT` of `startModule`, refinement |
| 3 (done) | `ExtSerialSource`, `SourceStatus` | the status component a client waits on | status, load point, closing | done: all invariants, refinement |
| 4 (done but for start and stop) | `RangeObsermatic` | an overload is recovered or announced | group overload, pending ranges | done: all invariants, `StatusIsFresh` |
| 5 (done) | `ErrorCalculator`, `Sec1`, `SemSpm` | | whole results, status, sequences | done: all invariants, `StatusRests`, `SequencesAreWhole` |
| 6 (done) | `MeasProgram` | | activation is complete, deactivation frees, changes are published | next: `ActivatedMeansDone` |
| 7 (done) | `ScpiStatus`, `Scpi` | | order, whole answers, pending transactions, status byte, every query ends | done: all invariants, `AnswersInOrder` |
| 8 | source manager, scanner, internal source; adjustment requests; hotplug; measuring modes | | slots and scans, answers over shared members | |

Steps 5 and 6 fill in what module 2 knows of a module (set up, measuring, deactivated), and
step 8 composes the source device with its manager.

## 3. Modules and code

`IoQueue` - one action per call from outside: `enqueueTransferGroup` (a user),
`onIoFinished` (the event loop delivers), `deviceAnswers` (the device evaluated a transfer
and posts), `deviceDisconnects`.  The helpers `tryStartNextIo`, `canContinueCurrentGroup`,
`abortAllGroups` are the methods of those names; an action contains all they call.
`outcome` records for each group which transfers passed (`didIoPass`); `finished` records
`sigTransferGroupFinished`.  Whether a transfer passes, a write fails at once, or the file of
the device disappears is open.  `GroupFifo` is the line of groups users can rely on.

`ModuleManager` - call chains that recurse over the session file are unrolled: `loader`,
`target` and `startNext` hold what the chain does next, and no event is handled before the
chain is through (`IdleLoop`).  `overtaken` is history: a session change was accepted while
modules of the session before still waited.  `prepareFinished` may come within the chain as well, as a
prepare task may finish at once.  A module is `[entry, setUp, measures, restarted]`;
the destroy task is `shutdown` and `dying`.  `qFatal` is `aborted`.  `SessionSwitch` is what a
client sees.

`ExtSerialSource` - `dev` is the state of the objects of one source; the handlers are
functions of it, composed in the order they are connected (poller, controller, switcher;
`responseReceived`).  The I/O queue is a line as `GroupFifo` promises.  `output` is
what the source really puts out, `confirmed` whether the switch ended last was confirmed.
`SourceStatus` is the status as a client sees it: it becomes idle only when the switch it waits for
is through.

`RangeObsermatic` - `obs` is the state of `cRangeObsermatic` and its channels (`conf` is
what `m_ConfPar` wants, `actRange` what was sent last, `rangePar` what clients see; the
other fields name their members in the type `Obsermatic`).  A slot is an action; the functions
a slot calls one after the other (`observeRangeOverload`, `rangeAutomatic`, `groupHandling`)
are functions from one `obs` to the next, and `setRanges` ends each of them as in the code.
`line[c]` holds the requests of channel `c`: each channel has its own connection to the PCB
server, so answers are in order per channel only.  The server carries a request out when its answer is
handled: `hwRange` and `latched` are read by `readstatus` of the same channel only, which is in the
same line, and a hardware overload may come at any time anyway.  A value measured is the load
(`level`) at the moment; prescaling factors are part of it.  A clamp changes the ranges of
a channel in one step with the reading of its new list (`catchChannelNewRangeList`).  The
server refuses a range that has vanished; other refusals are not modelled.

`Sec1` and `SemSpm` - the measuring programs over an `ErrorCalculator`, the external pair of
calculators.  `sec` and `prog` are the members of the program (the comments of `Program` name
them), `line` the requests not yet answered.  An action is one slot with all it calls,
written as functions on [program, requests sent].  The connection is a FIFO in both
directions, so the service may carry out a request when its answer is handled; an interrupt
arrives at once.  `QStateMachine::start` is a queued call made before anything new arrives,
so a machine that is started sends its first request in the same step.  The polls of a timer
(status, energy, progress) are one request "actualize".  A value is abstracted to where it
comes from: nothing counted, a whole measurement, one cut off, one before.  Clients start only
when `PAR_StartStop` is 0: vein does not tell the module of a value that does not change.

`MeasProgram` - eighteen activists of twelve modules in one state machine framework.  `dspProgram`,
`powerActivation` and so on are the transitions set up in the constructors, where a state is named
after the slot called on entering it; `slot` is what such a slot asks the services, `acknowledged`
what its answer does; a signal moves every running machine that waits for it (`signal`).
`asked` and `told` are the two directions of each connection, `carried` what the services have
carried out.  Data are left out but for what queries read: `actual` counts the changes of an item,
`used` says which of them is published or written to the DSP, `watched` which are notified.

`ScpiStatus` - the registers of one client, operators on a record.  `Scpi` - `scpi` is the state
of the module and its clients; every handler is a function from one `scpi` to the next,
composed as the code calls them (a line is executed, its commands end, the sorter writes).  The event
loop is explicit: `posted` holds vein events and queued calls in their order, and while they are
handled (`draining`) no socket is looked at.  `param` is the other side, the parameters of the
modules with their client lists (`VfModuleComponent`, `VfModuleParameter`); parameters either take a value at
once or are *deferred* until their module has carried it out.  An RPC runs until it ends, with or without success.  Of an answer the model keeps
how its query ended (`Fate`): answered, failed, dropped, or answered with an entry missing or
counted twice ("torn"), a value older than the INIT before ("stale") or entries empty for a reason
("partly").  That reason: a component sequence is created with the first query for its component (`sequences`)
and its `m_sAnswer` is empty until a value arrives (`valued`), so `FETCH` without an `INIT` before it
writes an empty entry for what never had a value (`blank`, `early`).  The repository's tests of SCPI expect
that: in `modules/scpimodule/tests/test-data/scpi-dumps/dumped-all-queries-in-one-transaction`, lines
118 to 143, `FETCH` is answered by separators alone.  An entry that is empty for any other reason counts as "torn".

Each module holds *faulty variants*: operators that change one step the
way a bug would (a reset forgotten, a guard dropped, an order swapped).  They
take part in nothing; substituted for the step they alter they make one property fail,
which shows that the property depends on the code.

## 4. Runs

| run | instance | checks | size |
|---|---|---|---|
| `io_queue` | 4 groups: each error behaviour with 2 transfers, one empty; limit 2; device may be closed from the start | `TypeOK`, `NeverStalls`, `AnswerBelongsToCurrentTransfer`, `FinishesOnlyAtTheEnd`, `EveryGroupFinishes`, refinement of `GroupFifo` | 41 k states |
| `sessions` | 2 session files, 5 entries (status, measuring, licensed, unlicensed, without plugin), 3 changes, serial number known or not, modules and servers may fail | start lock and its owner, nothing forgotten, order, announcement, refinement of `SessionSwitch` | 46 k |
| `sources` | 3 load points; either patient clients (they wait for their switch; demo close) or any (switches overlap, closing any time), chosen at the start; 1 or 2 polls after a switch | load point shown, closed is off, busy and closing end, refinement of `SourceStatus` | 34 k |
| `ranges` | 2 channels in one group, a low, a high and a clamp range, the clamp plugged in at first; 3 loads, one of them overloads by its peak only; any 2 changes of load, clamp or parameter; 3 requests per channel | counts, range shown, fresh status, ranges settle | 602 k |
| `sec1` | any mode, 1 or 2 measurements, with or without a pause; 4 writes of clients or the power module, 1 refusal | results are whole, status rests, sequences are whole, everything ends | 359 k |
| `semspm` | both stop modes, 6 writes, 1 refusal | ready means final, everything ends | 28 k |
| `programs` | 18 activists; 2 channels, 0 or 1 frequency output, 2 ranges; 2 changes, 1 interrupt, 1 refusal | activated means done, deactivation frees, changes are published, everything ends | 607 k |
| `scpi` | a network and a serial client, any 2 of 6 lines, 4 parameters and RPCs of 2 modules, 2 components; 1 change of a parameter, a signal or the sorting; no interference | answers in order and whole, pending is honest, status byte tells all, every query ends | 656 k |
| `power2` | the power2 module with a frequency output | *violated*: a changed range is never read | |
| `range_stopped` | 2 channels, no group, 4 changes | *violated*: a stopped automatic nobody can see | |
| `session_undead` | servers may fail | *violated*: modules start while old ones exist | |
| `session_overtaken` | serial number unknown | *violated*: a session change is accepted while modules still wait | |

*Why the bounds are enough.*  Two transfers and two waiting groups give every
combination of "this group ends early / at its end / is refused / is aborted with others
waiting"; the code looks only at the first group and the limit.  Three session changes
give a change from nothing, a change with modules to destroy, and one on top of it; two
files sharing modules but not order tell which session a start belongs to.  Three transaction
ids allow two switches and a poll in line together (a poller has one outstanding poll).
Two lines of SCPI commands are either from one client, the second put on top of the first, or from two
clients that meet at the same parameter, and a client may go and come again between them; a queue of two errors
overflows.
Sequences of two results have a first, a following and
a last one, and four writes set up a mode, start, stop and start again.  Two channels, two ranges and one
frequency output take every loop of the activists once around and once on; two changes put one
on top of the reading of the other, and one refusal comes at each request there is.
`MaxLine` of `Sec1` and `SemSpm` keeps the poll timer quiet while two requests wait, so polls and
each other request meet in both orders.  Two channels give a leader and a follower of a group, one of which has a range the other
lacks; two changes put one on top of requests of the other.  `MaxLine` only
keeps clients and measurements quiet while that many requests of a channel are under way, and is 3 in
`ranges`: a `setrange` is never alone in its line, a `readstatus` or `resetstatus` goes with it, so with 2
nothing would happen while a range is being set.  With 3 a second range is set on top of the first
(`rangeSetPending` is raised from 1 and 2, and exceeds 2), a range in the line vanishes before the server gets to
it, and answers to older ranges arrive when newer ones are under way: TLC reaches each of these.
Answers come in any order among channels.

*Where the system may stop* (`CHECK_DEADLOCK FALSE`): when all groups are finished, when all
changes are used up or `qFatal` ended the program, and when a closed source has nothing in line.  The obsermatic never stops: its runs check that.  The SCPI module waits for clients that
have sent their lines.  A measuring
program that is deactivated, or waits for clients that have used up their writes, stops as well.

*Fairness* is on the program and its environment's promises, never on users.  `WF` of
`onIoFinished`: the Qt event loop delivers posted signals.  `WF` of `deviceAnswers`: both
devices answer or time out (`IoDeviceZeraSerial` has a read timeout).  `WF` of calls and
tasks of the module manager: calls return, tasks have timeouts.  `serialNumberInitialized` is
assumed to happen once the status module runs.  In `ExtSerialSource`: the poll timer expires
while it runs, and transactions end - which `EveryGroupFinishes` of `IoQueue` justifies.  In
`RangeObsermatic`: the DSP keeps measuring and the PCB server answers each channel (stated with the
conditions of the two actions spelt out, which TLC evaluates faster than `ENABLED`); nothing is
assumed of users, the load, or how soon the hardware notices an overload.  In `Sec1`, `SemSpm` and
`MeasProgram`: services answer each request or refuse it, timers expire, posted signals are
handled, a measurement that was started ends; nothing is assumed of clients.  In `Scpi`
the event loop runs, of the work and RPCs under way some end, and of the components somebody waits for some get a
new value; fairness is written with `[]<>` there, where `WF` would need `ENABLED` of large actions.
`MaxChanges` makes the load
constant in the end, which is what `Settles` is about.

*What the four violated runs say.*  `startModule` comments "do not allow starting until all
modules are shut down" (`modulemanager.cpp:213`), but `onAllModulesDestroyed` takes no result:
if connecting the DSP server fails, no module is deactivated and the new session starts.
`loadSession` refuses a change "while session change already is in progress" (`:305`), but looks at the
start lock only, which is free while modules wait for the serial number.  `groupHandling`
says that after an overload in the maximum range the "range automatic stops until user
resets overload manually" (`rangeobsermatic.cpp:418`).  The flag is kept per channel, but one
`INF_OverloadMax` and one `PAR_Overload` stand for all: a range chosen for another channel
clears both, and the first channel stays without automatic and without a sign of it.
The power2 module writes its frequency output constants in `foutParamsToDsp`, a state of the
machine that reads changed ranges, and waits there for `activationContinue`; the answer is ignored
("we ignore ack", `power2modulemeasprogram.cpp:557`), so nobody emits it.  As that machine is started
only if it is not running (`:512`), the next change of a range is never read.
(The machine of power1 goes on to a final state.)

*What the passing runs exclude.*  `Interference` and `Refusable` name it; adding an element shows the
trace.  `Sec1`, `SemSpm`: a stop that meets a start under way, a mode changed during a measurement,
a stop repeated by clients, a server that refuses to stop, and in `Sec1` one that refuses the mode.
(The last one takes a stop that meets the answer to a start: that answer moves the set-up of the next
measurement a state ahead of its requests, so the refused mode does not stop it, and a count of before
becomes a result.  Four writes do not get there; seven do, and the attempt to prove it did.)  `MeasProgram`: "early" lets ranges and
checksums change while a module is activated (power1 then takes the first of an empty list in
`setSenseChannelRangeNotifier`), "again" lets them change while they are read (the status module and
range channels lose that change; the adjustment would ask faster than it is answered, which its timer
of seconds rules out), "aside" brings the status module another notification meanwhile.

The circumstances of `Scpi` in which promises do not hold, and the property that fails first when one of them is
allowed ("overtaken", "drop", "bare" and "miscount" need lines of their own: `FETCH`, `INIT` and `FETCH` of one component,
a failed query between others, an RPC called in that way).  `AnswersInOrder` and `StatusByteTellsAll` hold in all of them:

| `Interference` | what happens in the code | fails |
|---|---|---|
| "repeat" | two transactions of one name of a client: its hash has one entry, the first end removes it | `PendingIsHonest` |
| "outdated" | a parameter changed after the old value was read is not set, and nobody answers (`vfeventsytemmoduleparam.cpp:25`) | `EveryQueryEnds` |
| "crosstalk" | an error ends any transaction of its entity (`scpieventsystem.cpp:90`) | `PendingIsHonest` |
| "overlap" | a query for components an earlier one of its kind waits for starts their machines again, and values count twice | `AnswersAreWhole` |
| "overtaken" | `execute` starts no machine that is running or about to: a `FETCH` after `INIT` shares the machine an earlier `FETCH` has queued, which is started before that of `INIT` sets `m_bInitPending` (`scpiveincomponentsequencemeasure.cpp:101`, `:203`), and takes the value of before | `AnswersAreWhole` |
| "drop" | a failed query has a null answer; the serial client leaves the loop that writes what is due | `AnswersAreWhole` |
| "unsort" | the sorter is switched off with answers held back | `EveryQueryEnds` |
| "bare" | an RPC without parameters is no transaction, and its end removes one of that name | `PendingIsHonest` |
| "miscount" | an RPC with a wrong number of parameters gets no answer | `EveryQueryEnds` |
| "orphan" | an RPC outlives its client; its end still refers to it | `PendingIsHonest` |

*Observed while modelling, without a run.*
- A query of a parameter is a transaction that sets the value it has found
  (`vfmoduleparameter.cpp:69`).  Of a parameter whose new value is being carried out it notifies the
  old one, in the name of the client that waits longest, which takes it for the end of its own command.
- `setCondition` of a status register replaces its events: one that was not read is lost when another
  bit of it changes; `*CLS` clears conditions and can thereby set a summary bit again.
- A new line has what is left of the one before executed without waiting for what is pending.
- The shutdown of the SCPI server deletes clients from the list it goes through.
- A session change that overtakes waiting modules may leave modules waiting for ever.
- The status module drops a notification of its checksum that comes while it reads the one
  before: what clients see stays old until the next one.
- Deactivation does not stop the machine that reads upper range values: it may go on
  asking servers of a module that is deactivated.
- A request refused by a server leaves the machine that sent it waiting for ever; the module
  signals an error and is not restarted by itself.
- `setmeaspulses` of SEM overwrites the start value a measurement with start and stop needs
  if the mode is changed while its set-up is under way.
- A stop that meets the last request of a start leaves the poll timer of SEM and SPM running
  with nothing to measure (`semspmmodulemeasprogram.cpp:763`).
- A client that stops the SFC module moves the machine of its deactivation (`sfcmodulemeasprogram.cpp:171`).
- `SIG_Ranging` is a `VfModuleComponent`, and its `setValue` emits no `sigValueChanged`, so the
  connection to `syncRanging` (`rangemodule.cpp:117`) never fires: the measurement program does
  not skip values while ranges change.
- An overload latched in a lower range is taken for one in the maximum range if a
  client, or a load at the limit, raised the range without a reset.  That the automatic stops only
  after a load the maximum range cannot take is therefore no property of the code.
- Without a range common to a group, the group follows channel 1 (`maxIndex` starts with 0),
  whether or not it is a member (`groupRange`).

## 5. Proofs

TLC checks the instances of section 4; TLAPS proves the following for **any** values of the
constants that satisfy the assumption of the module (`QueueAssumption`, `ManagerAssumption`,
`SourceAssumption`, ...: counts and bounds are naturals, tables have the right domains, `Off` is a
load point, aliases of ranges are finitely many).  The bounds are constants as well, so what is
proved holds for any number of changes, writes or refusals.  Each `...Proofs` module extends
the module it is about and states its inductive invariant (`IInv`) first; TLC checked each `IInv` on an instance before
it was proved.  Then comes a lemma per action, the lemma that `Next` keeps `IInv`, and the theorems.

**`IoQueueProofs`** - `TypeCorrect`, `QueueNeverStalls`, `GroupsFinishOnce`, `AnswersBelong`,
`GroupsRunToTheirEnd`, and the refinement `QueueIsFifo`.  `NeverStalls` alone is not inductive:
when a group ends, the queue is busy again only because the next group *has* a first transfer, and it
has because `canEnqueue` refuses empty groups (`NoEmptyGroupPending`).  That answers belong to the current
transfer needs a second invariant, `TransferInv`: ids are used once (`OldIds`), the queue waits for the transfer
before its position and those before it did not end the group (`CurrentTransfer`), and what the
device still works on after a disconnection is of a group that has not run to its end (`WorkInTime`).

**`ModuleManagerProofs`** - `TypeCorrect`, `LockAlwaysHasOwner`, `ModulesComeInSessionOrder`,
`PrepareTaskIsFree` (the `Q_ASSERT` of `startModule`), and the refinement `ManagerImplementsSessionSwitch`.
The argument: one module is on its way up at most and holds the lock (`OneAtATime`); a lock that is held has somebody who will
release it (`LockOwned`); calls are due one at a time (`CallsInTurn`, which needs that the first
entry of a file can be started: later ones are put back only while the lock is held); nothing is started while modules are destroyed
(`NothingMeanwhile`).  The order rests on what still waits being the *end* of the session file
(`WaitingInOrder`) and what runs the part before it (`StartedInOrder`).  Two theorems locate findings:
`ShutdownFirst` (with `~ServersMayFail`) and `NoSwitchWithSerialNumber` (with the serial number
known from the start) prove the properties that `session_undead` and `session_overtaken` violate,
so an unreachable server and a late serial number are the only ways there.

**`ExtSerialSourceProofs`** - `TypeCorrect`, `CurrentIsAlwaysOutput`, `ClosedMeansOff`, and
the refinement `SourceImplementsStatus`.  The invariant: each transaction in line is awaited under
an id of its own by the objects that sent it (`Awaited`); the last switch in line carries the load requested last
(`LastIsRequested`), which is why the switcher may take the load point from the request; and for
a client that waits (`Patience`) there is one switch in line at most, polls are counted only when it is through, and until then
the source is busy or has failed.  `afterResponses`, a recursive function over a line that is aborted, is
dealt with by an induction over a *set* of numbers (`UpTo`, from the well-foundedness of `<` and `WFMin`), which
the provers can do where they cannot instantiate an induction over a predicate.

**`RangeObsermaticProofs`** - `TypeCorrect`, `CountersAlwaysMatch`, `QuietIsSet`, and `StatusIsAlwaysFresh`.
The invariant: every range ever chosen exists (`RangesPossible`); both counters are the cardinalities
of the requests under way (`Counted`); the last range command in a channel's line is the range
set last (`LastCommandCounts`); whatever is sent is followed by a reading of the status (`StatusReadLast`).
That counters match whatever the order of answers is what `SIG_Ranging`, and with it every
measurement, depends on.

**`Sec1Proofs`** and **`SemSpmProofs`** - `TypeCorrect` for both and `StatusIsLeftAlone` hold whatever
interferes and whatever is refused.  `OnlyCompleteResults`, `SequencesEndWhole` and `ReadyIsFinal` have
the hypothesis `Undisturbed`: no `Interference`, no refused stop, and in `Sec1` no refused mode.  That is
what the runs assume too, and section 4 says what happens otherwise.  The invariants say which request may follow which in
the line (`Misplaced`), how far the set-up is ahead of its requests (`SettingUp`), that the calculators do what
the program believes or a stop is on its way (`Measuring`, `Stopping`), and where the end of a measurement still is
when the next one is set up (`ReadsInTime`, `Finishing`).  **`LineProofs`** holds what both need of a line of requests:
what taking the first and adding a last one does to its elements and their order.

**`ScpiProofs`** - `TypeCorrect`, `StatusTellsAll` and `AnswersAreSorted` hold in all circumstances,
`PendingHonest` as long as `Interference` has none of "repeat", "crosstalk", "bare" and "orphan" (`Dishonest`),
`AnswersWhole` as long as it has none of "overlap", "overtaken" and "drop" (`Careless`); section 4 says what
each of them does in the code, and that each does break its property.  A step of `Scpi` is a fold: over the commands of a line, the
components of a query, the events of a queue.  `FoldReaches` is the induction all of them share, over a set of
numbers again: if each step of a fold leads from `V[k - 1]` to `V[k]`, the fold ends in `V[n]`.  On
top of it there is one argument for every property: a set `W` of worlds that is closed under the primitive
changes (`Unmeasured`, `Commanded`, `Handles`: a status register is written, an event posted, a command ends, an RPC runs)
is closed under each handler, however these are composed of them.  What remains for a property is to show that of *its* `W`:
- `Good` is the type and, of each client, `TellsAll` (what `StatusByteTellsAll` says);
- `InOrder` relates two worlds, as `AnswersInOrder` does: queries only settle, and what is written now has
  nothing unsettled before it; the sorter's loop writes a prefix of what is settled;
- `Honest`: a name is pending exactly if a transaction of that name is stored or its removal is queued, once and in
  one of the two; RPCs under way are stored; a client waits only for something pending;
- `Whole`: each machine of a component runs or is about to, never both or twice; a task has
  counted each of its components once, and those it has counted have no machine that could count them again; whatever
  `INIT` asked for will come, and no `FETCH` behind it is about to start before it.  Its part `Entries` says that each
  component of a task has a sequence, and of `FETCH` that it has a value, waits for that of an `INIT`, or came
  early: only then an entry is empty.

The last part corrected the model twice: "overtaken" was not a circumstance of its own before the proof
asked for the order of the two starts, and `younger` (of which components a `FETCH` may take no earlier value) is
what was awaited when the query began *and still is*.  TLC checked `Honest` and `Whole` as
invariants of `scpi` too, and `Whole` also with every circumstance but the three of `Careless`.

Only model-checked:
- liveness (`EveryGroupFinishes`, `SessionGetsLoaded`, `EverythingEnds` of four modules, `Settles`,
  `ChangesArePublished`, `EveryQueryEnds`) - fairness and `ENABLED` are out of the provers' reach;
- `MeasProgram`: its invariants are about eighteen concrete machines, so an inductive
  invariant is a table of what is carried out in each of their states.

The remaining properties of the four violated runs are false, so there is nothing to prove.

## 6. Not modelled, and why

Within the modelled parts: wording of device commands, logging, JSON contents, the vein
entities a module shows, timing (a timeout is a step that may happen).  A handler of
`sigTransferGroupFinished` that enqueues again inside an abort, and a change of the queue's
device: no code does either.  The source manager's slots are one flag (`active`) of the
source so far.  A source whose state file says "on" starts with "off" by
`PersistentJsonState`, so `loadpointCurrent` starts off, whatever the source puts out.

Of the error calculator modules: the demo mode, energies and ratings, limits, units, finding
the reference inputs.  Of the measuring programs: DSP command lists, actual values, lists of modes and
phases, moving windows, the measurement of the SFC module, the loop of the base module over several
activists (each waits for the one before), and how corrections are computed.  After the loss of a server a
module is lost as well.

Of the SCPI module: syntax, texts of answers and the line "SRQ", catalogs and the XML of the interface, which
error it is, the set-up and shutdown of the server.  Of the vein interface: validators, meta data, the
RPC wrapper, and the parameters of the adjustment module that read a value before they answer a query.

Other components: section 1 names them, section 2 says when; formulas in floating point,
generated documents and thin wrappers stay out.
