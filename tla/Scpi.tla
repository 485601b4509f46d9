-------------------------------- MODULE Scpi --------------------------------
(***************************************************************************)
(* The SCPI module: clients on the network and on the serial line send     *)
(* lines of commands and queries.  Some are answered at once; parameters   *)
(* and RPCs go to the modules as transactions, which notifications, errors *)
(* and results end; measuring queries run a small machine for each of      *)
(* their components, which waits for its next value.  A client's response  *)
(* sorter may hold answers back until those to earlier queries are there.  *)
(*                                                                         *)
(* The other side is modelled too: the parameters of the modules, which    *)
(* note the client of each transaction they take and name it in the next   *)
(* notification they send.  Everything runs on one event loop: what is     *)
(* posted is done in order, and sockets and ports are looked at again only *)
(* when nothing is left; several of them may be ready then.                *)
(*                                                                         *)
(* Not modelled: syntax and spelling of commands and answers, the line     *)
(* "SRQ", the shutdown of the server.                                      *)
(***************************************************************************)
EXTENDS ScpiStatus, Sequences, FiniteSets, SequencesExt

CONSTANTS
  Client,
  Serial,               \* those of them on the serial line
  MaxConnections,       \* m_nClients
  Target,               \* parameters and RPCs with a SCPI path
  NameOf,               \* ... the name of the component or signature of the RPC
  EntityOf,             \* ... the entity it belongs to
  Rpc,                  \* those of them that are RPCs
  Future,               \* parameters whose component does not exist yet
  Deferred,             \* parameters whose module carries out a new value before it notifies it
  ParamValue,           \* values of parameters; what clients write beyond them is invalid
  InitialValue,
  Component,            \* measured components
  SystemOf,             \* [Bits -> System]: the register a signal is configured for
  Line,                 \* the lines clients send: Seq(Command)
  Interference,         \* circumstances that may be met, see below
  MaxLines,             \* bound: lines sent
  MaxChanges            \* bound: parameters, signals and settings changed

\* Circumstances in which the module is known not to keep its promises.
\*   "repeat": a transaction begins while one of the same name is under way
\*   "outdated": a transaction is ignored because its parameter has changed since
\*   "crosstalk": an error arrives while several transactions of that entity are under way
\*   "overlap": a measuring query restarts what an earlier one has already got
\*   "overtaken": FETCH shares a machine that is to start before that of the INIT before it
\*   "drop": a failed query makes the serial client drop the answers behind it
\*   "unsort": sorting is switched off while answers are held back
\*   "bare": an RPC without parameters, which is no transaction
\*   "miscount": an RPC with the wrong number of parameters, which is not answered
\*   "orphan": a client is gone before its RPC has ended
Circumstance ==
  {"repeat", "outdated", "crosstalk", "overlap", "overtaken", "drop", "unsort", "bare", "miscount", "orphan"}

MeasureModel == {"MEASURE", "READ", "INIT", "FETCH"}  \* ScpiModelTypes; CONFIGURE does nothing

\* What is sent: commands that the module knows are complete, the rest is "wrong".
Command == UNION {ToSet(line) : line \in Line}
wellFormed(cmd) ==
  /\ cmd.query \in BOOLEAN
  /\ cmd.kind = "parameter" => cmd.target \in Target \ Rpc
  /\ cmd.kind = "rpc" => cmd.target \in Rpc /\ cmd.params \in {"right", "none", "wrong"}
  /\ cmd.kind = "measure" =>
       /\ cmd.node.model \in MeasureModel
       /\ cmd.node.components \in Seq(Component) /\ IsInjective(cmd.node.components)
       /\ cmd.query <=> cmd.node.model # "INIT"
  /\ cmd.kind = "*SRE" /\ ~cmd.query => cmd.value \subseteq StatusByteBit
  /\ cmd.kind = "*ESE" /\ ~cmd.query => cmd.value \in BOOLEAN
  /\ cmd.kind = "register" /\ ~cmd.query =>
       /\ cmd.system \in System /\ cmd.field \in {"ptr", "ntr", "enable"}
       /\ cmd.value \subseteq RegisterBits

ASSUME ScpiAssumption ==
  /\ \A line \in Line : line \in Seq(ToSet(line))
  /\ \A cmd \in Command : wellFormed(cmd)
  /\ Serial \subseteq Client /\ Rpc \subseteq Target
  /\ Future \cup Deferred \subseteq Target \ Rpc
  /\ InitialValue \in ParamValue
  /\ DOMAIN NameOf = Target /\ DOMAIN EntityOf = Target
  /\ SystemOf \in [Bits -> System]
  /\ Interference \subseteq Circumstance
  /\ MaxConnections \in Nat /\ MaxLines \in Nat /\ MaxChanges \in Nat

VARIABLES
  scpi,                 \* the module, see World
  sorting,              \* PAR_QueryResponseSortActive
  param,                \* the parameters of the modules and what they work on
  draining,             \* posted events are being handled
  lines, changes        \* counters of the bounds

vars == <<scpi, sorting, param, draining, lines, changes>>

None == "none"                                        \* no client: a null peerId
Gone == "gone"                                        \* a client that is not connected any more
isQuery(cmd) == cmd.query
\* The elements of a sequence that are in S, in their order
Only(s, S) == FoldLeft(LAMBDA kept, x : IF x \in S THEN Append(kept, x) ELSE kept, <<>>, s)
WrittenValue == {cmd.value : cmd \in {x \in Command : x.kind = "parameter"}}
Name == {NameOf[t] : t \in Target}
Parameter == Target \ (Rpc \cup Future)

\* A client.  active: m_activeCmd; pending: the keys of m_veinParamRpcTransactionHash; running: the
\* machines of its component sequences that wait for a value, in the order of
\* their signalLists; executing: m_pendingTransactions of its executors; sequences:
\* m_componentSequences; valued: those of them whose m_sAnswer is not empty; awaited:
\* (history) the components INIT was sent for and no value came since.  Of an executor's
\* transaction, got is what it has counted down for and blank the part of it whose entry
\* in the answer is empty; (history) early is what FETCH asks while there is no value
\* and none is awaited, younger what was awaited when it began and still is, and stale that
\* it got such a value from before.
Node == {cmd.node : cmd \in {x \in Command : x.kind = "measure"}}
Task == [id : Nat, node : Node, got : Seq(Component), blank : SUBSET Component,
         early : SUBSET Component, younger : SUBSET Component, stale : BOOLEAN]
ClientState ==
  [active : Seq(Command), pending : SUBSET Name, running : Seq(Component \X MeasureModel),
   executing : Seq(Task), sequences : SUBSET Component, valued : SUBSET Component,
   awaited : SUBSET Component, status : Status]
freshClient == [active |-> <<>>, pending |-> {}, running |-> <<>>, executing |-> <<>>,
                sequences |-> {}, valued |-> {}, awaited |-> {}, status |-> freshStatus]

\* query: what the ScpiTransactionIds issued so far stand for.  "open": in its client's
\* m_transactionsPending; else how it ended, and the answer has been written unless delayed.
Fate == {"open", "answered", "partly", "torn", "stale", "failed", "dropped", "gone"}

Transaction == [client : Client, target : Target, id : Nat]
Event ==
  [call : {"start"}, client : Client, component : Component, model : MeasureModel]
    \cup [call : {"remove"}, client : Client, name : Name]
    \cup [call : {"transaction"}, client : Client \cup {Gone}, target : Parameter,
          query : BOOLEAN, old : ParamValue, new : WrittenValue]
    \cup [call : {"notification"}, target : Parameter, peer : Client \cup {None, Gone},
          value : ParamValue]
    \cup [call : {"error"}, target : Parameter, peer : Client \cup {None, Gone}]

\* The module.  An id is 0 for a command, else it is that of a query there was.
World ==
  {w \in [connected : SUBSET Client, client : [Client -> ClientState],
          store : Seq(Transaction), rpcs : Seq(Transaction), posted : Seq(Event),
          query : Seq([client : Client, fate : Fate]), delayed : SUBSET Nat,
          met : SUBSET Circumstance] :
     /\ w.delayed \subseteq DOMAIN w.query
     /\ \A x \in ToSet(w.store) \cup ToSet(w.rpcs)
               \cup UNION {ToSet(w.client[c].executing) : c \in Client} :
          x.id \in 0..Len(w.query)}

Init ==
  /\ scpi = [connected |-> {}, client |-> [c \in Client |-> freshClient],
             store |-> <<>>,                          \* ScpiRpcTransactionStore, newest first
             rpcs |-> <<>>,                           \* RPCs under way
             posted |-> <<>>,                         \* events and queued calls
             query |-> <<>>,                          \* history of the queries
             delayed |-> {},                          \* m_transactionsFinished of all clients
             met |-> {}]                              \* history: circumstances met
  /\ sorting \in BOOLEAN
  /\ param = [t \in Parameter |-> [value |-> InitialValue,     \* m_vValue
                                      stored |-> InitialValue,    \* ... in the storage
                                      clients |-> <<>>,           \* m_clientIdList
                                      work |-> <<>>]]             \* values to be notified later
  /\ draining = FALSE
  /\ lines = 0
  /\ changes = 0

meet(w, circumstance) == [w EXCEPT !.met = @ \cup {circumstance}]
meetIf(w, condition, circumstance) == IF condition THEN meet(w, circumstance) ELSE w

-----------------------------------------------------------------------------
(* ScpiResponseSorter and handleCmdFinish *)

undecided(w, c) == {i \in DOMAIN w.query : w.query[i].client = c /\ w.query[i].fate = "open"}
heldBack(w, c) == {i \in w.delayed : w.query[i].client = c}

\* Faulty: finished answers are written whatever is still pending.
createAccumulatedResponseAll(w, c) == [w EXCEPT !.delayed = @ \ heldBack(w, c)]

\* What is finished is written up to the first query pending.  A null answer is
\* skipped; the serial client leaves with it and what follows is dropped.
createAccumulatedResponse(w, c) ==
  LET due == {i \in heldBack(w, c) : \A j \in undecided(w, c) : i < j}
      dropped == {i \in due : /\ c \in Serial /\ w.query[i].fate # "failed"
                              /\ \E j \in due : j < i /\ w.query[j].fate = "failed"}
  IN meetIf([w EXCEPT !.delayed = @ \ due,
                      !.query = [i \in DOMAIN @ |->
                        IF i \in dropped THEN [@[i] EXCEPT !.fate = "dropped"] ELSE @[i]]],
            dropped # {}, "drop")

\* Commands have the invalid id 0 and their answers are null.
handleCmdFinish(w, c, id, answer) ==
  IF id = 0 \/ id \notin undecided(w, c) THEN w
  ELSE LET taken == [w EXCEPT !.query[id].fate = answer]
       IN IF sorting THEN createAccumulatedResponse([taken EXCEPT !.delayed = @ \cup {id}], c)
          ELSE taken

addEventErrorWithResponse(w, c, id) ==
  handleCmdFinish([w EXCEPT !.client[c].status = addEventError(@)], c, id, "failed")

-----------------------------------------------------------------------------
(* Transactions: parameters and RPCs *)

post(w, event) == [w EXCEPT !.posted = Append(@, event)]

addTransaction(w, c, target, id) ==
  [meetIf(w, NameOf[target] \in w.client[c].pending, "repeat")
     EXCEPT !.store = <<[client |-> c, target |-> target, id |-> id]>> \o @,
            !.client[c].pending = @ \cup {NameOf[target]}]

\* The transaction carries the value stored at this time.
executeParameter(w, c, cmd, id) ==
  IF cmd.target \notin Future
  THEN post(addTransaction(w, c, cmd.target, id),
            [call |-> "transaction", client |-> c, target |-> cmd.target, query |-> cmd.query,
             old |-> param[cmd.target].stored, new |-> cmd.value])
  ELSE IF isQuery(cmd) THEN handleCmdFinish(w, c, id, "answered")
  ELSE addEventErrorWithResponse(w, c, id)

executeScpiRpc(w, c, cmd, id) ==
  LET invoked == [w EXCEPT !.rpcs = Append(@, [client |-> c, target |-> cmd.target, id |-> id])]
  IN CASE cmd.params = "right" -> addTransaction(invoked, c, cmd.target, id)
       [] cmd.params = "none" -> meet(invoked, "bare")
       [] cmd.params = "wrong" -> meetIf(w, isQuery(cmd), "miscount")

postRemove(w, c, name) == post(w, [call |-> "remove", client |-> c, name |-> name])

\* The transactions a notification may end: those of its peer, or of all if it has none
transactionsOf(w, target, peer) ==
  {i \in DOMAIN w.store : w.store[i].target = target /\ peer \in {None, w.store[i].client}}

\* handleComponentData: the newest of them ends.
handleComponentData(w, target, peer) ==
  LET found == transactionsOf(w, target, peer)
      newest == CHOOSE i \in found : \A j \in found : i <= j
      info == w.store[newest]
  IN IF found = {} THEN w
     ELSE handleCmdFinish(postRemove([w EXCEPT !.store = RemoveAt(@, newest)],
                                     info.client, NameOf[target]),
                          info.client, info.id, "answered")

\* handleErrorData: some transaction of the entity ends, whose ever it is, and is
\* left in the store when its name is not the one that is to be removed.
ofEntity(w, target) == {i \in DOMAIN w.store : EntityOf[w.store[i].target] = EntityOf[target]}
handleErrorData(w, target, peer, i) ==
  LET info == w.store[i]
      sameName == NameOf[info.target] = NameOf[target]
      meant == {k \in DOMAIN w.store : w.store[k].target = target /\ w.store[k].client = peer}
      removed == IF sameName THEN [w EXCEPT !.store = RemoveAt(@, i)] ELSE w
  IN addEventErrorWithResponse(
       meetIf(postRemove(removed, info.client, NameOf[target]),
              ofEntity(w, target) # meant, "crosstalk"),
       info.client, info.id)

-----------------------------------------------------------------------------
(* Measuring: component sequences and executors *)

concerns(transaction, comp, model) ==
  transaction.node.model = model /\ comp \in ToSet(transaction.node.components)

\* The answer written when all is counted down: "torn" if an entry is missing or is empty
\* for another reason than that FETCH came early, "partly" if one is empty for that reason.
contents(t) ==
  CASE ToSet(t.got) # ToSet(t.node.components) \/ ~(t.blank \subseteq t.early) -> "torn"
    [] t.stale -> "stale"
    [] t.blank # {} -> "partly"
    [] OTHER -> "answered"

\* onSingleScpiQueryDone of every executor connected to a sequence, with its m_sAnswer
onSingleScpiQueryDone(w, c, comp, model) ==
  LET count(t) == IF ~concerns(t, comp, model) THEN t
                  ELSE [t EXCEPT !.got = Append(@, comp),
                                 !.blank = @ \cup ({comp} \ w.client[c].valued),
                                 !.stale = @ \/ comp \in t.younger]
      counted == [i \in DOMAIN w.client[c].executing |-> count(w.client[c].executing[i])]
      complete == {t \in ToSet(counted) : Len(t.got) = Len(t.node.components)}
  IN FoldLeft(LAMBDA v, t : handleCmdFinish(v, c, t.id, contents(t)),
              [w EXCEPT !.client[c].executing = Only(counted, ToSet(counted) \ complete)],
              Only(counted, complete))

start(c, comp, model) == [call |-> "start", client |-> c, component |-> comp, model |-> model]

\* Faulty: one machine is enough for a component.
startSequenceOnce(w, c, comp, model) ==
  IF \E m \in MeasureModel : <<comp, m>> \in ToSet(w.client[c].running) THEN w
  ELSE post(w, start(c, comp, model))

\* execute: start the machine of a component's sequence unless it runs or is started.
startSequence(w, c, comp, model) ==
  IF start(c, comp, model) \in ToSet(w.posted) \/ <<comp, model>> \in ToSet(w.client[c].running)
  THEN w ELSE post(w, start(c, comp, model))

\* getComponentSequence: an executor's constructor creates the sequences not there yet.
getComponentSequences(w, c, node) ==
  [w EXCEPT !.client[c].sequences = @ \cup ToSet(node.components)]

\* TransactionData; FETCH is early for a component without a value when none is awaited.
newTask(client, node, id) ==
  [id |-> id, node |-> node, got |-> <<>>, blank |-> {},
   early |-> {comp \in ToSet(node.components) :
                node.model = "FETCH" /\ comp \notin client.valued \cup client.awaited},
   younger |-> client.awaited, stale |-> FALSE]

\* ScpiClientExecutorMeasure and its executeScpi.  That INIT is done shows nowhere.
executeMeasure(w, c, node, id) ==
  LET restarted == \E t \in ToSet(w.client[c].executing) :
                     /\ t.node.model = node.model
                     /\ ToSet(t.got) \cap ToSet(node.components) # {}
      overtaken == \E comp \in ToSet(node.components), i, j \in DOMAIN w.posted :
                     /\ node.model = "FETCH" /\ i < j
                     /\ w.posted[i] = start(c, comp, "FETCH")
                     /\ w.posted[j] = start(c, comp, "INIT")
      known == getComponentSequences(w, c, node)
      begun == IF node.model = "INIT"
               THEN [known EXCEPT !.client[c].awaited = @ \cup ToSet(node.components)]
               ELSE [known EXCEPT !.client[c].executing =
                       Append(@, newTask(w.client[c], node, id))]
  IN FoldLeft(LAMBDA v, comp : startSequence(v, c, comp, node.model),
              meetIf(meetIf(begun, restarted, "overlap"), overtaken, "overtaken"),
              node.components)

\* Faulty: FETCH does not wait for a value INIT asked for.
enterInitialStateAtOnce(w, c, comp, model) ==
  IF model = "FETCH" THEN onSingleScpiQueryDone(w, c, comp, model)
  ELSE [w EXCEPT !.client[c].running = Append(@, <<comp, model>>)]

\* The first state of a machine: all wait for a value except FETCH without INIT.
enterInitialState(w, c, comp, model) ==
  IF model = "FETCH" /\ <<comp, "INIT">> \notin ToSet(w.client[c].running)
  THEN onSingleScpiQueryDone(w, c, comp, model)
  ELSE [w EXCEPT !.client[c].running = Append(@, <<comp, model>>)]

\* updatePendingMeasureSequences and receiveMeasureValue: a component without a sequence
\* has nowhere to keep its value.
receiveMeasureValue(w, c, comp) ==
  LET running == w.client[c].running
      tasks == w.client[c].executing
      done == {machine \in ToSet(running) : machine[1] = comp}
      waiting == {machine \in done : machine[2] # "INIT"}
      supplied(t) == [t EXCEPT !.younger = @ \ {comp}]
      received == [w EXCEPT !.client[c].awaited = @ \ {comp},
                            !.client[c].valued = @ \cup ({comp} \cap w.client[c].sequences),
                            !.client[c].running = Only(running, ToSet(running) \ done),
                            !.client[c].executing = [i \in DOMAIN tasks |-> supplied(tasks[i])]]
  IN FoldLeft(LAMBDA v, machine : onSingleScpiQueryDone(v, c, comp, machine[2]),
              received, Only(running, waiting))

-----------------------------------------------------------------------------
(* Commands *)

\* Standard commands and registers act on the status and are answered at once.
withStatus(w, c, st, id) == handleCmdFinish([w EXCEPT !.client[c].status = st], c, id, "answered")
executeStatus(w, c, cmd, id) ==
  LET st == w.client[c].status
  IN withStatus(w, c,
       CASE cmd.kind = "*OPC" /\ ~cmd.query -> operationComplete(st)
         [] cmd.kind = "*CLS" -> ClearStatus(st)
         [] cmd.kind = "*SRE" /\ ~cmd.query -> SetSRE(st, cmd.value)
         [] cmd.kind = "*ESE" /\ ~cmd.query -> SetESE(st, cmd.value)
         [] cmd.kind = "register" /\ ~cmd.query -> writeRegister(st, cmd.system, cmd.field, cmd.value)
         [] cmd.kind = "error" -> popScpiError(st)
         [] cmd.kind = "allErrors" -> popAllErrors(st)
         [] OTHER -> st,                              \* a query of what is there
       id)

executeCmd(w, c, cmd) ==
  LET id == IF isQuery(cmd) THEN Len(w.query) + 1 ELSE 0
      v == IF isQuery(cmd) THEN [w EXCEPT !.query = Append(@, [client |-> c, fate |-> "open"])]
           ELSE w
  IN CASE cmd.kind = "parameter" -> executeParameter(v, c, cmd, id)
       [] cmd.kind = "rpc" -> executeScpiRpc(v, c, cmd, id)
       [] cmd.kind = "measure" -> executeMeasure(v, c, cmd.node, id)
       [] cmd.kind = "wrong" -> addEventErrorWithResponse(v, c, id)
       [] OTHER -> executeStatus(v, c, cmd, id)

\* Commands of the line are executed until one leaves a transaction pending.
executeNext(w, c, cmd) ==
  IF w.client[c].pending = {} THEN executeCmd(w, c, cmd)
  ELSE [w EXCEPT !.client[c].active = Append(@, cmd)]
execCmd(w, c) ==
  LET active == w.client[c].active
      first == executeCmd([w EXCEPT !.client[c].active = <<>>], c, Head(active))
  IN IF active = <<>> THEN w
     ELSE FoldLeft(LAMBDA v, cmd : executeNext(v, c, cmd), first, Tail(active))

\* A new line has what is left of the one before executed without any waiting.
execPendingCmds(w, c, line) ==
  LET rest == FoldLeft(LAMBDA v, cmd : executeCmd(v, c, cmd),
                       [w EXCEPT !.client[c].active = <<>>], w.client[c].active)
  IN execCmd([rest EXCEPT !.client[c].active = line], c)

-----------------------------------------------------------------------------
(* Parameters of the modules *)

\* A parameter that takes a value, and the notification of it, which names the
\* client waiting longest, or an error that does.
firstClient(p) == IF p.clients = <<>> THEN None ELSE Head(p.clients)
restOfClients(p) == IF p.clients = <<>> THEN <<>> ELSE Tail(p.clients)
setValue(p, v) == [p EXCEPT !.value = v, !.clients = restOfClients(p)]
notification(t, p, v) == [call |-> "notification", target |-> t, peer |-> firstClient(p), value |-> v]
setError(p) == [p EXCEPT !.clients = restOfClients(p)]
errorNotification(t, p) == [call |-> "error", target |-> t, peer |-> firstClient(p)]

\* A step that meets a circumstance is taken only if that is allowed.
become(w) == w.met \subseteq Interference /\ scpi' = w

\* The parameter of t sends the value v, or an error.
notify(w, t, p, v) ==
  /\ param' = [param EXCEPT ![t] = setValue(p, v)]
  /\ become(post(w, notification(t, p, v)))
refuse(w, t, p) ==
  /\ param' = [param EXCEPT ![t] = setError(p)]
  /\ become(post(w, errorNotification(t, p)))

\* VfEventSytemModuleParam and veinTransaction: taken if the old value is the one stored.
\* A query has the old value set again at once.
handleTransaction(w, e) ==
  LET t == e.target
      outdated == e.old # param[t].stored
      value == IF e.query THEN e.old ELSE e.new
      taken == [param[t] EXCEPT !.clients = Append(@, e.client)]
  IN IF outdated THEN become(meet(w, "outdated")) /\ UNCHANGED param
     ELSE IF value \notin ParamValue THEN refuse(w, t, taken)
     ELSE IF e.query \/ t \notin Deferred THEN notify(w, t, taken, value)
     ELSE /\ param' = [param EXCEPT ![t] = [taken EXCEPT !.work = Append(@, value)]]
          /\ become(w)

-----------------------------------------------------------------------------
(* Events *)

\* A client connects; none does any more when all lines have been sent.
Connect(c) ==
  /\ c \notin scpi.connected
  /\ lines < MaxLines
  /\ c \in Serial \/ Cardinality(scpi.connected) < MaxConnections
  /\ scpi' = [scpi EXCEPT !.connected = @ \cup {c}, !.client[c] = freshClient]
  /\ UNCHANGED <<sorting, param, draining, lines, changes>>

\* Faulty: the store is not told that a client is gone.
ofOthersAndGone(w, c) == w.store

\* removeAllRpcsInfo for the transactions of a client
ofOthers(w, c) == Only(w.store, {info \in ToSet(w.store) : info.client # c})

\* deleteNetClient: its transactions go with it, and the calls queued for it.
Disconnect(c) ==
  LET remaining == {e \in ToSet(scpi.posted) : e.call \in {"start", "remove"} => e.client # c}
      nobodys(e) == IF e.call = "transaction" /\ e.client = c THEN [e EXCEPT !.client = Gone]
                    ELSE IF e.call \in {"notification", "error"} /\ e.peer = c
                    THEN [e EXCEPT !.peer = Gone] ELSE e
      ended(q) == IF q.client = c /\ q.fate = "open" THEN [q EXCEPT !.fate = "gone"] ELSE q
      orphan == \E r \in ToSet(scpi.rpcs) : r.client = c
      posted == Only(scpi.posted, remaining)
  IN /\ c \in scpi.connected
     /\ become(meetIf(
          [scpi EXCEPT !.connected = @ \ {c}, !.client[c] = freshClient,
                       !.store = ofOthers(scpi, c),
                       !.posted = [k \in DOMAIN posted |-> nobodys(posted[k])],
                       !.query = [k \in DOMAIN @ |-> ended(@[k])],
                       !.delayed = @ \ heldBack(scpi, c)],
          orphan, "orphan"))
     /\ param' = [t \in DOMAIN param |->
          [param[t] EXCEPT !.clients = [k \in DOMAIN @ |-> IF @[k] = c THEN Gone ELSE @[k]]]]
     /\ draining' = (draining /\ posted # <<>>)
     /\ UNCHANGED <<sorting, lines, changes>>

\* cmdInput of a client whose socket or port is ready
Input(c, line) ==
  /\ ~draining
  /\ c \in scpi.connected
  /\ lines < MaxLines
  /\ lines' = lines + 1
  /\ become(execPendingCmds(scpi, c, line))
  /\ UNCHANGED <<sorting, param, draining, changes>>

\* The event loop handles what was posted, whatever is posted meanwhile included: calls of
\* removeVeinParamRpcTransactionInfo, starts of machines, transactions and notifications.
PostedEvent ==
  /\ scpi.posted # <<>>
  /\ LET e == Head(scpi.posted)
         w == [scpi EXCEPT !.posted = Tail(@)]
     IN \/ /\ e.call = "start"
           /\ become(enterInitialState(w, e.client, e.component, e.model))
           /\ UNCHANGED param
        \/ /\ e.call = "remove"
           /\ become(execCmd([w EXCEPT !.client[e.client].pending = @ \ {e.name}], e.client))
           /\ UNCHANGED param
        \/ e.call = "transaction" /\ handleTransaction(w, e)
        \/ /\ e.call = "notification"
           /\ param' = [param EXCEPT ![e.target].stored = e.value]
           /\ become(handleComponentData(w, e.target, e.peer))
        \/ /\ e.call = "error"
           /\ IF ofEntity(w, e.target) = {} THEN become(w)
              ELSE \E i \in ofEntity(w, e.target) : become(handleErrorData(w, e.target, e.peer, i))
           /\ UNCHANGED param
  /\ draining' = (scpi'.posted # <<>>)
  /\ UNCHANGED <<sorting, lines, changes>>

\* A module has done what a deferred parameter asked for, or failed.
WorkDone(t) ==
  /\ ~draining
  /\ param[t].work # <<>>
  /\ LET p == [param[t] EXCEPT !.work = Tail(@)]
     IN notify(scpi, t, p, Head(param[t].work)) \/ refuse(scpi, t, p)
  /\ UNCHANGED <<sorting, draining, lines, changes>>

\* handleRpcFinish
RpcFinished(i, ok) ==
  LET r == scpi.rpcs[i]
      others == ToSet(scpi.store) \ {r}
      w == postRemove([scpi EXCEPT !.rpcs = RemoveAt(@, i), !.store = Only(@, others)],
                      r.client, NameOf[r.target])
  IN /\ become(IF r.id # 0 \/ ok THEN handleCmdFinish(w, r.client, r.id, "answered")
               ELSE addEventErrorWithResponse(w, r.client, r.id))
     /\ UNCHANGED <<sorting, param, draining, lines, changes>>

\* A module sets its parameter for a reason of its own, ...
Changed(t, v) ==
  /\ ~draining
  /\ changes < MaxChanges
  /\ changes' = changes + 1
  /\ notify(scpi, t, param[t], v)
  /\ UNCHANGED <<sorting, draining, lines>>

\* ... a measured component has a new value, ...
Value(comp) ==
  /\ become(FoldLeft(LAMBDA w, c : receiveMeasureValue(w, c, comp), scpi,
                     SetToSeq(scpi.connected)))
  /\ UNCHANGED <<sorting, param, draining, lines, changes>>

\* ... or a component a status bit is connected to (cSignalConnectionDelegate).
Signal(bit, on) ==
  /\ changes < MaxChanges
  /\ changes' = changes + 1
  /\ scpi' = [scpi EXCEPT !.client = [c \in Client |->
                IF c \notin scpi.connected THEN scpi.client[c]
                ELSE [scpi.client[c] EXCEPT !.status = SetConditionBit(@, SystemOf[bit], bit, on)]]]
  /\ UNCHANGED <<sorting, param, draining, lines>>

\* onSortQueryResponseChange
SortingChanged ==
  /\ scpi.delayed = {} \/ "unsort" \in Interference
  /\ changes < MaxChanges
  /\ changes' = changes + 1
  /\ sorting' = ~sorting
  /\ UNCHANGED <<scpi, param, draining, lines>>

-----------------------------------------------------------------------------
ModuleWorks == \E t \in DOMAIN param : WorkDone(t)
RpcEnds == \E i \in DOMAIN scpi.rpcs, ok \in BOOLEAN : RpcFinished(i, ok)

Next ==
  \/ \E c \in Client : Connect(c) \/ Disconnect(c) \/ \E line \in Line : Input(c, line)
  \/ PostedEvent
  \/ ModuleWorks
  \/ RpcEnds
  \/ \E t \in DOMAIN param, v \in ParamValue : Changed(t, v)
  \/ \E comp \in Component : Value(comp)
  \/ \E bit \in Bits, on \in BOOLEAN : Signal(bit, on)
  \/ SortingChanged

Spec == Init /\ [][Next]_vars

\* Weak fairness with what enables the actions written out: the event loop runs, modules end
\* some of their work and RPCs, and a component somebody waits for gets a new value.
working == scpi.rpcs # <<>> \/ \E t \in DOMAIN param : param[t].work # <<>>
awaited(comp) ==
  \E c \in scpi.connected : \E machine \in ToSet(scpi.client[c].running) : machine[1] = comp
AwaitedValue == \E comp \in Component : awaited(comp) /\ Value(comp)
FairSpec ==
  /\ Spec
  /\ []<>(scpi.posted = <<>>) \/ []<><<PostedEvent>>_vars
  /\ []<>~working \/ []<><<ModuleWorks \/ RpcEnds>>_vars
  /\ []<>(\A comp \in Component : ~awaited(comp)) \/ []<><<AwaitedValue>>_vars

-----------------------------------------------------------------------------
(* Properties *)

TypeOK ==
  /\ scpi \in World
  /\ param \in [Parameter -> [value : ParamValue, stored : ParamValue,
                             clients : Seq(Client \cup {Gone}), work : Seq(ParamValue)]]
  /\ sorting \in BOOLEAN /\ draining \in BOOLEAN
  /\ lines \in 0..MaxLines /\ changes \in 0..MaxChanges

\* Queries nothing more is to be written for, and those whose answer was written
settled(w) == {i \in DOMAIN w.query : w.query[i].fate # "open"} \ w.delayed
written(w) == {i \in settled(w) : w.query[i].fate \in {"answered", "partly", "torn", "stale"}}

\* While sorting is on, an answer is written only when all queries its client sent before
\* are settled: answered, failed or written in the same step, whatever order parameters,
\* RPCs and measured values end them in (createAccumulatedResponse).
AnswersInOrder ==
  [][ sorting => \A i \in written(scpi') \ written(scpi) : \A j \in 1..(i - 1) :
        scpi'.query[j].client = scpi'.query[i].client => j \in settled(scpi') ]_vars

\* The answer to a measuring query has an entry for each of its components.  The entry is a
\* value, and for FETCH one younger than the INIT before it, whichever machines are shared
\* with other queries of the client; it is empty only where FETCH was sent while the client
\* had no value of that component and awaited none from INIT (fetchSync).  No answer is
\* dropped (executors, component sequences, serial client).
AnswersAreWhole ==
  \A i \in DOMAIN scpi.query : scpi.query[i].fate \notin {"torn", "stale", "dropped"}

\* What a client believes to be pending, which *OPC? tells and which holds back the rest of
\* its line, is what the module's store holds for it or what a queued call is about to remove;
\* the store, whose entries point to clients, holds nothing of a client that is gone; and the
\* rest of a line is not forgotten: commands wait only behind something pending
\* (m_veinParamRpcTransactionHash, ScpiRpcTransactionStore, execCmd).
PendingIsHonest ==
  /\ \A c \in scpi.connected :
       /\ scpi.client[c].pending =
            {NameOf[info.target] : info \in {x \in ToSet(scpi.store) : x.client = c}}
              \cup {x.name : x \in {y \in ToSet(scpi.posted) : y.call = "remove" /\ y.client = c}}
       /\ scpi.client[c].active # <<>> => scpi.client[c].pending # {}
  /\ \A info \in ToSet(scpi.store) : info.client \in scpi.connected

\* The status byte tells of errors while there are any and of no others, of an enabled
\* event of the standard register, and requests service while an enabled bit is set, in
\* whatever order errors, *CLS, *SRE, *ESE and the signals of the modules come.
StatusByteTellsAll ==
  \A c \in scpi.connected :
    LET st == scpi.client[c].status
    IN /\ "error" \in st.stb <=> st.errors > 0
       /\ st.esr /\ st.ese => "esb" \in st.stb
       /\ (st.stb \cap st.sre) \ {"rqs"} # {} => "rqs" \in st.stb

\* Every query is settled in the end: answered, failed, or given up with its client
\* (nothing waits for an answer that cannot come; nothing stays in the sorter).
EveryQueryEnds == []<>(settled(scpi) = DOMAIN scpi.query)
=============================================================================
