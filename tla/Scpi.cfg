CONSTANTS
  net = net
  ser = ser
  volt = volt
  amp = amp
  par = par
  rival = rival
  future = future
  rpc = rpc
  Client = {net, ser}
  Serial = {ser}
  MaxConnections = 2
  Target = {par, rival, future, rpc}
  NameOf <- MCName
  EntityOf <- MCEntity
  Rpc = {rpc}
  Future = {future}
  Deferred = {rival}
  ParamValue = {0, 1}
  InitialValue = 0
  Component = {volt, amp}
  Bits = {"over"}
  SystemOf <- MCSystem
  ErrorQueueLength = 2
  Line <- MCLine
  Interference = {}
  MaxLines = 2
  MaxChanges = 1
SPECIFICATION FairSpec
INVARIANTS TypeOK AnswersAreWhole PendingIsHonest StatusByteTellsAll
PROPERTIES AnswersInOrder EveryQueryEnds
CHECK_DEADLOCK FALSE
