CONSTANTS
  g1 = g1
  g2 = g2
  g3 = g3
  g4 = g4
  NoIo = NoIo
  Group <- MCGroup
  TransferCount <- MCTransferCount
  ErrorBehavior <- MCErrorBehavior
  MaxPendingGroups = 2
SPECIFICATION FairSpec
INVARIANTS TypeOK NeverStalls AnswerBelongsToCurrentTransfer
PROPERTIES FinishesOnlyAtTheEnd EveryGroupFinishes ImplementsFifo
CHECK_DEADLOCK FALSE
