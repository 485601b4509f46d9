CONSTANTS
  off = off
  low = low
  high = high
  Load <- MCLoad
  Off = off
  PollsAfterSwitch = 2
  DemoIo = TRUE
  TransactionId <- Ids
SPECIFICATION FairSpec
INVARIANTS TypeOK ClosedIsOff CurrentIsOutput
PROPERTIES EverythingEnds ImplementsSourceStatus
CHECK_DEADLOCK FALSE
