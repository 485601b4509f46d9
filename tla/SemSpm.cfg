CONSTANTS
  Interference = {}
  Refusable <- AllButStops
  MaxLine = 2
  MaxWrites = 6
  MaxRefusals = 1
SPECIFICATION FairSpec
INVARIANTS TypeOK ReadyMeansFinal
PROPERTIES EverythingEnds
CHECK_DEADLOCK FALSE
