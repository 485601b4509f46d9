CONSTANTS
  Counts = {1, 2}
  StoredMax = 1
  Interference = {}
  Refusable <- AllButStopsAndModes
  MaxLine = 2
  MaxResults = 2
  MaxWrites = 4
  MaxRefusals = 1
SPECIFICATION FairSpec
CHECK_DEADLOCK FALSE
INVARIANTS TypeOK ResultsAreComplete
PROPERTIES StatusRests SequencesAreWhole EverythingEnds
