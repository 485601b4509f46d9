CONSTANTS
  Programs <- AllButPower2
  Channels <- TwoChannels
  FreqOutputs <- OneOutput
  Ranges = 2
  Interference = {}
  MaxChanges = 2
  MaxInterrupts = 1
  MaxRefusals = 1
SPECIFICATION FairSpec
INVARIANTS TypeOK ActivatedMeansDone DeactivationFrees
PROPERTIES ChangesArePublished EverythingEnds
CHECK_DEADLOCK FALSE
