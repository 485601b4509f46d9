CONSTANTS
  Programs = {"power2"}
  Channels <- TwoChannels
  FreqOutputs <- OneOutput
  Ranges = 2
  Interference = {}
  MaxChanges = 1
  MaxInterrupts = 1
  MaxRefusals = 1
SPECIFICATION FairSpec
PROPERTIES ChangesArePublished
CHECK_DEADLOCK FALSE
