CONSTANTS
  low = low
  high = high
  clamp = clamp
  Unknown = Unknown
  ChannelCount = 2
  GroupList <- NoGroup
  Alias = {low, high, clamp}
  Limit <- MCLimit
  Type <- MCType
  Internal = {low, high}
  ClampRanges <- MCClampRanges
  Plugged = {2}
  ConfRange = low
  Level <- FineOrOver
  OverloadWrites = {FALSE}
  MaxLine = 2
  MaxChanges = 4
SPECIFICATION Spec
INVARIANT StoppedIsShown
