CONSTANTS
  low = low
  high = high
  clamp = clamp
  Unknown = Unknown
  ChannelCount = 2
  GroupList <- OneGroup
  Alias = {low, high, clamp}
  Limit <- MCLimit
  Type <- MCType
  Internal = {low, high}
  ClampRanges <- MCClampRanges
  Plugged = {2}
  ConfRange = low
  Level <- MCLevel
  OverloadWrites = {TRUE, FALSE}
  MaxLine = 3
  MaxChanges = 2
SPECIFICATION FairSpec
INVARIANTS TypeOK CountersMatch QuietMeansSet
PROPERTIES StatusIsFresh Settles
