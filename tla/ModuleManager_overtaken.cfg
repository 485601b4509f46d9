CONSTANTS
  meas = meas
  emob = emob
  status = status
  range = range
  source = source
  ble = ble
  ghost = ghost
  NoSession = NoSession
  Session <- MCSession
  Entry <- MCEntry
  Entries <- MCEntries
  HasFactory <- MCHasFactory
  Licensable <- MCLicensable
  Licensed <- MCLicensed
  Failing <- NoEntry
  ServersMayFail = FALSE
  SerialProvider = status
  SerialAtStart <- Unknown
  MaxChanges = 2
SPECIFICATION FairSpec
PROPERTIES NoSwitchWhileLoading
CHECK_DEADLOCK FALSE
