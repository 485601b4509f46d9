CONSTANTS
  meas = meas
  emob = emob
  status = status
  range = range
  source = source
  ble = ble
  ghost = ghost
  NoSession = NoSession
  Session <- MCSession
  Entry <- MCEntry
  Entries <- MCEntries
  HasFactory <- MCHasFactory
  Licensable <- MCLicensable
  Licensed <- MCLicensed
  Failing <- NoEntry
  ServersMayFail = TRUE
  SerialProvider = status
  SerialAtStart <- Known
  MaxChanges = 2
SPECIFICATION FairSpec
INVARIANTS StartOnlyAfterShutdown
CHECK_DEADLOCK FALSE
