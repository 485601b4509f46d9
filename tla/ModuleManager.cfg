CONSTANTS
  meas = meas
  emob = emob
  status = status
  range = range
  source = source
  ble = ble
  ghost = ghost
  NoSession = NoSession
  Session <- MCSession
  Entry <- MCEntry
  Entries <- MCEntries
  HasFactory <- MCHasFactory
  Licensable <- MCLicensable
  Licensed <- MCLicensed
  Failing <- MeasuringEntry
  ServersMayFail = TRUE
  SerialProvider = status
  SerialAtStart <- Either
  MaxChanges = 3
SPECIFICATION FairSpec
INVARIANTS TypeOK SessionOrder LockHasOwner
PROPERTIES SessionGetsLoaded ImplementsSessionSwitch
CHECK_DEADLOCK FALSE
