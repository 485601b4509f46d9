-------------------------- MODULE MCModuleManager --------------------------
(***************************************************************************)
(* Two session files over five entries: the status module both begin with, *)
(* a measuring module both have, a licensed and an unlicensed module and   *)
(* one without a plugin.                                                   *)
(***************************************************************************)
EXTENDS ModuleManager, TLC

CONSTANTS meas, emob, status, range, source, ble, ghost

MCSession == {meas, emob}
MCEntry == {status, range, source, ble, ghost}
MCEntries ==
  meas :> <<status, ble, range, source>> @@ emob :> <<status, source, ghost, range>>
MCHasFactory == MCEntry \ {ghost}
MCLicensable == {source, ble}
MCLicensed == {source}
Known == {TRUE}
Unknown == {FALSE}
NoEntry == {}
Either == BOOLEAN
MeasuringEntry == {range}
=============================================================================
