-------------------------- MODULE ErrorCalculator --------------------------
(***************************************************************************)
(* A cascaded pair of error calculators as the SEC service offers it to    *)
(* the error modules (external: modelled from how Sec1 and SemSpm use it). *)
(* The master counts the pulses or milliseconds of a measurement, the      *)
(* slave the reference energy meanwhile.                                   *)
(*                                                                         *)
(* A module has one connection to the service, and both directions keep    *)
(* their order: the service carries out a request at the moment its answer *)
(* is handled, and an interrupt arrives at once; the module cannot tell    *)
(* any earlier moment from these.                                          *)
(***************************************************************************)

\* MTCNTfin as its reader must see it: nothing counted, a whole measurement, one cut off
\* by a stop, or one before the measurement now running.
FinalCount == {"zero", "complete", "partial", "stale"}

Calculator ==
  [phase : {"idle", "armed", "started", "done", "stopped"},
   mode : {"SINGLEERRORMASTER", "CONTERRORMASTER"},
   final : FinalCount,
   intBit : BOOLEAN,                       \* INTREG: no other interrupt until it is reset
   freed : BOOLEAN]

idleCalculator == [phase |-> "idle", mode |-> "SINGLEERRORMASTER", final |-> "zero",
                   intBit |-> FALSE, freed |-> FALSE]

counting(hw) == hw.phase \in {"armed", "started"}

\* What a request changes at the calculators.
carryOut(hw, request) ==
  CASE request \in {"SINGLEERRORMASTER", "CONTERRORMASTER"} -> [hw EXCEPT !.mode = request]
    [] request = "startmeasurement" ->
         [hw EXCEPT !.phase = "armed", !.final = IF @ = "zero" THEN @ ELSE "stale"]
    [] request = "stopmeas" ->
         [hw EXCEPT !.phase = "stopped", !.final = IF counting(hw) THEN "partial" ELSE @]
    [] request = "resetintregister" -> [hw EXCEPT !.intBit = FALSE]
    [] request = "freeecalcunits" -> [hw EXCEPT !.freed = TRUE]
    [] OTHER -> hw

\* The register STATUS.
statusBits(hw) ==
  CASE hw.phase = "armed" -> {"ARMED"}
    [] hw.phase = "started" -> {"STARTED"}
    [] hw.phase = "done" -> {"READY"}
    [] OTHER -> {}

firstPulse(hw) == [hw EXCEPT !.phase = "started"]

\* MTCount0: the master has counted down. In continuous mode it starts over.
countDown(hw) ==
  [hw EXCEPT !.final = "complete", !.intBit = TRUE,
             !.phase = IF hw.mode = "SINGLEERRORMASTER" THEN "done" ELSE @]
=============================================================================
