------------------------------- MODULE MCSec1 -------------------------------
(* Sec1 for TLC: the service stops the calculators, and sets their mode, when told to. *)
EXTENDS Sec1

AllButStopsAndModes == Request \ {"stopmeas", "SINGLEERRORMASTER", "CONTERRORMASTER"}
=============================================================================
