------------------------------ MODULE MCSemSpm ------------------------------
(* SemSpm for TLC: the service stops the calculators when told to. *)
EXTENDS SemSpm

AllButStops == Request \ {"stopmeas"}
=============================================================================
