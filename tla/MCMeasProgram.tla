---------------------------- MODULE MCMeasProgram ----------------------------
(* MeasProgram for TLC. *)
EXTENDS MeasProgram

TwoChannels == {"m0", "m3"}
OneOutput == {"fo0"}
AllButPower2 ==
  {"rms", "dft", "fft", "thdn", "osci", "periodaverage", "reference", "range", "dspsuper",
   "power1", "status", "mode", "rangechannel", "obsermatic", "adjustment",
   "referencechannel", "referenceadjust", "sfc"}
=============================================================================
