----------------------------- MODULE MCIoQueue -----------------------------
(* Four groups for IoQueue: one per error behaviour and an empty one. *)
EXTENDS IoQueue, TLC

CONSTANTS g1, g2, g3, g4

MCGroup == {g1, g2, g3, g4}
MCTransferCount == g1 :> 2 @@ g2 :> 2 @@ g3 :> 2 @@ g4 :> 0
MCErrorBehavior ==
  g1 :> "STOP_ON_ERROR" @@ g2 :> "STOP_ON_FIRST_OK" @@
  g3 :> "CONTINUE_ON_ERROR" @@ g4 :> "STOP_ON_ERROR"
=============================================================================
