---------------------------- MODULE SourceStatus ----------------------------
(***************************************************************************)
(* What a client may rely on in the status of a source: a switch makes it  *)
(* busy until it is idle again or has failed, it is not idle before the    *)
(* switch is through, an error is shown until the next switch, and once    *)
(* the source is gone it stays away.                                       *)
(***************************************************************************)
VARIABLES
  shown,                \* "unknown", "idle", "busy", "failed" or "gone"
  switching             \* the source has not answered the switch yet

statusVars == <<shown, switching>>

Init == shown = "unknown" /\ switching = FALSE

Switch == shown # "gone" /\ shown' = "busy" /\ switching' \in BOOLEAN

Answer == switching /\ ~switching' /\ UNCHANGED shown

SwitchEnds ==
  /\ shown = "busy"
  /\ \/ shown' = "idle" /\ ~switching'
     \/ shown' = "failed" /\ (switching' => switching)

PollEnds ==
  /\ \/ shown = "unknown" /\ shown' = "idle"
     \/ shown \in {"unknown", "idle"} /\ shown' = "failed"
  /\ ~switching
  /\ UNCHANGED switching

Leave == shown' = "gone" /\ (switching' => switching)

Next == Switch \/ Answer \/ SwitchEnds \/ PollEnds \/ Leave

Spec == Init /\ [][Next]_statusVars
=============================================================================
