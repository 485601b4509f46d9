------------------------- MODULE MCRangeObsermatic -------------------------
(* Ranges and loads for RangeObsermatic. *)
EXTENDS RangeObsermatic, TLC

CONSTANTS low, high, clamp

MCLimit == low :> 100 @@ high :> 1000 @@ clamp :> 500
MCType == low :> "direct" @@ high :> "direct" @@ clamp :> "clamp"

OneGroup == {Channel}

\* A clamp fits at the last channel only.
MCClampRanges == [c \in Channel |-> IF c = ChannelCount THEN {clamp} ELSE {}]

\* keeps the low range; needs the high one without overloading the low one; overloads
\* every range by its peak alone
MCLevel == {[rms |-> 50, peak |-> 97], [rms |-> 100, peak |-> 100], [rms |-> 900, peak |-> 2000]}

NoGroup == {}
FineOrOver == {[rms |-> 50, peak |-> 97], [rms |-> 900, peak |-> 2000]}
=============================================================================
