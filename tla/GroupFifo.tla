----------------------------- MODULE GroupFifo -----------------------------
(***************************************************************************)
(* What a user of the source module's I/O queue is promised, whatever the  *)
(* device does: a group of transfers handed over is either refused, which  *)
(* reports it finished at once, or it waits in line and is reported        *)
(* finished exactly once, in the order of acceptance.  A lost device       *)
(* finishes the whole line, still in order.                                *)
(***************************************************************************)
EXTENDS Naturals, Sequences, SequencesExt

CONSTANT Group            \* the groups of transfers users may create

VARIABLES
  line,                   \* accepted groups, oldest first
  done                    \* groups reported finished, in the order of the reports

fifoVars == <<line, done>>

Known == ToSet(line) \cup ToSet(done)

Init ==
  /\ line = <<>>
  /\ done = <<>>

Accept(g) ==
  /\ g \notin Known
  /\ line' = Append(line, g)
  /\ UNCHANGED done

Refuse(g) ==
  /\ g \notin Known
  /\ done' = Append(done, g)
  /\ UNCHANGED line

FinishOldest ==
  /\ line # <<>>
  /\ line' = Tail(line)
  /\ done' = Append(done, Head(line))

FinishAll ==
  /\ line' = <<>>
  /\ done' = done \o line

Next ==
  \/ \E g \in Group : Accept(g) \/ Refuse(g)
  \/ FinishOldest
  \/ FinishAll

Spec == Init /\ [][Next]_fifoVars
=============================================================================
