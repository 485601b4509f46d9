----------------------------- MODULE ScpiStatus -----------------------------
(***************************************************************************)
(* The status reporting of one SCPI client: the registers questionable,    *)
(* operation and operation measure (cSCPIStatus), of which the last is     *)
(* cascaded into the one before, and below them status byte, standard      *)
(* event status register and error queue of IEEE 488.2 (cIEEE4882).        *)
(* Operators on a record; a register is the set of its bits.               *)
(*                                                                         *)
(* Not modelled: which error it is, the line "SRQ" a client is sent.       *)
(***************************************************************************)
EXTENDS Naturals

CONSTANTS
  Bits,                 \* condition bits with a signal of a module (StatusBitDescriptor)
  ErrorQueueLength      \* getErrorQueueLength()

ASSUME StatusAssumption == ErrorQueueLength \in Nat \ {0}

System == {"ques", "oper", "operMeas"}
RegisterBits == Bits \cup {"meas"}         \* "meas": OperationMeasureSummary
StatusByteBit == {"error", "ques", "esb", "rqs", "oper"}

Register == [cond : SUBSET RegisterBits, event : SUBSET RegisterBits, ptr : SUBSET RegisterBits,
             ntr : SUBSET RegisterBits, enable : SUBSET RegisterBits]
Status == [system : [System -> Register], stb : SUBSET StatusByteBit, sre : SUBSET StatusByteBit,
           esr : BOOLEAN, ese : BOOLEAN, errors : 0..ErrorQueueLength]

noBits == [cond |-> {}, event |-> {}, ptr |-> {}, ntr |-> {}, enable |-> {}]
freshStatus == [system |-> [s \in System |-> noBits], stb |-> {}, sre |-> {}, esr |-> FALSE,
                ese |-> FALSE, errors |-> 0]

\* An enabled bit brings the request for service; nothing but a new value takes it away.
SetSTB(st, stb) ==
  [st EXCEPT !.stb = IF (stb \cap st.sre) \ {"rqs"} # {} THEN stb \cup {"rqs"} ELSE stb]

\* The event of a register whose condition changes, and what becomes of its summary.
newEvent(reg, cond) ==
  LET changed == (reg.cond \ cond) \cup (cond \ reg.cond)
  IN changed \cap ((reg.ptr \cap cond) \cup (reg.ntr \ cond))
fires(reg, cond) == newEvent(reg, cond) \cap reg.enable # {}
entered(st, s, cond) ==
  LET reg == st.system[s]
  IN [st EXCEPT !.system[s] = [reg EXCEPT !.cond = cond, !.event = newEvent(reg, cond)]]

\* setCondition: of the registers that end in the status byte, ...
setByteCondition(st, s, cond) ==
  LET new == entered(st, s, cond)
  IN IF fires(st.system[s], cond) THEN SetSTB(new, new.stb \cup {s}) ELSE new

\* ... and of the one whose summary is a condition bit of another.
setMeasCondition(st, cond) ==
  LET reg == st.system.operMeas
      oper == st.system.oper.cond
      new == entered(st, "operMeas", cond)
  IN IF ~fires(reg, cond) THEN new
     ELSE setByteCondition(new, "oper",
                           IF cond \ reg.cond # {} THEN oper \cup {"meas"} ELSE oper \ {"meas"})

setCondition(st, s, cond) ==
  IF s = "operMeas" THEN setMeasCondition(st, cond) ELSE setByteCondition(st, s, cond)

SetConditionBit(st, s, bit, on) ==
  LET cond == st.system[s].cond
  IN setCondition(st, s, IF on THEN cond \cup {bit} ELSE cond \ {bit})

SetESR(st, esr) ==
  LET new == [st EXCEPT !.esr = esr]
  IN IF esr /\ new.ese THEN SetSTB(new, new.stb \cup {"esb"}) ELSE new

\* Faulty: enabling does not look at what has happened.
SetESEOnly(st, ese) == [st EXCEPT !.ese = ese]

\* The enable register of the standard events: one that has happened counts as well.
SetESE(st, ese) == SetESR([st EXCEPT !.ese = ese], st.esr)
\* The enable register of the status byte itself
SetSRE(st, sre) == SetSTB([st EXCEPT !.sre = sre], st.stb)

\* *OPC: what is pending is not looked at.
operationComplete(st) == SetESR(st, TRUE)

\* Faulty: the queue grows.
addEventErrorAlways(st) == [SetSTB(st, st.stb \cup {"error"}) EXCEPT !.errors = @ + 1]

\* When the queue is full its last entry becomes the overflow.
addEventError(st) ==
  [SetSTB(st, st.stb \cup {"error"}) EXCEPT
     !.errors = IF @ = ErrorQueueLength THEN @ ELSE @ + 1]

popScpiError(st) ==
  IF st.errors = 1 THEN SetSTB([st EXCEPT !.errors = 0], st.stb \ {"error"})
  ELSE [st EXCEPT !.errors = IF @ = 0 THEN 0 ELSE @ - 1]

\* SYSTEM:ERROR:ALL?
popAllErrors(st) ==
  IF st.errors = 0 THEN st ELSE SetSTB([st EXCEPT !.errors = 0], st.stb \ {"error"})

\* Filters and enable register are written; what has happened is not looked at again.
writeRegister(st, s, field, value) == [st EXCEPT !.system[s] = [@ EXCEPT ![field] = value]]

\* *CLS
ClearStatus(st) ==
  LET cleared == SetSTB(SetESR(st, FALSE), {})
      conditions == setMeasCondition(
                      setByteCondition(setByteCondition(cleared, "ques", {}), "oper", {}), {})
  IN [conditions EXCEPT !.errors = 0]
=============================================================================
