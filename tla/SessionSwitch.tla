--------------------------- MODULE SessionSwitch ---------------------------
(***************************************************************************)
(* What a client of the module manager sees of a session change: the       *)
(* modules of the old session go away, all of them, before the first one   *)
(* of the new session runs, and the session is announced once all modules  *)
(* it can have are running.                                                *)
(***************************************************************************)
EXTENDS Naturals

CONSTANTS
  Session,              \* session files
  NoSession,
  Wanted                \* [Session -> SUBSET of module entries]: what can run in a session

VARIABLES
  session,              \* the session asked for last
  old,                  \* modules of the session before that still exist
  running,              \* modules of this session that measure
  announced             \* sigModulesLoaded was emitted for this session

switchVars == <<session, old, running, announced>>

Init ==
  /\ session = NoSession
  /\ old = {}
  /\ running = {}
  /\ announced = FALSE

Switch(s) ==
  /\ old = {}
  /\ session' = s
  /\ old' = running
  /\ running' = {}
  /\ announced' = FALSE

Unload(e) ==
  /\ old' = old \ {e}
  /\ UNCHANGED <<session, running, announced>>

Start(e) ==
  /\ old = {}
  /\ e \in Wanted[session] \ running
  /\ running' = running \cup {e}
  /\ UNCHANGED <<session, old, announced>>

Announce ==
  /\ old = {}
  /\ session # NoSession
  /\ running = Wanted[session]
  /\ announced' = TRUE
  /\ UNCHANGED <<session, old, running>>

Next ==
  \/ \E s \in Session : Switch(s)
  \/ \E e \in old : Unload(e)
  \/ session # NoSession /\ \E e \in Wanted[session] : Start(e)
  \/ Announce

Spec == Init /\ [][Next]_switchVars
=============================================================================
