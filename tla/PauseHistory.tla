---------------------------- MODULE PauseHistory ----------------------------
(***************************************************************************)
(* SafetyTask with a history variable: the user has stopped the charge and *)
(* nothing the user did since then asks for a new one.                     *)
(***************************************************************************)
EXTENDS SafetyTask

VARIABLE held

heldVars == <<vars, held>>

Handles(type) == pc = "drain" /\ inbox # <<>> /\ inbox' # inbox /\ Head(inbox).type = type

\* A stop request that the state machine accepted.
Stopped == Handles("USER_PAUSE") /\ es # "USER_PAUSED" /\ es' = "USER_PAUSED"

\* What ends the hold.  The user asks for it by RESUME, an accepted replug, unplugging,
\* clearing the faults of a faulted unit or a restart.  Two ends the user does not ask for:
\* an over-temperature trip, after which COOLING_DOWN is left for READY, and the end of a
\* replug window that was open when the stop came.
Released ==
  \/ es = "USER_PAUSED" /\ Handles("USER_RESUME")
  \/ Handles("SIMULATE_REPLUG") /\ replug' # replug
  \/ pc = "evse" /\ cp.committed = "A"
  \/ es = "FAULT" /\ Handles("CLEAR_FAULT") /\ es' = "READY"
  \/ pc' = "boot"
  \/ es' = "COOLING_DOWN"
  \/ pc = "replug" /\ replug = 1

HeldInit == Init /\ held = FALSE
HeldNext == Next /\ held' = (Stopped \/ (held /\ ~Released))
HeldSpec == HeldInit /\ [][HeldNext]_heldVars

-----------------------------------------------------------------------------
\* "Holding the gun in keeps the pause sticky as the user intended": a charge the user
\* stopped does not start again by itself while the unit pauses or is in FAULT, whatever
\* pilot, faults, cards, buttons and settings come in between.  The hold does not outlast
\* COOLING_DOWN or the end of a replug window: there the code gives it up.
PauseHolds == held => es # "CHARGING"
=============================================================================
