-------------------------------- MODULE J1772 --------------------------------
(***************************************************************************)
(* The control-pilot classifier of core/j1772.c: a millivolt reading falls *)
(* in one of six bands, and a band is committed after debounce_n           *)
(* consecutive readings in it.                                             *)
(***************************************************************************)
EXTENDS Integers

CONSTANTS
  J1772_DEBOUNCE_N,  \* readings in a row that commit a band (3 in the firmware)
  STREAK_MAX         \* where the uint8_t streak saturates (0xFF in the firmware)

ASSUME DebounceAssumption ==
  /\ J1772_DEBOUNCE_N \in Nat \ {0}
  /\ STREAK_MAX \in Nat
  /\ J1772_DEBOUNCE_N <= STREAK_MAX

Bands       == {"A", "B", "C", "D", "E", "F"}
J1772States == Bands \cup {"INVALID"}
Classifier  == [committed : J1772States, candidate : J1772States, streak : 0..STREAK_MAX]

classify_strict(mv) ==
  CASE mv >= 10500                 -> "A"
    [] mv >= 7500  /\ mv < 10500   -> "B"
    [] mv >= 4500  /\ mv < 7500    -> "C"
    [] mv >= 1500  /\ mv < 4500    -> "D"
    [] mv >= -1500 /\ mv < 1500    -> "E"
    [] mv < -1500                  -> "F"

j1772_init == [committed |-> "INVALID", candidate |-> "INVALID", streak |-> 0]

j1772_step(c, mv) ==
  LET s      == classify_strict(mv)
      streak == IF s # c.candidate THEN 1
                ELSE IF c.streak < STREAK_MAX THEN c.streak + 1 ELSE c.streak
  IN  [committed |-> IF streak >= J1772_DEBOUNCE_N THEN s ELSE c.committed,
       candidate |-> s,
       streak    |-> streak]
=============================================================================
