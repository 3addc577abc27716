------------------------------- MODULE OverTemp -------------------------------
(***************************************************************************)
(* The over-temperature decision of core/over_temp.h.  NTC raw counts fall *)
(* as the temperature rises; a channel outside the guard band is taken to  *)
(* be unpopulated and is ignored.                                          *)
(***************************************************************************)
EXTENDS Naturals

CONSTANT OT_PERSIST_TICKS  \* ticks at or below the trip count (5 in the firmware)

ASSUME OtPersistAssumption == OT_PERSIST_TICKS \in Nat \ {0}

OT_TRIP_RAW  == 396
OT_CLEAR_RAW == 525
OT_GUARD_LO  == 300
OT_GUARD_HI  == 3990

over_temp_populated(raw) == OT_GUARD_LO < raw /\ raw < OT_GUARD_HI

\* The raw counts that take part in the decision, and the hottest of them.
Populated(ntc) == {ntc[k] : k \in {i \in 1..2 : over_temp_populated(ntc[i])}}
Hottest(ntc)   == CHOOSE raw \in Populated(ntc) : \A other \in Populated(ntc) : raw <= other

\* Mutant: the clear edge waits for both channels, fitted or not.
over_temp_step_BothFitted(streak, active, ntc) ==
  LET over == ~active /\ \E raw \in Populated(ntc) : raw <= OT_TRIP_RAW
      next == IF ~over THEN 0
              ELSE IF streak < OT_PERSIST_TICKS THEN streak + 1 ELSE streak
  IN  [streak |-> next,
       trip   |-> over /\ next >= OT_PERSIST_TICKS,
       clear  |-> active /\ \A k \in 1..2 : over_temp_populated(ntc[k]) /\ ntc[k] >= OT_CLEAR_RAW]

(***************************************************************************)
(* One step on the channel pair ntc.  active says whether FAULT_OVER_TEMP  *)
(* is raised; the result carries the new streak and the edge to act on.    *)
(***************************************************************************)
over_temp_step(streak, active, ntc) ==
  LET sensed == Populated(ntc) # {}
      over   == sensed /\ ~active /\ Hottest(ntc) <= OT_TRIP_RAW
      next   == IF ~over THEN 0
                ELSE IF streak < OT_PERSIST_TICKS THEN streak + 1 ELSE streak
  IN  [streak |-> next,
       trip   |-> over /\ next >= OT_PERSIST_TICKS,
       clear  |-> sensed /\ active /\ Hottest(ntc) >= OT_CLEAR_RAW]
=============================================================================
