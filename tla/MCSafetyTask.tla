---------------------------- MODULE MCSafetyTask ----------------------------
(* Constant values for model checking SafetyTask. *)
EXTENDS SafetyTask

\* Pilot voltages: unplugged, connected, charging; and with a missing diode.
MV_ABC  == {12000, 9000, 6000}
MV_AC   == {12000, 6000}
MV_C    == {6000}
MV_ACE  == {12000, 6000, 0}

\* NTC pairs <<wall, gun>>; a gun sensor that is not fitted reads open circuit.
COOL       == <<800, 800>>
HOT        == <<390, 800>>
OnlyCool   == {COOL}
CoolAndHot == {COOL, HOT}
NoGunSensor == {<<800, 4090>>, <<390, 4090>>}

\* BL0939 readings.
Reading(mains, ma) == [valid |-> TRUE, mains |-> mains, ma |-> ma]
NoReading    == [valid |-> FALSE, mains |-> FALSE, ma |-> 0]
NoMeter      == {NoReading}
OpenReadings == {Reading(TRUE, 0), Reading(FALSE, 0)}
Overdraw     == {Reading(TRUE, 12700), Reading(TRUE, 7100)}

Plain == [policy |-> "FAULT", requireAuth |-> FALSE, amps |-> 0, calibrated |-> FALSE]
PlainConfig   == {Plain}
AuthToggle    == {Plain, [Plain EXCEPT !.requireAuth = TRUE]}
PolicyConfigs == {[Plain EXCEPT !.policy = p] : p \in {"FAULT", "WARN"}}
TwelveAmps    == {[Plain EXCEPT !.amps = 12, !.calibrated = TRUE]}
=============================================================================
