----------------------------- MODULE SafetyTask -----------------------------
(***************************************************************************)
(* The 20 ms safety task (tasks/safety_task.c): the EVSE state machine, its *)
(* fault detectors, the contactor and the control pilot.                   *)
(*                                                                         *)
(* pc is the place in safety_task_run: the boot path, then one stage per   *)
(* call of the tick loop, in the loop's order.  Every stage is one action. *)
(* The other tasks act only where the safety task, which has the highest   *)
(* priority, can block: in its sleeps (the boot warm-up and the end of a   *)
(* tick), inside the GFCI self-test, and on the transmit mutex while it    *)
(* publishes from the inbox and RFID stages.                               *)
(*                                                                         *)
(* The line-voltage, temperature and sense inputs are chosen by \E from    *)
(* constant sets, so a run states which of them it exercises.              *)
(***************************************************************************)
EXTENDS Faults, J1772, OverTemp, GfciPolicy, Integers, Sequences

CONSTANTS
  \* Persistence and window lengths, in ticks or polls (safety_task.c values
  \* 3, 50, 150, 1500, 5, 4, 5, 20, 3, 75, 8, 13, 75).
  CP_E_PERSIST_TICKS, EVSE_C_DWELL_TICKS, SAFETY_REPLUG_WINDOW_TICKS,
  RFID_LEARN_TICKS, ADC_RUNTIME_PERSIST_TICKS, SAFETY_INBOX_DEPTH, BOOT_SAMPLES,
  BL0939_POLL_TICKS, BL0939_DETECTOR_PERSIST, BL0939_STUCK_OPEN_PERSIST,
  BL0939_WELD_SETTLE_POLLS, BL0939_HOC_PERSIST_POLLS, BL0939_SOC_PERSIST_POLLS,
  SESSION_FAULTS_MAX,   \* where the session's uint16_t fault_count saturates
  \* Inputs.
  CpMv,                 \* control-pilot readings when F is not driven, millivolts
  NtcPairs,             \* <<wall, gun>> raw NTC counts
  Pe2Low,               \* values of "PE2 low, outside the handshake window"
  AdcRail,              \* values of "some watched ADC rank is at a rail"
  CalOutcomes,          \* outcomes of gfci_self_test: TRUE is PASS
  MeterClosed,          \* BL0939 readings [valid, mains, ma] with the contactor closed
  MeterOpen,            \* and with it open
  RESIDUAL_POLLS,       \* polls for which a load's charge still flows after an opening
  Swipes,               \* card events: "none", "listed", "unlisted"
  ReqTypes, ClearIds,   \* inbox requests, and the ids CLEAR_FAULT may carry
  Configs,              \* persisted settings [policy, requireAuth, amps, calibrated]
  SafeFailBoots,        \* crash_state verdicts at boot
  Resets,               \* reset causes that can happen
  Buttons,              \* buttons the user presses
  CP_LAG,               \* ticks the sensed pilot may trail the driven one
  DIP1_CLOSED           \* position of the current-limit switch

HW_AMPS_MAX        == 48
DIP1_AMPS_OPEN     == 40
SOC_DERATE_FLOOR_A == 6
DRAIN_MAX          == 4     \* inbox entries handled per tick
WELD_FLOW_MA       == 500   \* current that counts as flowing

EvseStates == {"BOOT", "SELF_TEST", "READY", "CHARGING", "USER_PAUSED",
               "COOLING_DOWN", "FAULT"}
RequestTypes == {"CLEAR_FAULT", "USER_PAUSE", "USER_RESUME", "RFID_LEARN_ARM",
                 "SIMULATE_REPLUG", "RUN_GFCI_CAL_TEST", "PUBLISH"}
Requests == [type : RequestTypes, id : Nat]
Settings == [policy : GfciPolicies, requireAuth : BOOLEAN, amps : Nat, calibrated : BOOLEAN]
Readings == [valid : BOOLEAN, mains : BOOLEAN, ma : Nat]

TickStages == {"drain", "cal", "replug", "classify", "safefail", "gfci", "adc", "cpe",
               "otemp", "evse", "regress", "relay", "cp", "poll", "ac", "weld", "stuck",
               "hoc", "soc", "rfid", "publish", "sleep"}
Stages == {"boot", "gfcitest", "bootdone"} \cup TickStages

ASSUME SafetyAssumption ==
  /\ {CP_E_PERSIST_TICKS, EVSE_C_DWELL_TICKS, SAFETY_REPLUG_WINDOW_TICKS,
      RFID_LEARN_TICKS, ADC_RUNTIME_PERSIST_TICKS, SAFETY_INBOX_DEPTH, BOOT_SAMPLES,
      BL0939_POLL_TICKS, BL0939_DETECTOR_PERSIST, BL0939_STUCK_OPEN_PERSIST,
      BL0939_WELD_SETTLE_POLLS, BL0939_HOC_PERSIST_POLLS, BL0939_SOC_PERSIST_POLLS,
      SESSION_FAULTS_MAX, CP_LAG} \subseteq Nat \ {0}
  /\ RESIDUAL_POLLS \in Nat
  /\ CpMv \subseteq Int
  /\ NtcPairs \subseteq Nat \X Nat
  /\ Pe2Low \subseteq BOOLEAN /\ AdcRail \subseteq BOOLEAN
  /\ CalOutcomes \subseteq BOOLEAN /\ SafeFailBoots \subseteq BOOLEAN
  /\ MeterClosed \subseteq Readings /\ MeterOpen \subseteq Readings
  /\ Swipes \subseteq {"none", "listed", "unlisted"}
  /\ ReqTypes \subseteq RequestTypes \ {"CLEAR_FAULT"} /\ ClearIds \subseteq Nat
  /\ Configs \subseteq Settings
  /\ Resets \subseteq {"power", "soft", "watchdog"}
  /\ Buttons \subseteq {"TOP", "MID", "BOTTOM"}
  /\ DIP1_CLOSED \in BOOLEAN

VARIABLES
  pc,       \* stage of safety_task_run
  n,        \* loop index of the boot samples and of drain_inbox
  inbox,    \* s_safety_inbox
  es,       \* the EVSE state
  fs,       \* fault_state_t
  cp,       \* j1772_ctx_t
  cpOut,    \* what TIM1_CCR3 drives: "idle", "advertise" or "F"
  relay,    \* s_main_cmd: the contactor is commanded closed
  latch,    \* s_force_open: the redundant force-open latch
  session,  \* s_session: active and fault_count
  derate,   \* s_soc_derate_amps
  replug,   \* s_replug_window_ticks
  auth,     \* s_session_authorized
  learn,    \* s_rfid_learn_ticks
  streak,   \* evse_c, cp_e, adc_runtime and over-temp streaks
  prev,     \* prev_js, prev_es
  gfci,     \* gfci_policy_ctx_t
  refresh,  \* gfci_refresh_task has been created
  pollDiv,  \* bl0939_poll_div
  bl,       \* the driver's last BL0939 readings
  met,      \* memory of the BL0939 detectors
  residual, \* polls for which the opened load may still carry current
  safeFail, \* crash_state_is_safe_fail()
  config,   \* boot_config and calibration values in force
  ntc,      \* the ADC scan buffer's NTC ranks
  follow,   \* how far the sensed pilot has followed an F drive, 0..CP_LAG
  snap      \* evse_state of the published system_state

evseVars   == <<es, session, derate, relay, latch, cpOut>>
worldVars  == <<config, ntc, safeFail>>
meterVars  == <<pollDiv, bl, met, residual>>
rfidVars   == <<auth, learn>>
cpVars     == <<cp, replug, follow>>
otherVars  == <<prev, gfci, refresh, snap>>
vars == <<pc, n, inbox, evseVars, fs, cpVars, rfidVars, streak, otherVars, meterVars, worldVars>>

-----------------------------------------------------------------------------
(* The EVSE state machine's single transition function. *)

\* session.fault_count in post_fault_event.
post_fault_event(s) ==
  IF s.active /\ s.faults < SESSION_FAULTS_MAX THEN [s EXCEPT !.faults = @ + 1] ELSE s

session_start  == [active |-> TRUE, faults |-> 0]
session_end(s) == [s EXCEPT !.active = FALSE]

(***************************************************************************)
(* evse_transition: opens and closes the session around CHARGING; on entry *)
(* to FAULT opens the contactor, arms the force-open latch and drives CP   *)
(* to F; releases the latch on any other change.  s is the session record  *)
(* as the caller leaves it.  Enter is the part without the pilot, for the  *)
(* caller that drives the pilot itself.                                    *)
(***************************************************************************)
Trips(next) == next = "FAULT" /\ es # "FAULT"

\* Mutant: the force-open latch is never released.
Enter_LatchStays(next, s) ==
  LET ends == es = "CHARGING" /\ next # "CHARGING" /\ s.active
  IN  /\ es' = next
      /\ session' = IF ends THEN session_end(s)
                    ELSE IF es # "CHARGING" /\ next = "CHARGING" THEN session_start
                    ELSE s
      /\ derate'  = IF ends THEN 0 ELSE derate
      /\ relay'   = (relay /\ ~Trips(next))
      /\ latch'   = (latch \/ next = "FAULT")

Enter(next, s) ==
  LET ends == es = "CHARGING" /\ next # "CHARGING" /\ s.active
  IN  /\ es' = next
      /\ session' = IF ends THEN session_end(s)
                    ELSE IF es # "CHARGING" /\ next = "CHARGING" THEN session_start
                    ELSE s
      /\ derate'  = IF ends THEN 0 ELSE derate
      /\ relay'   = (relay /\ ~Trips(next))
      /\ latch'   = IF es = next THEN latch ELSE next = "FAULT"

evse_transition(next, s) ==
  /\ Enter(next, s)
  /\ cpOut' = IF Trips(next) THEN "F" ELSE cpOut

\* Mutant: the event is posted after the session has been closed.
RaiseLatched_PostLate(id) ==
  /\ fs' = fault_raise(fs, id)
  /\ evse_transition("FAULT", session)

\* fault_raise on its edge, the event, then the move to FAULT.
RaiseLatched(id) ==
  /\ fs' = fault_raise(fs, id)
  /\ evse_transition("FAULT", IF fault_is_active(fs, id) THEN session
                              ELSE post_fault_event(session))

\* A detector that found nothing.
NoFault == UNCHANGED <<fs, evseVars>>

\* A self-clearing fault is recorded and the state machine is left alone.
RaiseSelfClearing(id) ==
  /\ fs' = fault_raise(fs, id)
  /\ session' = post_fault_event(session)
  /\ UNCHANGED <<es, derate, relay, latch, cpOut>>

ClearSelfClearing(id) ==
  /\ fs' = fault_clear(fs, id)
  /\ UNCHANGED evseVars

Least(a, b) == IF a < b THEN a ELSE b

\* Mutant: the streak does not saturate.
Count_Unbounded(on, k, max) == IF on THEN k + 1 ELSE 0

\* A saturating streak counter.
Count(on, k, max) == IF ~on THEN 0 ELSE IF k < max THEN k + 1 ELSE k

Advance(from, to) == pc = from /\ pc' = to

-----------------------------------------------------------------------------
(* Boot: BOOT -> SELF_TEST -> READY, or FAULT. *)

Init ==
  /\ pc = "boot" /\ n = 0 /\ inbox = <<>>
  /\ es = "SELF_TEST" /\ fs = fault_init /\ cp = j1772_init
  /\ cpOut = "idle" /\ relay = FALSE /\ latch = FALSE
  /\ session = [active |-> FALSE, faults |-> 0] /\ derate = 0
  /\ replug = 0 /\ follow = 0 /\ auth = FALSE /\ learn = 0
  /\ streak = [c |-> 0, cpE |-> 0, adc |-> 0, ot |-> 0]
  /\ prev = [js |-> "INVALID", es |-> "BOOT"]
  /\ gfci = gfci_context_init /\ refresh = FALSE
  /\ pollDiv = 0 /\ bl = [valid |-> FALSE, mains |-> FALSE, ma |-> 0]
  /\ met = [ac |-> 0, weld |-> 0, stuck |-> 0, hoc |-> 0, soc |-> 0,
            wasClosed |-> FALSE, settle |-> 0]
  /\ residual = 0 /\ safeFail = FALSE
  /\ config \in Configs /\ ntc \in NtcPairs
  /\ snap = "BOOT"

\* The warm-up loop: all but the last of its classifier samples.
BootSample(mv) ==
  /\ pc = "boot" /\ n + 1 < BOOT_SAMPLES
  /\ n' = n + 1
  /\ cp' = j1772_step(cp, mv)
  /\ UNCHANGED <<pc, inbox, evseVars, fs, replug, follow, rfidVars, streak, otherVars, meterVars,
                 worldVars>>

\* The last sample and run_boot_self_test on it; rail is the ADC sanity check.
BootSelfTest(mv, rail) ==
  /\ Advance("boot", "gfcitest") /\ n + 1 = BOOT_SAMPLES
  /\ n' = 0
  /\ cp' = j1772_step(cp, mv)
  /\ IF rail \/ mv < 1500 THEN RaiseLatched(FAULT_BOOT_SELF_TEST) ELSE NoFault
  /\ UNCHANGED <<inbox, replug, follow, rfidVars, streak, otherVars, meterVars, worldVars>>

\* self_test_gfci_cal: only a PASS creates the refresh task.
BootGfciTest(pass) ==
  /\ Advance("gfcitest", "bootdone")
  /\ refresh' = pass
  /\ IF pass THEN NoFault ELSE RaiseLatched(FAULT_GFCI_SELF_TEST)
  /\ UNCHANGED <<n, inbox, cpVars, rfidVars, streak, prev, gfci, snap, meterVars, worldVars>>

\* check_safe_fail, then READY unless a check already went to FAULT.
BootDone ==
  /\ Advance("bootdone", "drain")
  /\ IF safeFail THEN RaiseLatched(FAULT_CRASH_LOOP_SAFE_FAIL)
     ELSE /\ evse_transition(IF es = "FAULT" THEN "FAULT" ELSE "READY", session)
          /\ UNCHANGED fs
  /\ UNCHANGED <<n, inbox, cpVars, rfidVars, streak, otherVars, meterVars, worldVars>>

-----------------------------------------------------------------------------
(* The inbox: drain_inbox calls process_request for at most DRAIN_MAX entries. *)

Dequeue(type) ==
  /\ pc = "drain" /\ n < DRAIN_MAX /\ inbox # <<>>
  /\ Head(inbox).type = type
  /\ inbox' = Tail(inbox)
  /\ n' = n + 1

DrainDone ==
  /\ Advance("drain", "replug") /\ (n = DRAIN_MAX \/ inbox = <<>>)
  /\ n' = 0
  /\ UNCHANGED <<inbox, evseVars, fs, cpVars, rfidVars, streak, otherVars, meterVars, worldVars>>

(***************************************************************************)
(* CLEAR_FAULT.  An unknown id and FAULT_GFCI return early; otherwise a    *)
(* FAULT state without latched faults is left for READY, with first_raised *)
(* and the classifier started over.                                        *)
(***************************************************************************)
ClearFault ==
  /\ Dequeue("CLEAR_FAULT") /\ UNCHANGED pc
  /\ LET id      == Head(inbox).id
         refused == id = FAULT_GFCI \/ id >= FAULT_COUNT
         left    == IF id = 0 THEN fault_clear_all_clearable(fs) ELSE fault_clear(fs, id)
         leave   == ~refused /\ es = "FAULT" /\ ~fault_any_latched_active(left)
         settle  == leave \/ (left.active # fs.active /\ id \in {0, FAULT_CP_NO_PILOT})
     IN  /\ fs' = IF leave THEN [left EXCEPT !.first = FAULT_NONE] ELSE left
         /\ evse_transition(IF leave THEN "READY" ELSE es, session)
         /\ cp' = IF leave THEN j1772_init ELSE cp
         /\ streak' = IF settle THEN [streak EXCEPT !.cpE = 0] ELSE streak
  /\ UNCHANGED <<replug, follow, rfidVars, otherVars, meterVars, worldVars>>

UserPause ==
  /\ Dequeue("USER_PAUSE") /\ UNCHANGED pc
  /\ evse_transition(IF es \in {"READY", "CHARGING"} THEN "USER_PAUSED" ELSE es, session)
  /\ UNCHANGED <<fs, cpVars, rfidVars, streak, otherVars, meterVars, worldVars>>

UserResume ==
  /\ Dequeue("USER_RESUME") /\ UNCHANGED pc
  /\ evse_transition(IF es = "USER_PAUSED" THEN "READY" ELSE es, session)
  /\ UNCHANGED <<fs, cpVars, rfidVars, streak, otherVars, meterVars, worldVars>>

RfidLearnArm ==
  /\ Dequeue("RFID_LEARN_ARM") /\ UNCHANGED pc
  /\ learn' = RFID_LEARN_TICKS
  /\ UNCHANGED <<evseVars, fs, cpVars, auth, streak, otherVars, meterVars, worldVars>>

\* Mutant: no plug check.
SimulateReplug_AnyPilot ==
  /\ Dequeue("SIMULATE_REPLUG") /\ UNCHANGED pc
  /\ IF es \in {"READY", "CHARGING", "USER_PAUSED", "COOLING_DOWN"}
     THEN /\ Enter("USER_PAUSED", session)
          /\ cpOut' = "F"
          /\ replug' = SAFETY_REPLUG_WINDOW_TICKS
     ELSE UNCHANGED <<evseVars, replug>>
  /\ UNCHANGED <<fs, cp, follow, rfidVars, streak, otherVars, meterVars, worldVars>>

\* Refused without a plug (committed not B, C or D) and outside the four states.
SimulateReplug ==
  /\ Dequeue("SIMULATE_REPLUG") /\ UNCHANGED pc
  /\ IF /\ cp.committed \in {"B", "C", "D"}
        /\ es \in {"READY", "CHARGING", "USER_PAUSED", "COOLING_DOWN"}
     THEN /\ Enter("USER_PAUSED", session)
          /\ cpOut' = "F"
          /\ replug' = SAFETY_REPLUG_WINDOW_TICKS
     ELSE UNCHANGED <<evseVars, replug>>
  /\ UNCHANGED <<fs, cp, follow, rfidVars, streak, otherVars, meterVars, worldVars>>

\* gfci_self_test runs inside the request, for seconds, in stage "cal".
RunGfciCalTest ==
  /\ Dequeue("RUN_GFCI_CAL_TEST")
  /\ pc' = IF es = "READY" THEN "cal" ELSE "drain"
  /\ UNCHANGED <<evseVars, fs, cpVars, rfidVars, streak, otherVars, meterVars, worldVars>>

\* The outcome is only printed.
CalTestDone ==
  /\ Advance("cal", "drain")
  /\ UNCHANGED <<n, inbox, evseVars, fs, cpVars, rfidVars, streak, otherVars, meterVars, worldVars>>

\* PUBLISH_RFID_CONFIG and PUBLISH_GFCI_POLICY.
Publish ==
  /\ Dequeue("PUBLISH") /\ UNCHANGED pc
  /\ UNCHANGED <<evseVars, fs, cpVars, rfidVars, streak, otherVars, meterVars, worldVars>>

-----------------------------------------------------------------------------
(* The rest of the tick. *)

\* Mutant: the classifier keeps its memory of the driven F.
ServiceReplug_KeepClassifier ==
  /\ Advance("replug", "classify")
  /\ replug' = IF replug > 0 THEN replug - 1 ELSE 0
  /\ evse_transition(IF replug = 1 /\ es = "USER_PAUSED" THEN "READY" ELSE es, session)
  /\ streak' = IF replug = 1 THEN [streak EXCEPT !.cpE = 0] ELSE streak
  /\ UNCHANGED <<n, inbox, fs, cp, follow, rfidVars, otherVars, meterVars, worldVars>>

\* The replug countdown; its end resumes to READY and restarts the classifier.
ServiceReplug ==
  /\ Advance("replug", "classify")
  /\ replug' = IF replug > 0 THEN replug - 1 ELSE 0
  /\ IF replug = 1
     THEN /\ evse_transition(IF es = "USER_PAUSED" THEN "READY" ELSE es, session)
          /\ cp' = j1772_init
          /\ streak' = [streak EXCEPT !.cpE = 0]
     ELSE UNCHANGED <<evseVars, cp, streak>>
  /\ UNCHANGED <<n, inbox, fs, follow, rfidVars, otherVars, meterVars, worldVars>>

(***************************************************************************)
(* The sensed pilot.  While the firmware drives F the read-back is 725 mV, *)
(* in band E, whatever the vehicle does; it trails the drive by up to      *)
(* CP_LAG ticks in both directions.                                        *)
(***************************************************************************)
DRIVEN_F_MV == 725

cp_high_mv ==
  (IF cpOut # "F" \/ follow < CP_LAG THEN CpMv ELSE {}) \cup
  (IF cpOut = "F" \/ follow > 0 THEN {DRIVEN_F_MV} ELSE {})

Classify(mv) ==
  /\ Advance("classify", "safefail")
  /\ cp' = j1772_step(cp, mv)
  /\ follow' = IF cpOut = "F" THEN Least(follow + 1, CP_LAG)
               ELSE IF follow > 0 THEN follow - 1 ELSE 0
  /\ UNCHANGED <<n, inbox, evseVars, fs, replug, rfidVars, streak, otherVars, meterVars, worldVars>>

\* Mutant: the crash-loop check runs at boot only.
check_safe_fail_BootOnly ==
  /\ Advance("safefail", "gfci")
  /\ UNCHANGED <<n, inbox, fs, evseVars, cpVars, rfidVars, streak, otherVars, meterVars, worldVars>>

check_safe_fail ==
  /\ Advance("safefail", "gfci")
  /\ IF safeFail /\ ~fault_is_active(fs, FAULT_CRASH_LOOP_SAFE_FAIL)
     THEN RaiseLatched(FAULT_CRASH_LOOP_SAFE_FAIL) ELSE NoFault
  /\ UNCHANGED <<n, inbox, cpVars, rfidVars, streak, otherVars, meterVars, worldVars>>

\* WARN only records the event; RAISE latches and stops.
check_gfci(pe2) ==
  /\ Advance("gfci", "adc")
  /\ LET step == gfci_policy_step(gfci, pe2, config.policy)
     IN  /\ gfci' = step.ctx
         /\ \/ step.act = "NONE" /\ NoFault
            \/ /\ step.act = "WARN_EMIT"
               /\ session' = post_fault_event(session)
               /\ UNCHANGED <<fs, es, derate, relay, latch, cpOut>>
            \/ step.act = "RAISE_FAULT" /\ RaiseLatched(FAULT_GFCI)
  /\ UNCHANGED <<n, inbox, cpVars, rfidVars, streak, prev, refresh, snap, meterVars, worldVars>>

check_adc_runtime(rail) ==
  /\ Advance("adc", "cpe")
  /\ LET k == Count(rail /\ es # "FAULT", streak.adc, ADC_RUNTIME_PERSIST_TICKS)
     IN  /\ streak' = [streak EXCEPT !.adc = k]
         /\ IF k >= ADC_RUNTIME_PERSIST_TICKS /\ ~fault_is_active(fs, FAULT_ADC_OUT_OF_RANGE)
            THEN RaiseLatched(FAULT_ADC_OUT_OF_RANGE) ELSE NoFault
  /\ UNCHANGED <<n, inbox, cpVars, rfidVars, otherVars, meterVars, worldVars>>

\* State E sustained; not while the EVSE itself drives the pilot to F.
check_cp_e ==
  /\ Advance("cpe", "otemp")
  /\ LET k == Count(cp.committed = "E" /\ es # "FAULT" /\ replug = 0,
                    streak.cpE, CP_E_PERSIST_TICKS)
     IN  /\ streak' = [streak EXCEPT !.cpE = k]
         /\ IF k >= CP_E_PERSIST_TICKS /\ ~fault_is_active(fs, FAULT_CP_NO_PILOT)
            THEN RaiseLatched(FAULT_CP_NO_PILOT) ELSE NoFault
  /\ UNCHANGED <<n, inbox, cpVars, rfidVars, otherVars, meterVars, worldVars>>

\* A trip goes to COOLING_DOWN, a clear leaves it for READY; FAULT is not disturbed.
check_over_temp ==
  /\ Advance("otemp", "evse")
  /\ LET active == fault_is_active(fs, FAULT_OVER_TEMP)
         act    == over_temp_step(streak.ot, active, ntc)
     IN  /\ streak' = [streak EXCEPT !.ot = act.streak]
         /\ \/ /\ act.trip
               /\ fs' = fault_raise(fs, FAULT_OVER_TEMP)
               /\ evse_transition(IF es = "FAULT" THEN es ELSE "COOLING_DOWN",
                                  post_fault_event(session))
            \/ /\ act.clear
               /\ fs' = fault_clear(fs, FAULT_OVER_TEMP)
               /\ evse_transition(IF es = "COOLING_DOWN" THEN "READY" ELSE es, session)
            \/ ~act.trip /\ ~act.clear /\ NoFault
  /\ UNCHANGED <<n, inbox, cpVars, rfidVars, otherVars, meterVars, worldVars>>

-----------------------------------------------------------------------------
(* update_evse_from_j1772, one disjunct per early return and branch. *)

EvseSticky ==
  /\ es \in {"FAULT", "BOOT", "SELF_TEST", "COOLING_DOWN"}
  /\ streak' = [streak EXCEPT !.c = 0]
  /\ UNCHANGED <<evseVars, auth>>

\* Mutant: the pause ends on any pilot state but C.
EvsePaused_NotSticky ==
  /\ es = "USER_PAUSED"
  /\ auth' = (auth /\ cp.committed # "A")
  /\ streak' = [streak EXCEPT !.c = 0]
  /\ evse_transition(IF cp.committed # "C" THEN "READY" ELSE es, session)

EvsePaused ==
  /\ es = "USER_PAUSED"
  /\ auth' = (auth /\ cp.committed # "A")
  /\ streak' = [streak EXCEPT !.c = 0]
  /\ evse_transition(IF cp.committed = "A" THEN "READY" ELSE es, session)

\* Mutant: the authorization gate is dropped.
EvseRunning_NoGate ==
  /\ es \in {"READY", "CHARGING"}
  /\ auth' = (auth /\ cp.committed # "A")
  /\ LET k    == Count(cp.committed = "C", streak.c, EVSE_C_DWELL_TICKS)
         next == IF es = "READY" /\ k >= EVSE_C_DWELL_TICKS THEN "CHARGING"
                 ELSE IF es = "CHARGING" /\ cp.committed # "C" THEN "READY" ELSE es
     IN  streak' = [streak EXCEPT !.c = k] /\ evse_transition(next, session)

EvseRunning ==
  /\ es \in {"READY", "CHARGING"}
  /\ auth' = (auth /\ cp.committed # "A")
  /\ LET k == Count(cp.committed = "C", streak.c, EVSE_C_DWELL_TICKS)
     IN  /\ streak' = [streak EXCEPT !.c = k]
         /\ \/ /\ es = "READY" /\ k >= EVSE_C_DWELL_TICKS /\ (~config.requireAuth \/ auth')
               /\ evse_transition("CHARGING", session)
            \/ /\ es = "READY" /\ (k < EVSE_C_DWELL_TICKS \/ (config.requireAuth /\ ~auth'))
               /\ UNCHANGED evseVars
            \/ es = "CHARGING" /\ cp.committed # "C" /\ evse_transition("READY", session)
            \/ es = "CHARGING" /\ cp.committed = "C" /\ UNCHANGED evseVars

update_evse_from_j1772 ==
  /\ Advance("evse", "regress")
  /\ EvseSticky \/ EvsePaused \/ EvseRunning
  /\ UNCHANGED <<n, inbox, fs, cpVars, learn, otherVars, meterVars, worldVars>>

\* C -> B while charging is logged, not raised; prev is refreshed at the stage's end.
check_cp_regression ==
  /\ Advance("regress", "relay")
  /\ session' = IF prev.js = "C" /\ cp.committed = "B" /\ prev.es = "CHARGING"
                THEN post_fault_event(session) ELSE session
  /\ prev' = [js |-> cp.committed, es |-> es]
  /\ UNCHANGED <<n, inbox, es, derate, relay, latch, cpOut, fs, cpVars, rfidVars, streak,
                 gfci, refresh, snap, meterVars, worldVars>>

\* Mutant: a closed contactor stays closed while the vehicle asks for current.
apply_relay_state_HoldOnC ==
  /\ Advance("relay", "cp")
  /\ relay' = (cp.committed = "C" /\ (es = "CHARGING" \/ relay))
  /\ UNCHANGED <<n, inbox, es, session, derate, latch, cpOut, fs, cpVars, rfidVars, streak,
                 otherVars, meterVars, worldVars>>

apply_relay_state ==
  /\ Advance("relay", "cp")
  /\ relay' = (es = "CHARGING" /\ cp.committed = "C" /\ ~fault_any_latched_active(fs))
  /\ UNCHANGED <<n, inbox, es, session, derate, latch, cpOut, fs, cpVars, rfidVars, streak,
                 otherVars, meterVars, worldVars>>

apply_cp_for_state ==
  /\ Advance("cp", "poll")
  /\ cpOut' = CASE replug > 0 \/ es = "FAULT" -> "F"
                [] replug = 0 /\ es \in {"COOLING_DOWN", "USER_PAUSED"} -> "idle"
                [] replug = 0 /\ es \notin {"FAULT", "COOLING_DOWN", "USER_PAUSED"} ->
                     IF cp.committed \in {"B", "C", "D"} THEN "advertise" ELSE "idle"
  /\ UNCHANGED <<n, inbox, es, session, derate, relay, latch, fs, cpVars, rfidVars, streak,
                 otherVars, meterVars, worldVars>>

-----------------------------------------------------------------------------
(* The BL0939 poll and the five detectors that run on its cadence. *)

effective_advertised_amps ==
  LET cap  == IF DIP1_CLOSED THEN HW_AMPS_MAX ELSE DIP1_AMPS_OPEN
      base == IF config.amps = 0 THEN cap ELSE Least(config.amps, cap)
  IN  IF derate + SOC_DERATE_FLOOR_A >= base THEN SOC_DERATE_FLOOR_A ELSE base - derate

\* What the meter can read: a load that carried current at an earlier poll bleeds
\* off for RESIDUAL_POLLS polls after the contactor opened.
bl0939_readings ==
  (IF relay \/ residual > 0 THEN MeterClosed ELSE {}) \cup (IF relay THEN {} ELSE MeterOpen)

Poll ==
  /\ pc = "poll"
  /\ IF pollDiv + 1 < BL0939_POLL_TICKS
     THEN pc' = "rfid" /\ pollDiv' = pollDiv + 1 /\ UNCHANGED <<bl, residual>>
     ELSE /\ pc' = "ac" /\ pollDiv' = 0
          /\ bl' \in bl0939_readings
          /\ residual' = IF relay THEN RESIDUAL_POLLS ELSE IF residual > 0 THEN residual - 1 ELSE 0
  /\ UNCHANGED <<n, inbox, evseVars, fs, cpVars, rfidVars, streak, otherVars, met, worldVars>>

MeterFrame == UNCHANGED <<n, inbox, cpVars, rfidVars, streak, otherVars, pollDiv, bl,
                        residual, worldVars>>

check_ac_absent ==
  /\ Advance("ac", "weld")
  /\ LET k == IF bl.valid THEN Count(~bl.mains, met.ac, BL0939_DETECTOR_PERSIST) ELSE met.ac
     IN  /\ met' = [met EXCEPT !.ac = k]
         /\ \/ ~bl.valid /\ NoFault
            \/ bl.valid /\ bl.mains /\ ClearSelfClearing(FAULT_AC_ABSENT)
            \/ /\ bl.valid /\ ~bl.mains
               /\ IF k >= BL0939_DETECTOR_PERSIST /\ ~fault_is_active(fs, FAULT_AC_ABSENT)
                  THEN RaiseSelfClearing(FAULT_AC_ABSENT) ELSE NoFault
  /\ MeterFrame

\* Mutant: the fault is recorded and the charge goes on.
Detect_NoStop(field, k, persist, id) ==
  /\ met' = [met EXCEPT ![field] = k]
  /\ IF k >= persist /\ ~fault_is_active(fs, id) THEN RaiseSelfClearing(id) ELSE NoFault

\* The latched detectors share this: count in met, raise on persistence.
Detect(field, k, persist, id) ==
  /\ met' = [met EXCEPT ![field] = k]
  /\ IF k >= persist /\ ~fault_is_active(fs, id) THEN RaiseLatched(id) ELSE NoFault

\* Mutant: no settle window.
WeldSettle_None == 0

\* Polls of weld detection still to skip after a close-to-open edge.
WeldSettle == IF met.wasClosed /\ ~relay THEN BL0939_WELD_SETTLE_POLLS ELSE met.settle

\* Current while commanded open, outside the settle window after an opening.
check_relay_weld_bl0939 ==
  /\ Advance("weld", "stuck")
  /\ LET settle == WeldSettle
         k      == Count(bl.ma >= WELD_FLOW_MA /\ ~relay, met.weld, BL0939_DETECTOR_PERSIST)
     IN  \/ ~bl.valid /\ UNCHANGED met /\ NoFault
         \/ bl.valid /\ ~config.calibrated /\ met' = [met EXCEPT !.weld = 0] /\ NoFault
         \/ /\ bl.valid /\ config.calibrated /\ settle > 0
            /\ met' = [met EXCEPT !.wasClosed = relay, !.settle = settle - 1, !.weld = 0]
            /\ NoFault
         \/ /\ bl.valid /\ config.calibrated /\ settle = 0
            /\ met' = [met EXCEPT !.wasClosed = relay, !.weld = k]
            /\ IF k >= BL0939_DETECTOR_PERSIST /\ ~fault_is_active(fs, FAULT_RELAY_WELD)
               THEN RaiseLatched(FAULT_RELAY_WELD) ELSE NoFault
  /\ MeterFrame

check_relay_stuck_open_bl0939 ==
  /\ Advance("stuck", "hoc")
  /\ IF bl.valid
     THEN Detect("stuck",
                 Count(config.calibrated /\ es = "CHARGING" /\ relay /\ bl.ma < WELD_FLOW_MA,
                       met.stuck, BL0939_STUCK_OPEN_PERSIST),
                 BL0939_STUCK_OPEN_PERSIST, FAULT_RELAY_STUCK_OPEN)
     ELSE UNCHANGED met /\ NoFault
  /\ MeterFrame

\* Mutant: the hard limit ignores the derate.
HardLimitMa_Configured == Least(config.amps * 1200, HW_AMPS_MAX * 1250)

\* 120 % of the advertised amps, never above 125 % of the hardware rating.
HardLimitMa == Least(effective_advertised_amps * 1200, HW_AMPS_MAX * 1250)

check_hard_over_current ==
  /\ Advance("hoc", "soc")
  /\ IF bl.valid
     THEN Detect("hoc",
                 Count(config.calibrated /\ bl.ma > HardLimitMa, met.hoc, BL0939_HOC_PERSIST_POLLS),
                 BL0939_HOC_PERSIST_POLLS, FAULT_HARD_OVER_CURRENT)
     ELSE UNCHANGED met /\ NoFault
  /\ MeterFrame

SoftLimitMa == effective_advertised_amps * 1050

\* One derating step of the soft over-current ramp.
DerateStep(adv) == IF adv >= 10 THEN adv \div 10 ELSE 1

\* Mutant: the derate is given back when the current drops.
SocWithinLimit_Restores ==
  /\ bl.ma <= SoftLimitMa
  /\ met' = [met EXCEPT !.soc = 0]
  /\ fs' = fault_clear(fs, FAULT_SOFT_OVER_CURRENT)
  /\ derate' = 0
  /\ UNCHANGED <<es, session, relay, latch, cpOut>>

SocWithinLimit ==
  /\ bl.ma <= SoftLimitMa
  /\ met' = [met EXCEPT !.soc = 0]
  /\ ClearSelfClearing(FAULT_SOFT_OVER_CURRENT)

SocCounts ==
  /\ bl.ma > SoftLimitMa /\ met.soc < BL0939_SOC_PERSIST_POLLS
  /\ met' = [met EXCEPT !.soc = @ + 1]
  /\ NoFault

SocRamps ==
  /\ bl.ma > SoftLimitMa /\ met.soc = BL0939_SOC_PERSIST_POLLS
  /\ effective_advertised_amps > SOC_DERATE_FLOOR_A
  /\ derate' = derate + DerateStep(effective_advertised_amps)
  /\ met' = [met EXCEPT !.soc = 0]
  /\ UNCHANGED <<fs, es, session, relay, latch, cpOut>>

SocAtFloor ==
  /\ bl.ma > SoftLimitMa /\ met.soc = BL0939_SOC_PERSIST_POLLS
  /\ effective_advertised_amps = SOC_DERATE_FLOOR_A
  /\ IF fault_is_active(fs, FAULT_SOFT_OVER_CURRENT) THEN NoFault
     ELSE RaiseSelfClearing(FAULT_SOFT_OVER_CURRENT)
  /\ UNCHANGED met

check_soft_over_current ==
  /\ Advance("soc", "rfid")
  /\ \/ ~bl.valid /\ UNCHANGED met /\ NoFault
     \/ bl.valid /\ ~config.calibrated /\ met' = [met EXCEPT !.soc = 0] /\ NoFault
     \/ bl.valid /\ config.calibrated /\ (SocWithinLimit \/ SocCounts \/ SocRamps \/ SocAtFloor)
  /\ MeterFrame

-----------------------------------------------------------------------------
(* RFID, the snapshot, and the end of the tick. *)

Post(box, type, id) ==
  IF Len(box) < SAFETY_INBOX_DEPTH THEN Append(box, [type |-> type, id |-> id]) ELSE box

\* A card edge: learn mode captures it, a listed card authorizes and starts or stops.
RfidSwipe(card) ==
  /\ Advance("rfid", "publish")
  /\ LET card1   == card # "none"
         matched == card = "listed" /\ learn = 0
     IN  /\ learn' = IF card1 \/ learn = 0 THEN 0 ELSE learn - 1
         /\ auth'  = (auth \/ matched)
         /\ inbox' = CASE matched /\ es = "CHARGING"    -> Post(inbox, "USER_PAUSE", 0)
                       [] matched /\ es = "USER_PAUSED" -> Post(inbox, "USER_RESUME", 0)
                       [] ~matched \/ es \notin {"CHARGING", "USER_PAUSED"} -> inbox
  /\ UNCHANGED <<n, evseVars, fs, cpVars, streak, otherVars, meterVars, worldVars>>

PublishSnapshot ==
  /\ Advance("publish", "sleep")
  /\ snap' = es
  /\ UNCHANGED <<n, inbox, evseVars, fs, cpVars, rfidVars, streak, prev, gfci, refresh,
                 meterVars, worldVars>>

Wake ==
  /\ Advance("sleep", "drain")
  /\ UNCHANGED <<n, inbox, evseVars, fs, cpVars, rfidVars, streak, otherVars, meterVars, worldVars>>

-----------------------------------------------------------------------------
(* The other tasks, the hardware and resets. *)

OthersRun == pc \in {"boot", "gfcitest", "sleep", "drain", "cal", "rfid"}

InboxFrame == UNCHANGED <<pc, n, evseVars, fs, cpVars, rfidVars, streak, otherVars, meterVars,
                          worldVars>>

\* comms_task and persist_task: safety_request_*, dropped when the inbox is full.
CommsPost(type, id) ==
  /\ OthersRun
  /\ Len(inbox) < SAFETY_INBOX_DEPTH
  /\ inbox' = Post(inbox, type, id)
  /\ InboxFrame

\* io_task: the top button toggles by the published snapshot; the others do nothing.
ButtonPress(button) ==
  /\ OthersRun
  /\ inbox' = CASE button = "TOP" /\ snap \in {"READY", "CHARGING"} ->
                      Post(inbox, "USER_PAUSE", 0)
                [] button = "TOP" /\ snap = "USER_PAUSED" -> Post(inbox, "USER_RESUME", 0)
                [] button # "TOP" \/ snap \notin {"READY", "CHARGING", "USER_PAUSED"} -> inbox
  /\ InboxFrame

WorldFrame == UNCHANGED <<pc, n, inbox, evseVars, fs, cpVars, rfidVars, streak, otherVars,
                          meterVars>>

\* persist_task lands a boot_config or calibration write.
ConfigWrite(c) ==
  /\ OthersRun /\ config' = c
  /\ UNCHANGED <<ntc, safeFail>> /\ WorldFrame

\* A new ADC scan of the NTC ranks.
AdcScan(pair) ==
  /\ pc = "sleep" /\ ntc' = pair
  /\ UNCHANGED <<config, safeFail>> /\ WorldFrame

\* persist_task runs crash_state_reset_alive.
AliveMarker ==
  /\ OthersRun /\ safeFail /\ safeFail' = FALSE
  /\ UNCHANGED <<config, ntc>> /\ WorldFrame

\* A power cycle, CMD_RESTART or the watchdog: RAM and the pins start over.
Reset(cause) ==
  /\ cause = "soft" => OthersRun
  /\ pc' = "boot" /\ n' = 0 /\ inbox' = <<>>
  /\ es' = "SELF_TEST" /\ fs' = fault_init /\ cp' = j1772_init
  /\ cpOut' = "idle" /\ relay' = FALSE /\ latch' = FALSE
  /\ session' = [active |-> FALSE, faults |-> 0] /\ derate' = 0
  /\ replug' = 0 /\ follow' = 0 /\ auth' = FALSE /\ learn' = 0
  /\ streak' = [c |-> 0, cpE |-> 0, adc |-> 0, ot |-> 0]
  /\ prev' = [js |-> "INVALID", es |-> "BOOT"]
  /\ gfci' = gfci_context_init /\ refresh' = FALSE
  /\ pollDiv' = 0 /\ bl' = [valid |-> FALSE, mains |-> FALSE, ma |-> 0]
  /\ met' = [ac |-> 0, weld |-> 0, stuck |-> 0, hoc |-> 0, soc |-> 0,
             wasClosed |-> FALSE, settle |-> 0]
  /\ residual' = 0
  /\ safeFail' \in IF cause = "watchdog" THEN SafeFailBoots ELSE {FALSE}
  /\ snap' = "BOOT"
  /\ UNCHANGED <<config, ntc>>

-----------------------------------------------------------------------------
Boot ==
  \/ \E mv \in CpMv : BootSample(mv)
  \/ \E mv \in CpMv, rail \in AdcRail : BootSelfTest(mv, rail)
  \/ \E pass \in CalOutcomes : BootGfciTest(pass)
  \/ BootDone

DrainInbox ==
  \/ ClearFault \/ UserPause \/ UserResume \/ RfidLearnArm \/ SimulateReplug
  \/ RunGfciCalTest \/ CalTestDone \/ Publish \/ DrainDone

Tick ==
  \/ ServiceReplug
  \/ \E mv \in cp_high_mv : Classify(mv)
  \/ check_safe_fail
  \/ \E pe2 \in Pe2Low : check_gfci(pe2)
  \/ \E rail \in AdcRail : check_adc_runtime(rail)
  \/ check_cp_e \/ check_over_temp \/ update_evse_from_j1772 \/ check_cp_regression
  \/ apply_relay_state \/ apply_cp_for_state
  \/ Poll \/ check_ac_absent \/ check_relay_weld_bl0939 \/ check_relay_stuck_open_bl0939
  \/ check_hard_over_current \/ check_soft_over_current
  \/ \E card \in Swipes : RfidSwipe(card)
  \/ PublishSnapshot \/ Wake

Environment ==
  \/ \E type \in ReqTypes : CommsPost(type, 0)
  \/ \E id \in ClearIds : CommsPost("CLEAR_FAULT", id)
  \/ \E button \in Buttons : ButtonPress(button)
  \/ \E c \in Configs : ConfigWrite(c)
  \/ \E pair \in NtcPairs : AdcScan(pair)
  \/ AliveMarker
  \/ \E cause \in Resets : Reset(cause)

SafetyLoop == Boot \/ DrainInbox \/ Tick

Next == SafetyLoop \/ Environment

Spec == Init /\ [][Next]_vars

\* The loop never stops by itself: the scheduler runs the highest-priority task.
FairSpec == Spec /\ WF_vars(SafetyLoop)

-----------------------------------------------------------------------------
(* Type invariant. *)

Sessions == [active : BOOLEAN, faults : 0..SESSION_FAULTS_MAX]
Streaks  == [c : 0..EVSE_C_DWELL_TICKS, cpE : 0..CP_E_PERSIST_TICKS,
             adc : 0..ADC_RUNTIME_PERSIST_TICKS, ot : 0..OT_PERSIST_TICKS]
Memories == [ac : 0..BL0939_DETECTOR_PERSIST, weld : 0..BL0939_DETECTOR_PERSIST,
             stuck : 0..BL0939_STUCK_OPEN_PERSIST, hoc : 0..BL0939_HOC_PERSIST_POLLS,
             soc : 0..BL0939_SOC_PERSIST_POLLS, wasClosed : BOOLEAN,
             settle : 0..BL0939_WELD_SETTLE_POLLS]

LoopTypes  == pc \in Stages /\ n \in 0..(DRAIN_MAX + BOOT_SAMPLES)
InboxTypes == inbox \in Seq(Requests) /\ Len(inbox) <= SAFETY_INBOX_DEPTH
EvseTypes  ==
  /\ es \in EvseStates /\ session \in Sessions
  /\ derate \in 0..(HW_AMPS_MAX - SOC_DERATE_FLOOR_A)
  /\ relay \in BOOLEAN /\ latch \in BOOLEAN /\ cpOut \in {"idle", "advertise", "F"}
FaultTypes == fs \in FaultState
CpTypes    ==
  /\ cp \in Classifier /\ replug \in 0..SAFETY_REPLUG_WINDOW_TICKS /\ follow \in 0..CP_LAG
RfidTypes  == auth \in BOOLEAN /\ learn \in 0..RFID_LEARN_TICKS
StreakTypes == streak \in Streaks
OtherTypes ==
  /\ prev \in [js : J1772States, es : EvseStates] /\ gfci \in GfciContext
  /\ refresh \in BOOLEAN /\ snap \in EvseStates
MeterTypes ==
  /\ pollDiv \in 0..BL0939_POLL_TICKS /\ bl \in Readings /\ met \in Memories
  /\ residual \in 0..RESIDUAL_POLLS
WorldTypes ==
  /\ config \in Settings /\ ntc \in Nat \X Nat /\ safeFail \in BOOLEAN

\* Every variable keeps its C type's range: streaks saturate at their
\* persistence limit, the inbox holds its depth, and the uint8_t derate stops at
\* the 6 A floor of the largest rating, whatever the amps were set to in between.
TypeOK ==
  /\ LoopTypes /\ InboxTypes /\ EvseTypes /\ FaultTypes /\ CpTypes /\ RfidTypes
  /\ StreakTypes /\ OtherTypes /\ MeterTypes /\ WorldTypes

-----------------------------------------------------------------------------
(* Safety. *)

\* The stages between apply_relay_state and the next tick's inbox.
AfterRelay == {"cp", "poll", "ac", "weld", "stuck", "hoc", "soc", "rfid", "publish", "sleep"}

\* From the end of the relay stage to the next wake-up a closed contactor
\* means CHARGING, a vehicle in state C, no latched fault and no force-open
\* latch - also when a BL0939 detector trips after the relay stage ran.
ContactorInterlock ==
  pc \in AfterRelay /\ relay =>
    /\ es = "CHARGING" /\ cp.committed = "C"
    /\ ~fault_any_latched_active(fs) /\ ~latch

\* EVSE_FAULT, an active latched fault and the armed force-open latch are one
\* condition at every stage, and under it the contactor command is open: a
\* fault is never lost by a partial clear, and the latch is released when, and
\* only when, FAULT is left.
FaultLatchCoherent ==
  /\ es = "FAULT" <=> fault_any_latched_active(fs)
  /\ latch <=> es = "FAULT"
  /\ es = "FAULT" => ~relay

\* The GFCI policy's raise-once flag agrees with the fault state, so a cleared
\* FAULT_GFCI could never be re-raised - and it is never cleared.
GfciContextAgrees == gfci.faultActive <=> fault_is_active(fs, FAULT_GFCI)

\* A session is open exactly while the state is CHARGING, whichever of the
\* inbox, a detector or the classifier ends it.
SessionIsCharging == session.active <=> es = "CHARGING"

\* A crash-looping unit never closes the contactor, even though CLEAR_FAULT can
\* clear the safe-fail fault: the same tick raises it again before the relay stage.
SafeFailOpen == safeFail => ~relay

\* The firmware's own state-F drive (FAULT, replug window) never trips the
\* missing-pilot detector when the vehicle side never reads E: the classifier
\* re-initialisations and streak resets on both exits are enough.
NoSpuriousPilotFault == ~fault_is_active(fs, FAULT_CP_NO_PILOT)

\* PE2 held low for the debounce under any policy but WARN leaves the contactor
\* open in the same tick - also when the policy byte changed during the episode.
GroundFaultStops ==
  pc \in {"cp", "poll", "ac", "weld", "stuck", "hoc", "soc"} =>
    (gfci.streak = GFCI_PERSIST_TICKS /\ config.policy # "WARN" => ~relay)

\* A load that bleeds off within the settle window is never taken for a welded
\* contactor, whenever between two polls the opening fell.
NoSpuriousWeld == ~fault_is_active(fs, FAULT_RELAY_WELD)

-----------------------------------------------------------------------------
(* What a step may never do. *)

\* FAULT_GFCI leaves the active set only through a reset, never by CLEAR_FAULT.
GfciNeedsReset ==
  [][fault_is_active(fs, FAULT_GFCI) /\ ~fault_is_active(fs', FAULT_GFCI) => pc' = "boot"]_vars

\* A session that a fault ends has the fault in its fault_count: the event is
\* posted before the session is closed.
FaultEndIsCounted ==
  [][es = "CHARGING" /\ es' = "FAULT" => session'.faults > 0]_vars

\* The contactor closes only after the full dwell, with a session open and, where
\* a card is required, with a granted authorization.
CloseNeedsDwellAndAuth ==
  [][~relay /\ relay' => /\ streak.c = EVSE_C_DWELL_TICKS /\ session.active
                         /\ config.requireAuth => auth]_vars

\* The soft over-current derate is sticky within a session: a transient drop of
\* the current never gives amps back.
DerateSticky == [][session.active /\ session'.active => derate' >= derate]_vars

-----------------------------------------------------------------------------
(* Liveness, under FairSpec. *)

\* A replug window ends although SIMULATE_REPLUG re-arms it: the driven F makes
\* the classifier commit E, and in E the request is refused.
ReplugEnds == replug > 0 ~> replug = 0

\* The closed contactor's next reading is more than 7.2 A, the hard limit of the 6 A floor.
ReadsOverdraw == pc = "poll" /\ pc' = "ac" /\ relay => bl'.ma > SOC_DERATE_FLOOR_A * 1200

\* A vehicle that keeps drawing more than the floor's hard limit is cut off
\* although no single detector sees its fixed threshold exceeded: the soft limit
\* ramps the advertised current down until the hard limit follows below the draw.
OverdrawStops == <>[][ReadsOverdraw]_vars => []<>~relay

Cool == Populated(ntc) # {} /\ Hottest(ntc) >= OT_CLEAR_RAW

\* The unit waits in COOLING_DOWN for a fault to clear that is no longer there.
CoolsForNothing == es = "COOLING_DOWN" /\ ~fault_is_active(fs, FAULT_OVER_TEMP)

\* A unit whose fitted sensors stay below the clear temperature leaves COOLING_DOWN by
\* itself, unless FAULT_OVER_TEMP is taken away behind its back: only the clear edge of
\* an active fault leaves the state.  Nothing but a CLEAR_FAULT that names FAULT_OVER_TEMP
\* takes it away, not the clearing of all faults, a pause or another detector.
CoolingEnds ==
  /\ (es = "COOLING_DOWN" /\ []Cool) ~> (es # "COOLING_DOWN" \/ CoolsForNothing)
  /\ [][~CoolsForNothing /\ CoolsForNothing' =>
          pc = "drain" /\ Head(inbox) = [type |-> "CLEAR_FAULT", id |-> FAULT_OVER_TEMP]]_vars

-----------------------------------------------------------------------------
(***************************************************************************)
(* What comments and documents of the repository say and the code does not *)
(* do.  Each is checked by a run that expects its violation.               *)
(***************************************************************************)

\* "COOLING_DOWN exits only when check_over_temp clears the over-temp condition",
\* so a unit with FAULT_OVER_TEMP active does not charge.
NoChargeWhileOverTemp ==
  pc \in AfterRelay /\ fault_is_active(fs, FAULT_OVER_TEMP) => ~relay
=============================================================================
