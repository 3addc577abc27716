-------------------------- MODULE SafetyTaskProofs --------------------------
(***************************************************************************)
(* Theorems about SafetyTask, for every value of its constants.            *)
(***************************************************************************)
EXTENDS SafetyTask, TLAPS

-----------------------------------------------------------------------------
(* What the fault bookkeeping of core/fault.c preserves, for every fault state. *)

\* A non-empty set of fault ids has a lowest one: the scan of fault_clear finds it.
LEMMA LowestExists ==
  ASSUME NEW S \in SUBSET FaultIds, S # {}
  PROVE  \E id \in S : \A other \in S : id <= other
<1> SUFFICES ASSUME \A id \in S : \E other \in S : ~(id <= other) PROVE FALSE
  OBVIOUS
<1>0. FaultIds = 1..20
  BY DEF FaultIds, FAULT_NONE, FAULT_COUNT
<1>1. \A k \in 1..20 : (\A j \in 1..20 : j < k => j \notin S) => k \notin S
  BY <1>0
<1>2. 1 \notin S /\ 2 \notin S /\ 3 \notin S /\ 4 \notin S /\ 5 \notin S
  BY <1>1, <1>0
<1>3. 6 \notin S /\ 7 \notin S /\ 8 \notin S /\ 9 \notin S /\ 10 \notin S
  BY <1>1, <1>2, <1>0
<1>4. 11 \notin S /\ 12 \notin S /\ 13 \notin S /\ 14 \notin S /\ 15 \notin S
  BY <1>1, <1>2, <1>3, <1>0
<1>5. 16 \notin S /\ 17 \notin S /\ 18 \notin S /\ 19 \notin S /\ 20 \notin S
  BY <1>1, <1>2, <1>3, <1>4, <1>0
<1>6. PICK id : id \in S /\ id \in 1..20
  BY <1>0
<1>7. id \in 1..5 \/ id \in 6..10 \/ id \in 11..15 \/ id \in 16..20
  BY <1>6
<1> QED
  BY <1>2, <1>3, <1>4, <1>5, <1>6, <1>7

\* first_raised is one of the active faults, or none when none is active.
LEMMA LowestActiveType ==
  ASSUME NEW S \in SUBSET FaultIds
  PROVE  /\ S = {} => LowestActive(S) = FAULT_NONE
         /\ S # {} => LowestActive(S) \in S /\ \A other \in S : LowestActive(S) <= other
         /\ LowestActive(S) \in FaultIds \cup {FAULT_NONE}
<1>1. CASE S = {}
  BY <1>1 DEF LowestActive
<1>2. CASE S # {}
  BY <1>2, LowestExists DEF LowestActive
<1> QED
  BY <1>1, <1>2

\* fault_raise adds its id and nothing else.
LEMMA RaiseFacts ==
  ASSUME NEW f \in FaultState, NEW id \in FaultIds
  PROVE  /\ fault_raise(f, id) \in FaultState
         /\ fault_raise(f, id).active = f.active \cup {id}
BY DEF fault_raise, FaultState, FAULT_NONE

\* fault_clear removes at most its id, and never FAULT_GFCI.
LEMMA ClearFacts ==
  ASSUME NEW f \in FaultState, NEW id
  PROVE  /\ fault_clear(f, id) \in FaultState
         /\ fault_clear(f, id).active = IF id = FAULT_GFCI THEN f.active ELSE f.active \ {id}
<1>1. CASE id \notin FaultIds \/ id = FAULT_GFCI \/ id \notin f.active
  BY <1>1 DEF fault_clear, FaultState
<1>2. CASE ~(id \notin FaultIds \/ id = FAULT_GFCI \/ id \notin f.active)
  <2>1. f.active \ {id} \in SUBSET FaultIds
    BY DEF FaultState
  <2>2. LowestActive(f.active \ {id}) \in FaultIds \cup {FAULT_NONE}
    BY <2>1, LowestActiveType
  <2> QED
    BY <1>2, <2>1, <2>2 DEF fault_clear, FaultState
<1> QED
  BY <1>1, <1>2

\* fault_clear_all_clearable leaves FAULT_GFCI and the self-clearing faults.
LEMMA ClearAllFacts ==
  ASSUME NEW f \in FaultState
  PROVE  /\ fault_clear_all_clearable(f) \in FaultState
         /\ fault_clear_all_clearable(f).active = f.active \ (LatchedKind \ {FAULT_GFCI})
<1>1. f.active \ (LatchedKind \ {FAULT_GFCI}) \in SUBSET FaultIds
  BY DEF FaultState
<1>2. LowestActive(f.active \ (LatchedKind \ {FAULT_GFCI})) \in FaultIds \cup {FAULT_NONE}
  BY <1>1, LowestActiveType
<1> QED
  BY <1>1, <1>2 DEF fault_clear_all_clearable, FaultState

-----------------------------------------------------------------------------
(* What the operators return. *)

\* A saturating counter stays within its limit.
LEMMA CountType ==
  ASSUME NEW on \in BOOLEAN, NEW max \in Nat, NEW k \in 0..max
  PROVE  Count(on, k, max) \in 0..max
BY DEF Count

\* The session's fault counter saturates.
LEMMA PostType ==
  ASSUME NEW s \in Sessions
  PROVE  /\ post_fault_event(s) \in Sessions
         /\ post_fault_event(s).active = s.active
         /\ s.active => post_fault_event(s).faults > 0
<1>1. SESSION_FAULTS_MAX \in Nat \ {0}
  BY SafetyAssumption
<1> QED
  BY <1>1 DEF post_fault_event, Sessions

\* The classifier stays within its type, whatever is read.
LEMMA ClassifierType ==
  ASSUME NEW c \in Classifier, NEW mv \in Int
  PROVE  j1772_step(c, mv) \in Classifier
<1>1. classify_strict(mv) \in J1772States
  BY DEF classify_strict, J1772States, Bands
<1> DEFINE streak1 == IF classify_strict(mv) # c.candidate THEN 1
                      ELSE IF c.streak < STREAK_MAX THEN c.streak + 1 ELSE c.streak
<1>2. streak1 \in 0..STREAK_MAX
  BY DebounceAssumption DEF Classifier
<1> HIDE DEF streak1
<1>3. j1772_step(c, mv) =
        [committed |-> IF streak1 >= J1772_DEBOUNCE_N THEN classify_strict(mv) ELSE c.committed,
         candidate |-> classify_strict(mv), streak |-> streak1]
  BY DEF j1772_step, streak1
<1> QED
  BY <1>1, <1>2, <1>3 DEF Classifier

\* The GFCI policy stays within its type and keeps faultActive, which it sets only
\* together with the RAISE_FAULT action.
LEMMA GfciStepFacts ==
  ASSUME NEW ctx \in GfciContext, NEW pe2 \in BOOLEAN, NEW policy
  PROVE  LET step == gfci_policy_step(ctx, pe2, policy)
         IN  /\ step.ctx \in GfciContext
             /\ step.act \in GfciActions
             /\ step.ctx.faultActive = (ctx.faultActive \/ step.act = "RAISE_FAULT")
<1> DEFINE streak1 == IF ~pe2 THEN 0
                      ELSE IF ctx.streak < GFCI_PERSIST_TICKS THEN ctx.streak + 1 ELSE ctx.streak
           warned1 == ctx.warned /\ pe2
           act1    == CASE streak1 < GFCI_PERSIST_TICKS                     -> "NONE"
                        [] streak1 >= GFCI_PERSIST_TICKS /\ policy = "WARN" ->
                             IF warned1 THEN "NONE" ELSE "WARN_EMIT"
                        [] streak1 >= GFCI_PERSIST_TICKS /\ policy # "WARN" ->
                             IF ctx.faultActive THEN "NONE" ELSE "RAISE_FAULT"
<1>1. streak1 \in 0..GFCI_PERSIST_TICKS
  BY GfciPersistAssumption DEF GfciContext
<1>2. warned1 \in BOOLEAN /\ ctx.faultActive \in BOOLEAN
  BY DEF GfciContext
<1>3. act1 \in GfciActions
  <2> HIDE DEF streak1, warned1
  <2>1. streak1 < GFCI_PERSIST_TICKS \/ streak1 >= GFCI_PERSIST_TICKS
    BY <1>1, GfciPersistAssumption
  <2> QED
    BY <2>1 DEF GfciActions
<1>4. gfci_policy_step(ctx, pe2, policy) =
        [ctx |-> [streak |-> streak1, warned |-> warned1 \/ act1 = "WARN_EMIT",
                  faultActive |-> ctx.faultActive \/ act1 = "RAISE_FAULT"],
         act |-> act1]
  BY DEF gfci_policy_step
<1> HIDE DEF streak1, warned1, act1
<1> QED
  BY <1>1, <1>2, <1>3, <1>4 DEF GfciContext

\* The over-temperature streak saturates.
LEMMA OverTempType ==
  ASSUME NEW k \in 0..OT_PERSIST_TICKS, NEW active, NEW pair
  PROVE  over_temp_step(k, active, pair).streak \in 0..OT_PERSIST_TICKS
<1> DEFINE over1   == Populated(pair) # {} /\ ~active /\ Hottest(pair) <= OT_TRIP_RAW
           streak1 == IF ~over1 THEN 0 ELSE IF k < OT_PERSIST_TICKS THEN k + 1 ELSE k
<1>1. over_temp_step(k, active, pair).streak = streak1
  BY DEF over_temp_step
<1> HIDE DEF over1
<1> QED
  BY <1>1, OtPersistAssumption

\* The values a reset gives.
LEMMA InitialRecords ==
  /\ fault_init \in FaultState /\ j1772_init \in Classifier /\ gfci_context_init \in GfciContext
  /\ [active |-> FALSE, faults |-> 0] \in Sessions
<1>1. fault_init \in FaultState
  BY DEF fault_init, FaultState
<1>2. j1772_init \in Classifier
  BY DebounceAssumption DEF j1772_init, Classifier, J1772States
<1>3. gfci_context_init \in GfciContext
  BY GfciPersistAssumption DEF gfci_context_init, GfciContext
<1>4. [active |-> FALSE, faults |-> 0] \in Sessions
  BY SafetyAssumption DEF Sessions
<1> QED
  BY <1>1, <1>2, <1>3, <1>4

\* Every move of the state machine keeps the types of what it writes.
LEMMA EnterType ==
  ASSUME EvseTypes, NEW next \in EvseStates, NEW s \in Sessions, Enter(next, s)
  PROVE  /\ es' \in EvseStates /\ session' \in Sessions
         /\ derate' \in 0..(HW_AMPS_MAX - SOC_DERATE_FLOOR_A)
         /\ relay' \in BOOLEAN /\ latch' \in BOOLEAN
<1>1. es' \in EvseStates /\ derate' \in 0..(HW_AMPS_MAX - SOC_DERATE_FLOOR_A)
  BY DEF EvseTypes, Enter, HW_AMPS_MAX, SOC_DERATE_FLOOR_A
<1>2. session' \in Sessions
  <2>1. session_start \in Sessions
    BY SafetyAssumption DEF session_start, Sessions
  <2>2. session_end(s) \in Sessions
    BY DEF session_end, Sessions
  <2> QED
    BY <2>1, <2>2 DEF Enter
<1>3. relay' \in BOOLEAN /\ latch' \in BOOLEAN
  BY Zenon DEF EvseTypes, Enter
<1> QED
  BY <1>1, <1>2, <1>3

\* The same with the pilot.
LEMMA TransitionType ==
  ASSUME EvseTypes, NEW next \in EvseStates, NEW s \in Sessions, evse_transition(next, s)
  PROVE  EvseTypes'
<1>1. cpOut' \in {"idle", "advertise", "F"}
  BY DEF EvseTypes, evse_transition
<1> QED
  BY <1>1, EnterType DEF EvseTypes, evse_transition

\* The advertised amps lie between the 6 A floor and the hardware rating, and a
\* ramp step never takes the derate below the floor.
LEMMA AmpsRange ==
  ASSUME EvseTypes, WorldTypes
  PROVE  /\ effective_advertised_amps \in SOC_DERATE_FLOOR_A..HW_AMPS_MAX
         /\ effective_advertised_amps > SOC_DERATE_FLOOR_A =>
              derate + DerateStep(effective_advertised_amps)
                \in 0..(HW_AMPS_MAX - SOC_DERATE_FLOOR_A)
<1> DEFINE cap1  == IF DIP1_CLOSED THEN HW_AMPS_MAX ELSE DIP1_AMPS_OPEN
           base1 == IF config.amps = 0 THEN cap1 ELSE Least(config.amps, cap1)
<1>1. base1 \in 0..48
  BY DEF WorldTypes, Settings, Least, HW_AMPS_MAX, DIP1_AMPS_OPEN
<1>2. effective_advertised_amps =
        IF derate + 6 >= base1 THEN 6 ELSE base1 - derate
  BY DEF effective_advertised_amps, SOC_DERATE_FLOOR_A
<1>3. derate \in 0..42
  BY DEF EvseTypes, HW_AMPS_MAX, SOC_DERATE_FLOOR_A
<1> HIDE DEF base1
<1>4. \A adv \in 7..48 : DerateStep(adv) \in 1..(adv - 6)
  BY DEF DerateStep
<1> QED
  BY <1>1, <1>2, <1>3, <1>4 DEF HW_AMPS_MAX, SOC_DERATE_FLOOR_A

-----------------------------------------------------------------------------
(* Type correctness, one step per action. *)

\* An inbox entry is taken: what is left still fits, and n counts it.
LEMMA DequeueType ==
  ASSUME TypeOK, NEW type, Dequeue(type)
  PROVE  InboxTypes' /\ n' \in 0..(DRAIN_MAX + BOOT_SAMPLES) /\ pc = "drain"
<1>1. BOOT_SAMPLES \in Nat /\ SAFETY_INBOX_DEPTH \in Nat
  BY SafetyAssumption
<1> QED
  BY <1>1 DEF TypeOK, InboxTypes, LoopTypes, Dequeue, DRAIN_MAX

\* A raised latched fault keeps the types.
LEMMA RaiseLatchedType ==
  ASSUME EvseTypes, FaultTypes, NEW id \in FaultIds, RaiseLatched(id)
  PROVE  EvseTypes' /\ FaultTypes'
<1>1. session \in Sessions /\ post_fault_event(session) \in Sessions
  BY PostType DEF EvseTypes
<1>2. EvseTypes'
  BY <1>1, TransitionType DEF RaiseLatched, EvseStates
<1>3. FaultTypes'
  BY RaiseFacts DEF RaiseLatched, FaultTypes
<1> QED
  BY <1>2, <1>3

\* The boot path keeps the types.
LEMMA BootType ==
  ASSUME TypeOK, Boot
  PROVE  TypeOK'
<1> USE DEF TypeOK
<1>0. /\ BOOT_SAMPLES \in Nat \ {0}
      /\ {FAULT_BOOT_SELF_TEST, FAULT_GFCI_SELF_TEST, FAULT_CRASH_LOOP_SAFE_FAIL} \subseteq FaultIds
  BY SafetyAssumption DEF FaultIds, FAULT_NONE, FAULT_COUNT, FAULT_BOOT_SELF_TEST,
     FAULT_GFCI_SELF_TEST, FAULT_CRASH_LOOP_SAFE_FAIL
<1>1. ASSUME NEW mv \in CpMv, BootSample(mv) PROVE TypeOK'
  <2>1. CpTypes'
    BY <1>1, ClassifierType, SafetyAssumption DEF BootSample, CpTypes
  <2> QED
    BY <1>0, <1>1, <2>1 DEF BootSample, LoopTypes, InboxTypes, EvseTypes, evseVars, FaultTypes,
       RfidTypes, rfidVars, StreakTypes, OtherTypes, otherVars, MeterTypes, meterVars,
       WorldTypes, worldVars, DRAIN_MAX
<1>2. ASSUME NEW mv \in CpMv, NEW rail \in AdcRail, BootSelfTest(mv, rail) PROVE TypeOK'
  <2>1. CpTypes'
    BY <1>2, ClassifierType, SafetyAssumption DEF BootSelfTest, CpTypes
  <2>2. EvseTypes' /\ FaultTypes'
    BY <1>0, <1>2, RaiseLatchedType DEF BootSelfTest, NoFault, EvseTypes, evseVars, FaultTypes
  <2> QED
    BY <1>0, <1>2, <2>1, <2>2 DEF BootSelfTest, Advance, LoopTypes, Stages, InboxTypes,
       RfidTypes, rfidVars, StreakTypes, OtherTypes, otherVars, MeterTypes, meterVars,
       WorldTypes, worldVars, DRAIN_MAX
<1>3. ASSUME NEW pass \in CalOutcomes, BootGfciTest(pass) PROVE TypeOK'
  <2>2. EvseTypes' /\ FaultTypes'
    BY <1>0, <1>3, RaiseLatchedType DEF BootGfciTest, NoFault, EvseTypes, evseVars, FaultTypes
  <2> QED
    BY <1>3, <2>2, SafetyAssumption DEF BootGfciTest, Advance, LoopTypes, Stages, InboxTypes,
       CpTypes, cpVars, RfidTypes, rfidVars, StreakTypes, OtherTypes, MeterTypes, meterVars,
       WorldTypes, worldVars
<1>4. ASSUME BootDone PROVE TypeOK'
  <2>1. CASE safeFail
    BY <1>0, <1>4, <2>1, RaiseLatchedType DEF BootDone, Advance, LoopTypes, Stages, TickStages,
       InboxTypes, CpTypes, cpVars, RfidTypes, rfidVars, StreakTypes, OtherTypes, otherVars,
       MeterTypes, meterVars, WorldTypes, worldVars
  <2>2. CASE ~safeFail
    <3>1. EvseTypes'
      BY <1>4, <2>2, TransitionType DEF BootDone, EvseTypes, EvseStates
    <3> QED
      BY <1>4, <2>2, <3>1 DEF BootDone, Advance, LoopTypes, Stages, TickStages, InboxTypes,
         FaultTypes, CpTypes, cpVars, RfidTypes, rfidVars, StreakTypes, OtherTypes, otherVars,
         MeterTypes, meterVars, WorldTypes, worldVars
  <2> QED
    BY <2>1, <2>2
<1> QED
  BY <1>1, <1>2, <1>3, <1>4 DEF Boot

\* The inbox stage keeps the types.
LEMMA DrainType ==
  ASSUME TypeOK, DrainInbox
  PROVE  TypeOK'
<1> USE DEF TypeOK
<1> DEFINE Frame == /\ UNCHANGED <<otherVars, meterVars, worldVars>>
                    /\ OtherTypes /\ MeterTypes /\ WorldTypes
<1>0. Frame => OtherTypes' /\ MeterTypes' /\ WorldTypes'
  BY DEF OtherTypes, otherVars, MeterTypes, meterVars, WorldTypes, worldVars
<1>a. pc \in Stages /\ session \in Sessions /\ es \in EvseStates
  BY DEF LoopTypes, EvseTypes
<1>1. CASE ClearFault
  <2> DEFINE id   == Head(inbox).id
             left == IF id = 0 THEN fault_clear_all_clearable(fs) ELSE fault_clear(fs, id)
  <2>1. left \in FaultState
    BY ClearFacts, ClearAllFacts DEF FaultTypes
  <2>2. FaultTypes'
    <3>1. [left EXCEPT !.first = FAULT_NONE] \in FaultState
      BY <2>1 DEF FaultState
    <3>2. fs' = left \/ fs' = [left EXCEPT !.first = FAULT_NONE]
      BY <1>1 DEF ClearFault
    <3> QED
      BY <2>1, <3>1, <3>2 DEF FaultTypes
  <2> HIDE DEF left
  <2>3. EvseTypes'
    <3>1. evse_transition("READY", session) \/ evse_transition(es, session)
      BY <1>1 DEF ClearFault
    <3> QED
      BY <3>1, <1>a, TransitionType DEF EvseStates
  <2>4. CpTypes'
    BY <1>1, DebounceAssumption DEF ClearFault, CpTypes, j1772_init, Classifier, J1772States
  <2>5. StreakTypes'
    <3>1. [streak EXCEPT !.cpE = 0] \in Streaks
      BY SafetyAssumption DEF StreakTypes, Streaks
    <3>2. streak' = streak \/ streak' = [streak EXCEPT !.cpE = 0]
      BY <1>1 DEF ClearFault
    <3> QED
      BY <3>1, <3>2 DEF StreakTypes
  <2>6. InboxTypes' /\ LoopTypes'
    BY <1>1, <1>a, DequeueType DEF ClearFault, LoopTypes
  <2> QED
    BY <1>1, <1>0, <2>2, <2>3, <2>4, <2>5, <2>6 DEF ClearFault, RfidTypes, rfidVars
<1>2. CASE UserPause \/ UserResume
  <2>1. EvseTypes'
    BY <1>2, <1>a, TransitionType DEF UserPause, UserResume, EvseStates
  <2>2. InboxTypes' /\ LoopTypes'
    BY <1>2, <1>a, DequeueType DEF UserPause, UserResume, LoopTypes
  <2> QED
    BY <1>2, <1>0, <2>1, <2>2 DEF UserPause, UserResume, FaultTypes, CpTypes, cpVars,
       RfidTypes, rfidVars, StreakTypes
<1>3. CASE RfidLearnArm
  <2>1. InboxTypes' /\ LoopTypes'
    BY <1>3, <1>a, DequeueType DEF RfidLearnArm, LoopTypes
  <2> QED
    BY <1>3, <1>0, <2>1, SafetyAssumption DEF RfidLearnArm, EvseTypes, evseVars, FaultTypes,
       CpTypes, cpVars, RfidTypes, StreakTypes
<1>4. CASE SimulateReplug
  <2>1. InboxTypes' /\ LoopTypes'
    BY <1>4, <1>a, DequeueType DEF SimulateReplug, LoopTypes
  <2>2. CASE /\ cp.committed \in {"B", "C", "D"}
             /\ es \in {"READY", "CHARGING", "USER_PAUSED", "COOLING_DOWN"}
    <3>1. EvseTypes'
      BY <1>4, <1>a, <2>2, EnterType DEF SimulateReplug, EvseTypes, EvseStates
    <3>2. CpTypes'
      BY <1>4, <2>2, SafetyAssumption DEF SimulateReplug, CpTypes
    <3> QED
      BY <1>4, <1>0, <2>1, <2>2, <3>1, <3>2 DEF SimulateReplug, FaultTypes, RfidTypes, rfidVars,
         StreakTypes
  <2>3. CASE ~(/\ cp.committed \in {"B", "C", "D"}
               /\ es \in {"READY", "CHARGING", "USER_PAUSED", "COOLING_DOWN"})
    BY <1>4, <1>0, <2>1, <2>3 DEF SimulateReplug, EvseTypes, evseVars, FaultTypes, CpTypes,
       RfidTypes, rfidVars, StreakTypes
  <2> QED
    BY <2>2, <2>3
<1>5. CASE RunGfciCalTest
  <2>1. InboxTypes' /\ LoopTypes'
    BY <1>5, <1>a, DequeueType DEF RunGfciCalTest, LoopTypes, Stages, TickStages
  <2> QED
    BY <1>5, <1>0, <2>1 DEF RunGfciCalTest, EvseTypes, evseVars, FaultTypes, CpTypes, cpVars,
       RfidTypes, rfidVars, StreakTypes
<1>6. CASE CalTestDone
  BY <1>6, <1>0 DEF CalTestDone, Advance, LoopTypes, Stages, TickStages, InboxTypes, EvseTypes,
     evseVars, FaultTypes, CpTypes, cpVars, RfidTypes, rfidVars, StreakTypes
<1>7. CASE Publish
  <2>1. InboxTypes' /\ LoopTypes'
    BY <1>7, <1>a, DequeueType DEF Publish, LoopTypes
  <2> QED
    BY <1>7, <1>0, <2>1 DEF Publish, EvseTypes, evseVars, FaultTypes, CpTypes, cpVars,
       RfidTypes, rfidVars, StreakTypes
<1>8. CASE DrainDone
  <2>1. BOOT_SAMPLES \in Nat
    BY SafetyAssumption
  <2> QED
    BY <1>8, <1>0, <2>1 DEF DrainDone, Advance, LoopTypes, DRAIN_MAX, Stages, TickStages,
       InboxTypes, EvseTypes, evseVars, FaultTypes, CpTypes, cpVars, RfidTypes, rfidVars,
       StreakTypes
<1> QED
  BY <1>1, <1>2, <1>3, <1>4, <1>5, <1>6, <1>7, <1>8 DEF DrainInbox

\* The ids the detectors raise are fault ids.
LEMMA DetectorIds ==
  {FAULT_CRASH_LOOP_SAFE_FAIL, FAULT_GFCI, FAULT_ADC_OUT_OF_RANGE, FAULT_CP_NO_PILOT,
   FAULT_OVER_TEMP, FAULT_AC_ABSENT, FAULT_RELAY_WELD, FAULT_RELAY_STUCK_OPEN,
   FAULT_HARD_OVER_CURRENT, FAULT_SOFT_OVER_CURRENT} \subseteq FaultIds
BY DEF FaultIds, FAULT_NONE, FAULT_COUNT, FAULT_CRASH_LOOP_SAFE_FAIL, FAULT_GFCI,
   FAULT_ADC_OUT_OF_RANGE, FAULT_CP_NO_PILOT, FAULT_OVER_TEMP, FAULT_AC_ABSENT,
   FAULT_RELAY_WELD, FAULT_RELAY_STUCK_OPEN, FAULT_HARD_OVER_CURRENT, FAULT_SOFT_OVER_CURRENT

\* The stages from the replug countdown to the pilot keep the types.
LEMMA TickType ==
  ASSUME TypeOK,
         \/ ServiceReplug
         \/ \E mv \in cp_high_mv : Classify(mv)
         \/ check_safe_fail
         \/ \E pe2 \in Pe2Low : check_gfci(pe2)
         \/ \E rail \in AdcRail : check_adc_runtime(rail)
         \/ check_cp_e \/ check_over_temp \/ update_evse_from_j1772 \/ check_cp_regression
         \/ apply_relay_state \/ apply_cp_for_state
  PROVE  TypeOK'
<1> USE DEF TypeOK
<1>a. session \in Sessions /\ es \in EvseStates /\ post_fault_event(session) \in Sessions
  BY PostType DEF EvseTypes
<1>b. UNCHANGED worldVars /\ UNCHANGED meterVars => MeterTypes' /\ WorldTypes'
  BY DEF MeterTypes, meterVars, WorldTypes, worldVars
<1>1. CASE ServiceReplug
  <2>1. EvseTypes'
    <3>1. CASE replug = 1
      BY <1>1, <1>a, <3>1, TransitionType DEF ServiceReplug, EvseStates
    <3>2. CASE replug # 1
      BY <1>1, <3>2 DEF ServiceReplug, EvseTypes, evseVars
    <3> QED
      BY <3>1, <3>2
  <2>2. CpTypes'
    BY <1>1, SafetyAssumption, DebounceAssumption
       DEF ServiceReplug, CpTypes, j1772_init, Classifier, J1772States
  <2>3. StreakTypes'
    BY <1>1, SafetyAssumption DEF ServiceReplug, StreakTypes, Streaks
  <2> QED
    BY <1>1, <1>b, <2>1, <2>2, <2>3 DEF ServiceReplug, Advance, LoopTypes, Stages, TickStages,
       InboxTypes, FaultTypes, RfidTypes, rfidVars, OtherTypes, otherVars
<1>2. ASSUME NEW mv \in cp_high_mv, Classify(mv) PROVE TypeOK'
  <2>1. mv \in Int
    BY SafetyAssumption DEF cp_high_mv, DRIVEN_F_MV
  <2>2. cp' \in Classifier
    BY <1>2, <2>1, ClassifierType DEF Classify, CpTypes
  <2>3. CpTypes'
    BY <1>2, <2>2, SafetyAssumption DEF Classify, CpTypes, Least
  <2> QED
    BY <1>2, <1>b, <2>3 DEF Classify, Advance, LoopTypes, Stages, TickStages, InboxTypes,
       EvseTypes, evseVars, FaultTypes, RfidTypes, rfidVars, StreakTypes, OtherTypes, otherVars
<1>3. CASE check_safe_fail
  <2>1. EvseTypes' /\ FaultTypes'
    BY <1>3, RaiseLatchedType, DetectorIds DEF check_safe_fail, NoFault, EvseTypes, evseVars,
       FaultTypes
  <2> QED
    BY <1>3, <1>b, <2>1 DEF check_safe_fail, Advance, LoopTypes, Stages, TickStages, InboxTypes,
       CpTypes, cpVars, RfidTypes, rfidVars, StreakTypes, OtherTypes, otherVars
<1>4. ASSUME NEW pe2 \in Pe2Low, check_gfci(pe2) PROVE TypeOK'
  <2>1. gfci' \in GfciContext
    BY <1>4, GfciStepFacts, SafetyAssumption DEF check_gfci, OtherTypes
  <2>2. EvseTypes' /\ FaultTypes'
    <3>1. CASE NoFault
      BY <3>1 DEF NoFault, EvseTypes, evseVars, FaultTypes
    <3>2. CASE /\ session' = post_fault_event(session)
               /\ UNCHANGED <<fs, es, derate, relay, latch, cpOut>>
      BY <1>a, <3>2 DEF EvseTypes, FaultTypes
    <3>3. CASE RaiseLatched(FAULT_GFCI)
      BY <3>3, RaiseLatchedType, DetectorIds
    <3> QED
      BY <1>4, <3>1, <3>2, <3>3 DEF check_gfci
  <2> QED
    BY <1>4, <1>b, <2>1, <2>2 DEF check_gfci, Advance, LoopTypes, Stages, TickStages, InboxTypes,
       CpTypes, cpVars, RfidTypes, rfidVars, StreakTypes, OtherTypes
<1>5. ASSUME NEW rail \in AdcRail, check_adc_runtime(rail) PROVE TypeOK'
  <2> DEFINE k == Count(rail /\ es # "FAULT", streak.adc, ADC_RUNTIME_PERSIST_TICKS)
  <2>1. k \in 0..ADC_RUNTIME_PERSIST_TICKS
    BY CountType, SafetyAssumption DEF StreakTypes, Streaks
  <2>2. streak' = [streak EXCEPT !.adc = k]
    BY <1>5 DEF check_adc_runtime
  <2>3. RaiseLatched(FAULT_ADC_OUT_OF_RANGE) \/ NoFault
    BY <1>5 DEF check_adc_runtime
  <2> HIDE DEF k
  <2>4. StreakTypes'
    BY <2>1, <2>2 DEF StreakTypes, Streaks
  <2>5. EvseTypes' /\ FaultTypes'
    BY <2>3, RaiseLatchedType, DetectorIds DEF NoFault, EvseTypes, evseVars, FaultTypes
  <2> QED
    BY <1>5, <1>b, <2>4, <2>5 DEF check_adc_runtime, Advance, LoopTypes, Stages, TickStages,
       InboxTypes, CpTypes, cpVars, RfidTypes, rfidVars, OtherTypes, otherVars
<1>6. CASE check_cp_e
  <2> DEFINE k == Count(cp.committed = "E" /\ es # "FAULT" /\ replug = 0,
                        streak.cpE, CP_E_PERSIST_TICKS)
  <2>1. k \in 0..CP_E_PERSIST_TICKS
    BY CountType, SafetyAssumption DEF StreakTypes, Streaks
  <2>2. streak' = [streak EXCEPT !.cpE = k]
    BY <1>6 DEF check_cp_e
  <2>3. RaiseLatched(FAULT_CP_NO_PILOT) \/ NoFault
    BY <1>6 DEF check_cp_e
  <2> HIDE DEF k
  <2>4. StreakTypes'
    BY <2>1, <2>2 DEF StreakTypes, Streaks
  <2>5. EvseTypes' /\ FaultTypes'
    BY <2>3, RaiseLatchedType, DetectorIds DEF NoFault, EvseTypes, evseVars, FaultTypes
  <2> QED
    BY <1>6, <1>b, <2>4, <2>5 DEF check_cp_e, Advance, LoopTypes, Stages, TickStages, InboxTypes,
       CpTypes, cpVars, RfidTypes, rfidVars, OtherTypes, otherVars
<1>7. CASE check_over_temp
  <2> DEFINE act == over_temp_step(streak.ot, fault_is_active(fs, FAULT_OVER_TEMP), ntc)
  <2>1. act.streak \in 0..OT_PERSIST_TICKS
    BY OverTempType DEF StreakTypes, Streaks
  <2>2. streak' = [streak EXCEPT !.ot = act.streak]
    BY <1>7 DEF check_over_temp
  <2>3. \/ /\ fs' = fault_raise(fs, FAULT_OVER_TEMP)
           /\ evse_transition(IF es = "FAULT" THEN es ELSE "COOLING_DOWN",
                              post_fault_event(session))
        \/ /\ fs' = fault_clear(fs, FAULT_OVER_TEMP)
           /\ evse_transition(IF es = "COOLING_DOWN" THEN "READY" ELSE es, session)
        \/ NoFault
    BY <1>7 DEF check_over_temp
  <2> HIDE DEF act
  <2>4. StreakTypes'
    BY <2>1, <2>2 DEF StreakTypes, Streaks
  <2>5. FaultTypes'
    <3>1. fs \in FaultState /\ FAULT_OVER_TEMP \in FaultIds
      BY DetectorIds DEF FaultTypes
    <3>2. fault_raise(fs, FAULT_OVER_TEMP) \in FaultState
      BY <3>1, RaiseFacts
    <3>3. fault_clear(fs, FAULT_OVER_TEMP) \in FaultState
      BY <3>1, ClearFacts
    <3>4. fs' \in {fault_raise(fs, FAULT_OVER_TEMP), fault_clear(fs, FAULT_OVER_TEMP), fs}
      BY <2>3 DEF NoFault
    <3> QED
      BY <3>1, <3>2, <3>3, <3>4 DEF FaultTypes
  <2>6. EvseTypes'
    BY <2>3, <1>a, TransitionType DEF EvseStates, NoFault, EvseTypes, evseVars
  <2> QED
    BY <1>7, <1>b, <2>4, <2>5, <2>6 DEF check_over_temp, Advance, LoopTypes, Stages, TickStages,
       InboxTypes, CpTypes, cpVars, RfidTypes, rfidVars, OtherTypes, otherVars
<1>8. CASE update_evse_from_j1772
  <2>1. [streak EXCEPT !.c = 0] \in Streaks
    BY SafetyAssumption DEF StreakTypes, Streaks
  <2>2. CASE EvseSticky
    BY <1>8, <1>b, <2>1, <2>2 DEF update_evse_from_j1772, EvseSticky, Advance, LoopTypes, Stages,
       TickStages, InboxTypes, EvseTypes, evseVars, FaultTypes, CpTypes, cpVars, RfidTypes,
       StreakTypes, OtherTypes, otherVars
  <2>3. CASE EvsePaused
    <3>1. EvseTypes'
      BY <2>3, <1>a, TransitionType DEF EvsePaused, EvseStates
    <3>2. auth' \in BOOLEAN
      BY <2>3, Zenon DEF EvsePaused
    <3> QED
      BY <1>8, <1>b, <2>1, <2>3, <3>1, <3>2 DEF update_evse_from_j1772, EvsePaused, Advance,
         LoopTypes, Stages, TickStages, InboxTypes, FaultTypes, CpTypes, cpVars, RfidTypes,
         StreakTypes, OtherTypes, otherVars
  <2>4. CASE EvseRunning
    <3> DEFINE k == Count(cp.committed = "C", streak.c, EVSE_C_DWELL_TICKS)
    <3>1. EvseTypes'
      <4>1. \/ evse_transition("CHARGING", session) \/ evse_transition("READY", session)
            \/ UNCHANGED evseVars
        BY <2>4 DEF EvseRunning
      <4> QED
        BY <4>1, <1>a, TransitionType DEF EvseStates, EvseTypes, evseVars
    <3>2. auth' \in BOOLEAN
      BY <2>4, Zenon DEF EvseRunning
    <3>3. k \in 0..EVSE_C_DWELL_TICKS
      BY CountType, SafetyAssumption DEF StreakTypes, Streaks
    <3>4. streak' = [streak EXCEPT !.c = k]
      BY <2>4 DEF EvseRunning
    <3> HIDE DEF k
    <3>5. StreakTypes'
      BY <3>3, <3>4 DEF StreakTypes, Streaks
    <3> QED
      BY <1>8, <1>b, <3>1, <3>2, <3>5 DEF update_evse_from_j1772, Advance, LoopTypes, Stages,
         TickStages, InboxTypes, FaultTypes, CpTypes, cpVars, RfidTypes, OtherTypes, otherVars
  <2> QED
    BY <1>8, <2>2, <2>3, <2>4 DEF update_evse_from_j1772
<1>9. CASE check_cp_regression
  BY <1>9, <1>a, <1>b DEF check_cp_regression, Advance, LoopTypes, Stages, TickStages, InboxTypes,
     EvseTypes, FaultTypes, CpTypes, cpVars, RfidTypes, rfidVars, StreakTypes, OtherTypes,
     Classifier
<1>10. CASE apply_relay_state
  <2>1. relay' \in BOOLEAN
    BY <1>10, Zenon DEF apply_relay_state
  <2> QED
    BY <1>10, <1>b, <2>1 DEF apply_relay_state, Advance, LoopTypes, Stages, TickStages, InboxTypes,
       EvseTypes, FaultTypes, CpTypes, cpVars, RfidTypes, rfidVars, StreakTypes, OtherTypes,
       otherVars
<1>11. CASE apply_cp_for_state
  <2>1. cpOut' \in {"idle", "advertise", "F"}
    <3>1. replug > 0 \/ replug = 0
      BY SafetyAssumption DEF CpTypes
    <3> QED
      BY <1>11, <3>1 DEF apply_cp_for_state
  <2> QED
    BY <1>11, <1>b, <2>1 DEF apply_cp_for_state, Advance, LoopTypes, Stages, TickStages, InboxTypes,
       EvseTypes, FaultTypes, CpTypes, cpVars, RfidTypes, rfidVars, StreakTypes, OtherTypes,
       otherVars
<1> QED
  BY <1>1, <1>2, <1>3, <1>4, <1>5, <1>6, <1>7, <1>8, <1>9, <1>10, <1>11

\* A self-clearing fault keeps the types, raised or cleared.
LEMMA SelfClearingType ==
  ASSUME EvseTypes, FaultTypes, NEW id \in FaultIds,
         RaiseSelfClearing(id) \/ ClearSelfClearing(id) \/ NoFault
  PROVE  EvseTypes' /\ FaultTypes'
<1>1. post_fault_event(session) \in Sessions
  BY PostType DEF EvseTypes
<1>2. fs \in FaultState /\ fault_raise(fs, id) \in FaultState /\ fault_clear(fs, id) \in FaultState
  BY RaiseFacts, ClearFacts DEF FaultTypes
<1>3. CASE RaiseSelfClearing(id)
  BY <1>1, <1>2, <1>3 DEF RaiseSelfClearing, EvseTypes, FaultTypes
<1>4. CASE ClearSelfClearing(id)
  BY <1>2, <1>4 DEF ClearSelfClearing, EvseTypes, evseVars, FaultTypes
<1>5. CASE NoFault
  BY <1>5 DEF NoFault, EvseTypes, evseVars, FaultTypes
<1> QED
  BY <1>3, <1>4, <1>5

\* The BL0939 stages keep the types.
LEMMA PollType ==
  ASSUME TypeOK,
         \/ Poll \/ check_ac_absent \/ check_relay_weld_bl0939 \/ check_relay_stuck_open_bl0939
         \/ check_hard_over_current \/ check_soft_over_current
  PROVE  TypeOK'
<1> USE DEF TypeOK
<1>a. /\ BL0939_DETECTOR_PERSIST \in Nat /\ BL0939_STUCK_OPEN_PERSIST \in Nat
      /\ BL0939_WELD_SETTLE_POLLS \in Nat /\ BL0939_HOC_PERSIST_POLLS \in Nat
      /\ BL0939_SOC_PERSIST_POLLS \in Nat /\ BL0939_POLL_TICKS \in Nat /\ RESIDUAL_POLLS \in Nat
  BY SafetyAssumption
<1>b. met \in Memories /\ bl \in Readings
  BY DEF MeterTypes
<1>c. ASSUME EvseTypes', FaultTypes', met' \in Memories, pc' \in Stages, MeterFrame
      PROVE  TypeOK'
  BY <1>c DEF MeterFrame, LoopTypes, InboxTypes, CpTypes, cpVars, RfidTypes, rfidVars, StreakTypes,
     OtherTypes, otherVars, MeterTypes, WorldTypes, worldVars
<1>d. \A from, to : Advance(from, to) /\ to \in Stages => pc' \in Stages
  BY DEF Advance
<1>1. CASE Poll
  <2>1. pollDiv' \in 0..BL0939_POLL_TICKS /\ residual' \in 0..RESIDUAL_POLLS
    BY <1>1, <1>a DEF Poll, MeterTypes
  <2>2. bl' \in Readings
    BY <1>1, SafetyAssumption DEF Poll, MeterTypes, bl0939_readings
  <2>3. MeterTypes'
    BY <1>1, <2>1, <2>2 DEF Poll, MeterTypes
  <2> QED
    BY <1>1, <2>3 DEF Poll, LoopTypes, Stages, TickStages, InboxTypes, EvseTypes, evseVars,
       FaultTypes, CpTypes, cpVars, RfidTypes, rfidVars, StreakTypes, OtherTypes, otherVars,
       WorldTypes, worldVars
<1>2. CASE check_ac_absent
  <2>1. Count(~bl.mains, met.ac, BL0939_DETECTOR_PERSIST) \in 0..BL0939_DETECTOR_PERSIST
    BY <1>a, <1>b, CountType DEF Memories, Readings
  <2>2. met' \in Memories
    <3>1. \/ met' = [met EXCEPT !.ac = met.ac]
          \/ met' = [met EXCEPT !.ac = Count(~bl.mains, met.ac, BL0939_DETECTOR_PERSIST)]
      BY <1>2 DEF check_ac_absent
    <3> QED
      BY <1>b, <2>1, <3>1 DEF Memories
  <2>3. RaiseSelfClearing(FAULT_AC_ABSENT) \/ ClearSelfClearing(FAULT_AC_ABSENT) \/ NoFault
    BY <1>2 DEF check_ac_absent
  <2>4. EvseTypes' /\ FaultTypes'
    BY <2>3, SelfClearingType, DetectorIds
  <2> QED
    BY <1>2, <1>c, <1>d, <2>2, <2>4 DEF check_ac_absent, Stages, TickStages
<1>3. CASE check_relay_weld_bl0939
  <2> DEFINE k == Count(bl.ma >= WELD_FLOW_MA /\ ~relay, met.weld, BL0939_DETECTOR_PERSIST)
  <2>1. k \in 0..BL0939_DETECTOR_PERSIST
    BY <1>a, <1>b, CountType DEF Memories
  <2>2. WeldSettle \in 0..BL0939_WELD_SETTLE_POLLS /\ relay \in BOOLEAN
    BY <1>a, <1>b DEF WeldSettle, Memories, EvseTypes
  <2>3. \/ met' = met \/ met' = [met EXCEPT !.weld = 0]
        \/ WeldSettle > 0 /\ met' = [met EXCEPT !.wasClosed = relay, !.settle = WeldSettle - 1,
                                                !.weld = 0]
        \/ met' = [met EXCEPT !.wasClosed = relay, !.weld = k]
    BY <1>3 DEF check_relay_weld_bl0939
  <2>4. RaiseLatched(FAULT_RELAY_WELD) \/ NoFault
    BY <1>3 DEF check_relay_weld_bl0939
  <2> HIDE DEF k
  <2>5. met' \in Memories
    <3>1. CASE met' = met \/ met' = [met EXCEPT !.weld = 0]
      BY <1>a, <1>b, <3>1 DEF Memories
    <3>2. CASE /\ WeldSettle > 0
               /\ met' = [met EXCEPT !.wasClosed = relay, !.settle = WeldSettle - 1, !.weld = 0]
      <4>1. WeldSettle - 1 \in 0..BL0939_WELD_SETTLE_POLLS /\ 0 \in 0..BL0939_DETECTOR_PERSIST
        BY <1>a, <2>2, <3>2
      <4> QED
        BY <1>b, <2>2, <3>2, <4>1 DEF Memories
    <3>3. CASE met' = [met EXCEPT !.wasClosed = relay, !.weld = k]
      BY <1>b, <2>1, <2>2, <3>3 DEF Memories
    <3> QED
      BY <2>3, <3>1, <3>2, <3>3
  <2>6. EvseTypes' /\ FaultTypes'
    BY <2>4, RaiseLatchedType, DetectorIds DEF NoFault, EvseTypes, evseVars, FaultTypes
  <2> QED
    BY <1>3, <1>c, <1>d, <2>5, <2>6 DEF check_relay_weld_bl0939, Stages, TickStages
<1>4. CASE check_relay_stuck_open_bl0939
  <2> DEFINE k == Count(config.calibrated /\ es = "CHARGING" /\ relay /\ bl.ma < WELD_FLOW_MA,
                        met.stuck, BL0939_STUCK_OPEN_PERSIST)
  <2>1. k \in 0..BL0939_STUCK_OPEN_PERSIST
    BY <1>a, <1>b, CountType DEF Memories
  <2>2. met' = met \/ met' = [met EXCEPT !["stuck"] = k]
    BY <1>4 DEF check_relay_stuck_open_bl0939, Detect
  <2>3. RaiseLatched(FAULT_RELAY_STUCK_OPEN) \/ NoFault
    BY <1>4 DEF check_relay_stuck_open_bl0939, Detect
  <2> HIDE DEF k
  <2>4. met' \in Memories
    BY <1>b, <2>1, <2>2 DEF Memories
  <2>5. EvseTypes' /\ FaultTypes'
    BY <2>3, RaiseLatchedType, DetectorIds DEF NoFault, EvseTypes, evseVars, FaultTypes
  <2> QED
    BY <1>4, <1>c, <1>d, <2>4, <2>5 DEF check_relay_stuck_open_bl0939, Stages, TickStages
<1>5. CASE check_hard_over_current
  <2> DEFINE k == Count(config.calibrated /\ bl.ma > HardLimitMa, met.hoc, BL0939_HOC_PERSIST_POLLS)
  <2>1. k \in 0..BL0939_HOC_PERSIST_POLLS
    BY <1>a, <1>b, CountType DEF Memories
  <2>2. met' = met \/ met' = [met EXCEPT !["hoc"] = k]
    BY <1>5 DEF check_hard_over_current, Detect
  <2>3. RaiseLatched(FAULT_HARD_OVER_CURRENT) \/ NoFault
    BY <1>5 DEF check_hard_over_current, Detect
  <2> HIDE DEF k
  <2>4. met' \in Memories
    BY <1>b, <2>1, <2>2 DEF Memories
  <2>5. EvseTypes' /\ FaultTypes'
    BY <2>3, RaiseLatchedType, DetectorIds DEF NoFault, EvseTypes, evseVars, FaultTypes
  <2> QED
    BY <1>5, <1>c, <1>d, <2>4, <2>5 DEF check_hard_over_current, Stages, TickStages
<1>6. CASE check_soft_over_current
  <2>1. met' \in Memories
    <3>1. \/ met' = met \/ met' = [met EXCEPT !.soc = 0]
          \/ met.soc < BL0939_SOC_PERSIST_POLLS /\ met' = [met EXCEPT !.soc = @ + 1]
      BY <1>6 DEF check_soft_over_current, SocWithinLimit, SocCounts, SocRamps, SocAtFloor
    <3> QED
      BY <1>a, <1>b, <3>1 DEF Memories
  <2>2. EvseTypes' /\ FaultTypes'
    <3>1. CASE SocRamps
      BY <3>1, AmpsRange DEF SocRamps, EvseTypes, FaultTypes
    <3>2. CASE ~SocRamps
      <4>1. \/ RaiseSelfClearing(FAULT_SOFT_OVER_CURRENT) \/ ClearSelfClearing(FAULT_SOFT_OVER_CURRENT)
            \/ NoFault
        BY <1>6, <3>2 DEF check_soft_over_current, SocWithinLimit, SocCounts, SocAtFloor
      <4> QED
        BY <4>1, SelfClearingType, DetectorIds
    <3> QED
      BY <3>1, <3>2
  <2> QED
    BY <1>6, <1>c, <1>d, <2>1, <2>2 DEF check_soft_over_current, Stages, TickStages
<1> QED
  BY <1>1, <1>2, <1>3, <1>4, <1>5, <1>6

\* Posting to the inbox respects its depth.
LEMMA PostBox ==
  ASSUME NEW box \in Seq(Requests), Len(box) <= SAFETY_INBOX_DEPTH,
         NEW type \in RequestTypes, NEW id \in Nat
  PROVE  Post(box, type, id) \in Seq(Requests) /\ Len(Post(box, type, id)) <= SAFETY_INBOX_DEPTH
<1>1. [type |-> type, id |-> id] \in Requests
  BY DEF Requests
<1>2. SAFETY_INBOX_DEPTH \in Nat
  BY SafetyAssumption
<1> QED
  BY <1>1, <1>2 DEF Post

\* The end of the tick, the other tasks and the resets keep the types.
LEMMA RestType ==
  ASSUME TypeOK,
         (\E card \in Swipes : RfidSwipe(card)) \/ PublishSnapshot \/ Wake \/ Environment
  PROVE  TypeOK'
<1> USE DEF TypeOK
<1>a. /\ RFID_LEARN_TICKS \in Nat /\ SAFETY_INBOX_DEPTH \in Nat /\ SAFETY_REPLUG_WINDOW_TICKS \in Nat
      /\ BL0939_POLL_TICKS \in Nat /\ RESIDUAL_POLLS \in Nat /\ CP_LAG \in Nat /\ BOOT_SAMPLES \in Nat
  BY SafetyAssumption
<1>b. /\ inbox \in Seq(Requests) /\ Len(inbox) <= SAFETY_INBOX_DEPTH
      /\ {"USER_PAUSE", "USER_RESUME", "CLEAR_FAULT"} \subseteq RequestTypes
  BY DEF InboxTypes, RequestTypes
<1>1. ASSUME NEW card \in Swipes, RfidSwipe(card) PROVE TypeOK'
  <2>1. InboxTypes'
    <3>1. inbox' \in {Post(inbox, "USER_PAUSE", 0), Post(inbox, "USER_RESUME", 0), inbox}
      BY <1>1 DEF RfidSwipe
    <3> QED
      BY <1>b, <3>1, PostBox DEF InboxTypes
  <2>2. learn' \in 0..RFID_LEARN_TICKS
    BY <1>1, <1>a DEF RfidSwipe, RfidTypes
  <2>3. auth' \in BOOLEAN
    BY <1>1, Zenon DEF RfidSwipe
  <2> QED
    BY <1>1, <2>1, <2>2, <2>3 DEF RfidSwipe, Advance, LoopTypes, Stages, TickStages, EvseTypes,
       evseVars, FaultTypes, CpTypes, cpVars, RfidTypes, StreakTypes, OtherTypes, otherVars,
       MeterTypes, meterVars, WorldTypes, worldVars
<1>2. CASE PublishSnapshot \/ Wake
  BY <1>2 DEF PublishSnapshot, Wake, Advance, LoopTypes, Stages, TickStages, InboxTypes, EvseTypes,
     evseVars, FaultTypes, CpTypes, cpVars, RfidTypes, rfidVars, StreakTypes, OtherTypes, otherVars,
     MeterTypes, meterVars, WorldTypes, worldVars
<1>c. InboxTypes' /\ InboxFrame => TypeOK'
  BY DEF InboxFrame, LoopTypes, EvseTypes, evseVars, FaultTypes, CpTypes, cpVars, RfidTypes,
     rfidVars, StreakTypes, OtherTypes, otherVars, MeterTypes, meterVars, WorldTypes, worldVars
<1>3. ASSUME NEW type \in RequestTypes, NEW id \in Nat, CommsPost(type, id) PROVE TypeOK'
  BY <1>3, <1>b, <1>c, PostBox DEF CommsPost, InboxTypes
<1>4. ASSUME NEW button \in Buttons, ButtonPress(button) PROVE TypeOK'
  <2>1. inbox' \in {Post(inbox, "USER_PAUSE", 0), Post(inbox, "USER_RESUME", 0), inbox}
    BY <1>4 DEF ButtonPress
  <2>2. InboxTypes'
    BY <1>b, <2>1, PostBox DEF InboxTypes
  <2> QED
    BY <1>4, <1>c, <2>2 DEF ButtonPress
<1>d. WorldTypes' /\ WorldFrame => TypeOK'
  BY DEF WorldFrame, LoopTypes, InboxTypes, EvseTypes, evseVars, FaultTypes, CpTypes, cpVars,
     RfidTypes, rfidVars, StreakTypes, OtherTypes, otherVars, MeterTypes, meterVars
<1>5. ASSUME NEW c \in Configs, ConfigWrite(c) PROVE TypeOK'
  BY <1>5, <1>d, SafetyAssumption DEF ConfigWrite, WorldTypes
<1>6. ASSUME NEW pair \in NtcPairs, AdcScan(pair) PROVE TypeOK'
  BY <1>6, <1>d, SafetyAssumption DEF AdcScan, WorldTypes
<1>7. CASE AliveMarker
  BY <1>7, <1>d DEF AliveMarker, WorldTypes
<1>8. ASSUME NEW cause \in Resets, Reset(cause) PROVE TypeOK'
  <2>1. LoopTypes' /\ InboxTypes'
    BY <1>8, <1>a DEF Reset, LoopTypes, InboxTypes, Stages, DRAIN_MAX
  <2>2. EvseTypes' /\ FaultTypes'
    <3>1. relay' \in BOOLEAN /\ latch' \in BOOLEAN
      BY <1>8, Zenon DEF Reset
    <3>2. es' \in EvseStates /\ derate' \in 0..(HW_AMPS_MAX - SOC_DERATE_FLOOR_A)
      BY <1>8 DEF Reset, EvseStates, HW_AMPS_MAX, SOC_DERATE_FLOOR_A
    <3> QED
      BY <1>8, <3>1, <3>2, InitialRecords, Zenon DEF Reset, EvseTypes, FaultTypes
  <2>3. CpTypes' /\ RfidTypes'
    <3>1. auth' \in BOOLEAN /\ cp' \in Classifier
      BY <1>8, InitialRecords, Zenon DEF Reset
    <3> QED
      BY <1>8, <1>a, <3>1 DEF Reset, CpTypes, RfidTypes
  <2>4. StreakTypes'
    BY <1>8, SafetyAssumption, OtPersistAssumption DEF Reset, StreakTypes, Streaks
  <2>5. OtherTypes'
    BY <1>8, InitialRecords DEF Reset, OtherTypes, J1772States, EvseStates
  <2>6. MeterTypes'
    BY <1>8, <1>a, SafetyAssumption DEF Reset, MeterTypes, Readings, Memories
  <2>7. WorldTypes'
    BY <1>8, SafetyAssumption DEF Reset, WorldTypes
  <2> QED
    BY <2>1, <2>2, <2>3, <2>4, <2>5, <2>6, <2>7
<1>9. CASE Environment
  <2>1. /\ ReqTypes \subseteq RequestTypes /\ ClearIds \subseteq Nat /\ 0 \in Nat
        /\ "CLEAR_FAULT" \in RequestTypes
    BY <1>b, SafetyAssumption
  <2> QED
    BY <1>9, <1>3, <1>4, <1>5, <1>6, <1>7, <1>8, <2>1 DEF Environment
<1> QED
  BY <1>1, <1>2, <1>9

\* The state after power-on has the types.
LEMMA InitType ==
  ASSUME Init
  PROVE  TypeOK
<1> USE DEF Init
<1>a. /\ RFID_LEARN_TICKS \in Nat /\ SAFETY_INBOX_DEPTH \in Nat
      /\ SAFETY_REPLUG_WINDOW_TICKS \in Nat /\ BL0939_POLL_TICKS \in Nat
      /\ RESIDUAL_POLLS \in Nat /\ CP_LAG \in Nat /\ BOOT_SAMPLES \in Nat
  BY SafetyAssumption
<1>1. LoopTypes /\ InboxTypes
  BY <1>a DEF LoopTypes, InboxTypes, Stages, DRAIN_MAX
<1>2. EvseTypes /\ FaultTypes
  <2>1. relay \in BOOLEAN /\ latch \in BOOLEAN
    BY Zenon
  <2>2. es \in EvseStates /\ derate \in 0..(HW_AMPS_MAX - SOC_DERATE_FLOOR_A)
    BY DEF EvseStates, HW_AMPS_MAX, SOC_DERATE_FLOOR_A
  <2> QED
    BY <2>1, <2>2, InitialRecords, Zenon DEF EvseTypes, FaultTypes
<1>3. CpTypes /\ RfidTypes
  <2>1. auth \in BOOLEAN /\ cp \in Classifier
    BY InitialRecords, Zenon
  <2> QED
    BY <1>a, <2>1 DEF CpTypes, RfidTypes
<1>4. StreakTypes
  BY SafetyAssumption, OtPersistAssumption DEF StreakTypes, Streaks
<1>5. OtherTypes
  BY InitialRecords DEF OtherTypes, J1772States, EvseStates
<1>6. MeterTypes
  BY <1>a, SafetyAssumption DEF MeterTypes, Readings, Memories
<1>7. WorldTypes
  BY SafetyAssumption DEF WorldTypes
<1> QED
  BY <1>1, <1>2, <1>3, <1>4, <1>5, <1>6, <1>7 DEF TypeOK

\* Type correctness of the safety task, for every value of the constants: the
\* streaks saturate, the inbox holds its depth and the derate stops at the floor.
THEOREM TypeCorrect == Spec => []TypeOK
<1>1. Init => TypeOK
  BY InitType
<1>2. TypeOK /\ [Next]_vars => TypeOK'
  <2>1. ASSUME TypeOK, UNCHANGED vars PROVE TypeOK'
    BY <2>1 DEF vars, TypeOK, LoopTypes, InboxTypes, EvseTypes, evseVars, FaultTypes, CpTypes,
       cpVars, RfidTypes, rfidVars, StreakTypes, OtherTypes, otherVars, MeterTypes, meterVars,
       WorldTypes, worldVars
  <2>2. ASSUME TypeOK, Tick PROVE TypeOK'
    BY <2>2, TickType, PollType, RestType DEF Tick
  <2> QED
    BY <2>1, <2>2, BootType, DrainType, RestType DEF Next, SafetyLoop
<1> QED
  BY <1>1, <1>2, PTL DEF Spec
=============================================================================
