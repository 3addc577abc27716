------------------------ MODULE SafetyInterlockProofs ------------------------
(***************************************************************************)
(* The contactor interlock of SafetyTask, for every value of its           *)
(* constants.  ContactorInterlock is not inductive: that the contactor is  *)
(* open under a latched fault rests on FAULT, the latched faults and the   *)
(* force-open latch being one condition at every stage (FaultLatchCoherent)*)
(* and that every transition keeps that rests on one summary of            *)
(* evse_transition, the action Move below.                                 *)
(*                                                                         *)
(* The parts that follow use it for how a charge begins and ends, for      *)
(* ground faults and the derate, and then show what holds under stated     *)
(* assumptions on the inputs: no spurious pilot or weld fault, and a pause *)
(* that holds.                                                             *)
(***************************************************************************)
EXTENDS SafetyTaskProofs, PauseHistory

\* What every move of the state machine does to the contactor, the latch and the
\* session.
Move(next) ==
  /\ es' = next
  /\ latch' <=> next = "FAULT"
  /\ relay' => relay /\ next # "FAULT"
  /\ session'.active <=> next = "CHARGING"

\* The part of the invariant that Move preserves.
Coherent == TypeOK /\ FaultLatchCoherent /\ SessionIsCharging /\ GfciContextAgrees

\* evse_transition is a Move.
LEMMA EnterMove ==
  ASSUME Coherent, NEW next \in EvseStates, NEW s \in Sessions, s.active <=> session.active,
         Enter(next, s)
  PROVE  Move(next)
<1>1. /\ latch <=> es = "FAULT"
      /\ es = "FAULT" => ~relay
      /\ session.active <=> es = "CHARGING"
  BY DEF Coherent, FaultLatchCoherent, SessionIsCharging
<1>2. es' = next
  BY DEF Enter
<1>3. latch' <=> next = "FAULT"
  BY <1>1, Zenon DEF Enter
<1>4. relay' => relay /\ next # "FAULT"
  BY <1>1, Zenon DEF Enter, Trips
<1>5. session'.active <=> next = "CHARGING"
  <2>1. session_start.active /\ ~session_end(s).active
    BY DEF session_start, session_end, Sessions
  <2> QED
    BY <1>1, <2>1 DEF Enter
<1> QED
  BY <1>2, <1>3, <1>4, <1>5 DEF Move

\* Leaving the state machine alone is a Move to the same state.
LEMMA StayMove ==
  ASSUME Coherent, UNCHANGED <<es, relay, latch>>, session'.active <=> session.active
  PROVE  Move(es)
<1>1. /\ latch <=> es = "FAULT"
      /\ es = "FAULT" => ~relay
      /\ session.active <=> es = "CHARGING"
  BY DEF Coherent, FaultLatchCoherent, SessionIsCharging
<1> QED
  BY <1>1 DEF Move

\* A Move and a matching fault state keep the invariant.
LEMMA MoveCoherent ==
  ASSUME TypeOK', NEW next, Move(next),
         fault_any_latched_active(fs') <=> next = "FAULT",
         gfci'.faultActive <=> fault_is_active(fs', FAULT_GFCI)
  PROVE  Coherent'
<1>1. FaultLatchCoherent'
  BY DEF Move, FaultLatchCoherent, fault_any_latched_active
<1>2. SessionIsCharging'
  BY DEF Move, SessionIsCharging
<1>3. GfciContextAgrees'
  BY DEF GfciContextAgrees, fault_is_active
<1> QED
  BY <1>1, <1>2, <1>3 DEF Coherent

\* The kinds of the detectors' faults.
LEMMA Kinds ==
  /\ {FAULT_CRASH_LOOP_SAFE_FAIL, FAULT_GFCI, FAULT_ADC_OUT_OF_RANGE, FAULT_CP_NO_PILOT,
      FAULT_BOOT_SELF_TEST, FAULT_GFCI_SELF_TEST, FAULT_RELAY_WELD, FAULT_RELAY_STUCK_OPEN,
      FAULT_HARD_OVER_CURRENT} \subseteq LatchedKind
  /\ LatchedKind \subseteq FaultIds
  /\ {FAULT_OVER_TEMP, FAULT_AC_ABSENT, FAULT_SOFT_OVER_CURRENT} \subseteq FaultIds \ LatchedKind
  /\ FAULT_GFCI \notin {FAULT_CRASH_LOOP_SAFE_FAIL, FAULT_ADC_OUT_OF_RANGE, FAULT_CP_NO_PILOT,
                        FAULT_BOOT_SELF_TEST, FAULT_GFCI_SELF_TEST, FAULT_RELAY_WELD,
                        FAULT_RELAY_STUCK_OPEN, FAULT_HARD_OVER_CURRENT, FAULT_OVER_TEMP,
                        FAULT_AC_ABSENT, FAULT_SOFT_OVER_CURRENT}
BY DEF FaultIds, LatchedKind, FAULT_FIRST_SELF_CLEARING, FAULT_NONE, FAULT_COUNT,
   FAULT_CRASH_LOOP_SAFE_FAIL, FAULT_GFCI, FAULT_ADC_OUT_OF_RANGE, FAULT_CP_NO_PILOT,
   FAULT_BOOT_SELF_TEST, FAULT_GFCI_SELF_TEST, FAULT_OVER_TEMP, FAULT_AC_ABSENT,
   FAULT_RELAY_WELD, FAULT_RELAY_STUCK_OPEN, FAULT_HARD_OVER_CURRENT, FAULT_SOFT_OVER_CURRENT

\* Raising a latched fault is a Move to FAULT that adds exactly its id.
LEMMA RaiseMove ==
  ASSUME Coherent, NEW id \in LatchedKind, RaiseLatched(id)
  PROVE  /\ Move("FAULT") /\ fs'.active = fs.active \cup {id}
         /\ fault_any_latched_active(fs')
<1>1. session \in Sessions /\ fs \in FaultState
  BY DEF Coherent, TypeOK, EvseTypes, FaultTypes
<1>2. /\ post_fault_event(session) \in Sessions
      /\ post_fault_event(session).active = session.active
  BY <1>1, PostType
<1>3. Move("FAULT")
  BY <1>1, <1>2, EnterMove DEF RaiseLatched, evse_transition, EvseStates
<1>4. fs'.active = fs.active \cup {id}
  BY <1>1, RaiseFacts, Kinds DEF RaiseLatched
<1> QED
  BY <1>3, <1>4 DEF fault_any_latched_active

\* Self-clearing faults and silence are Moves to the same state, and leave the
\* latched faults and FAULT_GFCI alone.
LEMMA StayFacts ==
  ASSUME Coherent, NEW id \in FaultIds \ LatchedKind,
         RaiseSelfClearing(id) \/ ClearSelfClearing(id) \/ NoFault
  PROVE  /\ Move(es)
         /\ fs'.active \cap LatchedKind = fs.active \cap LatchedKind
<1>1. session \in Sessions /\ fs \in FaultState
  BY DEF Coherent, TypeOK, EvseTypes, FaultTypes
<1>2. post_fault_event(session).active = session.active
  BY <1>1, PostType
<1>3. CASE RaiseSelfClearing(id)
  <2>1. Move(es)
    BY <1>2, <1>3, StayMove DEF RaiseSelfClearing
  <2>2. fs'.active = fs.active \cup {id}
    BY <1>1, <1>3, RaiseFacts DEF RaiseSelfClearing
  <2> QED
    BY <2>1, <2>2
<1>4. CASE ClearSelfClearing(id)
  <2>1. Move(es)
    BY <1>4, StayMove DEF ClearSelfClearing, evseVars
  <2>2. fs'.active = fs.active \ {id} \/ fs'.active = fs.active
    BY <1>1, <1>4, ClearFacts DEF ClearSelfClearing
  <2> QED
    BY <2>1, <2>2
<1>5. CASE NoFault
  BY <1>5, StayMove DEF NoFault, evseVars
<1> QED
  BY <1>3, <1>4, <1>5

\* A latched fault that is not FAULT_GFCI, raised or not.
LEMMA LatchedDetector ==
  ASSUME Coherent, TypeOK', NEW id \in LatchedKind, id # FAULT_GFCI, UNCHANGED gfci,
         RaiseLatched(id) \/ NoFault
  PROVE  /\ Coherent' /\ fs.active \subseteq fs'.active
         /\ relay' => relay /\ es' = es /\ fs' = fs /\ ~fault_any_latched_active(fs)
<1>1. CASE RaiseLatched(id)
  <2>1. Move("FAULT") /\ fs'.active = fs.active \cup {id} /\ fault_any_latched_active(fs')
    BY <1>1, RaiseMove
  <2>2. gfci'.faultActive <=> fault_is_active(fs', FAULT_GFCI)
    BY <2>1 DEF Coherent, GfciContextAgrees, fault_is_active
  <2>3. Coherent'
    BY <2>1, <2>2, MoveCoherent
  <2> QED
    BY <2>1, <2>3 DEF Move
<1>2. CASE NoFault
  <2>1. Move(es)
    BY <1>2, StayMove DEF NoFault, evseVars
  <2>2. Coherent'
    BY <1>2, <2>1, MoveCoherent DEF NoFault, Coherent, FaultLatchCoherent, GfciContextAgrees
  <2> QED
    BY <1>2, <2>1, <2>2 DEF NoFault, evseVars, Coherent, FaultLatchCoherent
<1> QED
  BY <1>1, <1>2

\* A self-clearing detector.
LEMMA SelfClearingDetector ==
  ASSUME Coherent, TypeOK', NEW id \in FaultIds \ LatchedKind, id # FAULT_GFCI, UNCHANGED gfci,
         RaiseSelfClearing(id) \/ ClearSelfClearing(id) \/ NoFault
  PROVE  /\ Coherent'
         /\ fs'.active \cap LatchedKind = fs.active \cap LatchedKind
         /\ UNCHANGED <<es, relay, latch>>
<1>1. Move(es) /\ fs'.active \cap LatchedKind = fs.active \cap LatchedKind
  BY StayFacts
<1>2. fault_any_latched_active(fs') <=> es = "FAULT"
  BY <1>1 DEF Coherent, FaultLatchCoherent, fault_any_latched_active
<1>3. gfci'.faultActive <=> fault_is_active(fs', FAULT_GFCI)
  BY <1>1, Kinds DEF Coherent, GfciContextAgrees, fault_is_active
<1>4. Coherent'
  BY <1>1, <1>2, <1>3, MoveCoherent
<1> QED
  BY <1>1, <1>4 DEF RaiseSelfClearing, ClearSelfClearing, NoFault, evseVars

\* A transition between states other than FAULT.
LEMMA PlainMove ==
  ASSUME Coherent, TypeOK', UNCHANGED <<fs, gfci>>, NEW next \in EvseStates,
         next = "FAULT" <=> es = "FAULT", Enter(next, session)
  PROVE  Coherent' /\ (relay' => relay /\ next # "FAULT")
<1>1. Move(next)
  BY EnterMove DEF Coherent, TypeOK, EvseTypes
<1>2. Coherent'
  BY <1>1, MoveCoherent DEF Coherent, FaultLatchCoherent, GfciContextAgrees
<1> QED
  BY <1>1, <1>2 DEF Move

\* Nothing that the invariant reads changes.
LEMMA Untouched ==
  ASSUME Coherent, TypeOK', UNCHANGED <<evseVars, fs, gfci>>
  PROVE  Coherent'
BY DEF Coherent, FaultLatchCoherent, SessionIsCharging, GfciContextAgrees, evseVars

\* The boot path keeps the invariant.
LEMMA BootCoherent ==
  ASSUME Coherent, TypeOK', Boot
  PROVE  Coherent' /\ (relay' => relay)
<1>0. /\ FAULT_BOOT_SELF_TEST \in LatchedKind /\ FAULT_BOOT_SELF_TEST # FAULT_GFCI
      /\ FAULT_GFCI_SELF_TEST \in LatchedKind /\ FAULT_GFCI_SELF_TEST # FAULT_GFCI
      /\ FAULT_CRASH_LOOP_SAFE_FAIL \in LatchedKind /\ FAULT_CRASH_LOOP_SAFE_FAIL # FAULT_GFCI
  BY Kinds
<1>1. ASSUME NEW mv \in CpMv, BootSample(mv) PROVE Coherent' /\ (relay' => relay)
  BY <1>1, Untouched DEF BootSample, otherVars, evseVars
<1>2. ASSUME NEW mv \in CpMv, NEW rail \in AdcRail, BootSelfTest(mv, rail)
      PROVE  Coherent' /\ (relay' => relay)
  BY <1>0, <1>2, LatchedDetector DEF BootSelfTest, otherVars
<1>3. ASSUME NEW pass \in CalOutcomes, BootGfciTest(pass) PROVE Coherent' /\ (relay' => relay)
  BY <1>0, <1>3, LatchedDetector DEF BootGfciTest
<1>4. CASE BootDone
  <2>1. CASE safeFail
    BY <1>0, <1>4, <2>1, LatchedDetector DEF BootDone, otherVars
  <2>2. CASE ~safeFail
    <3> DEFINE next == IF es = "FAULT" THEN "FAULT" ELSE "READY"
    <3>1. Enter(next, session) /\ UNCHANGED <<fs, gfci>>
      BY <1>4, <2>2 DEF BootDone, evse_transition, otherVars
    <3>2. next \in EvseStates /\ (next = "FAULT" <=> es = "FAULT")
      BY DEF EvseStates
    <3> QED
      BY <3>1, <3>2, PlainMove
  <2> QED
    BY <2>1, <2>2
<1> QED
  BY <1>1, <1>2, <1>3, <1>4 DEF Boot

\* The inbox stage keeps the invariant and never closes the contactor.
LEMMA DrainCoherent ==
  ASSUME Coherent, TypeOK', DrainInbox
  PROVE  Coherent' /\ (relay' => relay)
<1>0. es \in EvseStates /\ session \in Sessions /\ fs \in FaultState
  BY DEF Coherent, TypeOK, EvseTypes, FaultTypes
<1>1. CASE ClearFault
  <2> DEFINE id      == Head(inbox).id
             refused == id = FAULT_GFCI \/ id >= FAULT_COUNT
             left    == IF id = 0 THEN fault_clear_all_clearable(fs) ELSE fault_clear(fs, id)
             leave   == ~refused /\ es = "FAULT" /\ ~fault_any_latched_active(left)
             next    == IF leave THEN "READY" ELSE es
  <2>1. /\ fs' = IF leave THEN [left EXCEPT !.first = FAULT_NONE] ELSE left
        /\ Enter(next, session) /\ UNCHANGED gfci
    BY <1>1 DEF ClearFault, evse_transition, otherVars
  <2>2. /\ left \in FaultState /\ left.active \subseteq fs.active
        /\ FAULT_GFCI \in fs.active => FAULT_GFCI \in left.active
    <3>1. CASE id = 0
      BY <1>0, <3>1, ClearAllFacts
    <3>2. CASE id # 0
      <4>1. /\ fault_clear(fs, id) \in FaultState
            /\ fault_clear(fs, id).active = IF id = FAULT_GFCI THEN fs.active ELSE fs.active \ {id}
        BY <1>0, ClearFacts
      <4> QED
        BY <3>2, <4>1
    <3> QED
      BY <3>1, <3>2
  <2>3. refused => left = fs
    <3>1. 0 # FAULT_GFCI /\ ~(0 >= FAULT_COUNT)
      BY DEF FAULT_GFCI, FAULT_COUNT
    <3>2. \A k : k >= FAULT_COUNT => k \notin FaultIds
      BY DEF FaultIds, FAULT_COUNT
    <3> QED
      BY <3>1, <3>2 DEF fault_clear
  <2>4. fs'.active = left.active
    BY <2>1, <2>2 DEF FaultState
  <2> HIDE DEF left, refused
  <2>5. Move(next)
    <3>1. next \in EvseStates
      BY <1>0 DEF EvseStates
    <3> QED
      BY <1>0, <2>1, <3>1, EnterMove
  <2>6. fault_any_latched_active(fs') <=> next = "FAULT"
    <3>1. es = "FAULT" <=> fault_any_latched_active(fs)
      BY DEF Coherent, FaultLatchCoherent
    <3>2. fault_any_latched_active(fs') <=> fault_any_latched_active(left)
      BY <2>4 DEF fault_any_latched_active
    <3>3. fault_any_latched_active(left) => fault_any_latched_active(fs)
      BY <2>2 DEF fault_any_latched_active
    <3> QED
      BY <2>3, <3>1, <3>2, <3>3
  <2>7. gfci'.faultActive <=> fault_is_active(fs', FAULT_GFCI)
    BY <2>1, <2>2, <2>4 DEF Coherent, GfciContextAgrees, fault_is_active
  <2>8. Coherent'
    BY <2>5, <2>6, <2>7, MoveCoherent
  <2> QED
    BY <2>5, <2>8 DEF Move
<1>2. CASE UserPause
  <2> DEFINE next == IF es \in {"READY", "CHARGING"} THEN "USER_PAUSED" ELSE es
  <2>1. Enter(next, session) /\ UNCHANGED <<fs, gfci>>
    BY <1>2 DEF UserPause, evse_transition, otherVars
  <2>2. next \in EvseStates /\ (next = "FAULT" <=> es = "FAULT")
    BY <1>0 DEF EvseStates
  <2> QED
    BY <2>1, <2>2, PlainMove
<1>3. CASE UserResume
  <2> DEFINE next == IF es = "USER_PAUSED" THEN "READY" ELSE es
  <2>1. Enter(next, session) /\ UNCHANGED <<fs, gfci>>
    BY <1>3 DEF UserResume, evse_transition, otherVars
  <2>2. next \in EvseStates /\ (next = "FAULT" <=> es = "FAULT")
    BY <1>0 DEF EvseStates
  <2> QED
    BY <2>1, <2>2, PlainMove
<1>4. CASE SimulateReplug
  <2>1. CASE /\ cp.committed \in {"B", "C", "D"}
             /\ es \in {"READY", "CHARGING", "USER_PAUSED", "COOLING_DOWN"}
    <3>1. Enter("USER_PAUSED", session) /\ UNCHANGED <<fs, gfci>>
      BY <1>4, <2>1 DEF SimulateReplug, otherVars
    <3> QED
      BY <2>1, <3>1, PlainMove DEF EvseStates
  <2>2. CASE ~(/\ cp.committed \in {"B", "C", "D"}
               /\ es \in {"READY", "CHARGING", "USER_PAUSED", "COOLING_DOWN"})
    BY <1>4, <2>2, Untouched DEF SimulateReplug, otherVars, evseVars
  <2> QED
    BY <2>1, <2>2
<1>5. CASE RfidLearnArm \/ RunGfciCalTest \/ CalTestDone \/ Publish \/ DrainDone
  BY <1>5, Untouched DEF RfidLearnArm, RunGfciCalTest, CalTestDone, Publish, DrainDone, otherVars,
     evseVars
<1> QED
  BY <1>1, <1>2, <1>3, <1>4, <1>5 DEF DrainInbox

\* The stages up to the relay keep the invariant; only apply_relay_state closes the
\* contactor, and then the state is CHARGING, the pilot C and no fault latched.
LEMMA TickCoherent ==
  ASSUME Coherent, TypeOK',
         \/ ServiceReplug
         \/ \E mv \in cp_high_mv : Classify(mv)
         \/ check_safe_fail
         \/ \E pe2 \in Pe2Low : check_gfci(pe2)
         \/ \E rail \in AdcRail : check_adc_runtime(rail)
         \/ check_cp_e \/ check_over_temp \/ update_evse_from_j1772 \/ check_cp_regression
         \/ apply_cp_for_state
  PROVE  Coherent' /\ (relay' => relay)
<1>0. es \in EvseStates /\ session \in Sessions /\ fs \in FaultState /\ gfci \in GfciContext
  BY DEF Coherent, TypeOK, EvseTypes, FaultTypes, OtherTypes
<1>a. post_fault_event(session) \in Sessions /\ post_fault_event(session).active = session.active
  BY <1>0, PostType
<1>b. /\ FAULT_CRASH_LOOP_SAFE_FAIL \in LatchedKind /\ FAULT_CRASH_LOOP_SAFE_FAIL # FAULT_GFCI
      /\ FAULT_ADC_OUT_OF_RANGE \in LatchedKind /\ FAULT_ADC_OUT_OF_RANGE # FAULT_GFCI
      /\ FAULT_CP_NO_PILOT \in LatchedKind /\ FAULT_CP_NO_PILOT # FAULT_GFCI
      /\ FAULT_OVER_TEMP \in FaultIds \ LatchedKind /\ FAULT_OVER_TEMP # FAULT_GFCI
      /\ FAULT_GFCI \in LatchedKind
  BY Kinds
<1>1. CASE ServiceReplug
  <2>1. CASE replug = 1
    <3> DEFINE next == IF es = "USER_PAUSED" THEN "READY" ELSE es
    <3>1. Enter(next, session) /\ UNCHANGED <<fs, gfci>>
      BY <1>1, <2>1 DEF ServiceReplug, evse_transition, otherVars
    <3>2. next \in EvseStates /\ (next = "FAULT" <=> es = "FAULT")
      BY <1>0 DEF EvseStates
    <3> QED
      BY <3>1, <3>2, PlainMove
  <2>2. CASE replug # 1
    BY <1>1, <2>2, Untouched DEF ServiceReplug, otherVars, evseVars
  <2> QED
    BY <2>1, <2>2
<1>2. ASSUME NEW mv \in cp_high_mv, Classify(mv) PROVE Coherent' /\ (relay' => relay)
  BY <1>2, Untouched DEF Classify, otherVars, evseVars
<1>3. CASE check_safe_fail
  BY <1>b, <1>3, LatchedDetector DEF check_safe_fail, otherVars
<1>4. ASSUME NEW pe2 \in Pe2Low, check_gfci(pe2) PROVE Coherent' /\ (relay' => relay)
  <2> DEFINE step == gfci_policy_step(gfci, pe2, config.policy)
  <2>1. gfci' = step.ctx
    BY <1>4 DEF check_gfci
  <2>2. step.ctx.faultActive = (gfci.faultActive \/ step.act = "RAISE_FAULT")
    BY <1>0, GfciStepFacts, SafetyAssumption
  <2>3. \/ step.act = "NONE" /\ NoFault
        \/ /\ step.act = "WARN_EMIT"
           /\ session' = post_fault_event(session)
           /\ UNCHANGED <<fs, es, derate, relay, latch, cpOut>>
        \/ step.act = "RAISE_FAULT" /\ RaiseLatched(FAULT_GFCI)
    BY <1>4 DEF check_gfci
  <2>4. gfci.faultActive <=> FAULT_GFCI \in fs.active
    BY DEF Coherent, GfciContextAgrees, fault_is_active
  <2> HIDE DEF step
  <2>5. CASE step.act = "RAISE_FAULT" /\ RaiseLatched(FAULT_GFCI)
    <3>1. /\ Move("FAULT") /\ fs'.active = fs.active \cup {FAULT_GFCI}
          /\ fault_any_latched_active(fs')
      BY <1>b, <2>5, RaiseMove
    <3>2. gfci'.faultActive <=> fault_is_active(fs', FAULT_GFCI)
      BY <2>1, <2>2, <2>5, <3>1 DEF fault_is_active
    <3> QED
      BY <3>1, <3>2, MoveCoherent DEF Move
  <2>6. CASE step.act # "RAISE_FAULT"
    <3>1. fs' = fs /\ UNCHANGED <<es, relay, latch>> /\ (session'.active <=> session.active)
      BY <1>a, <2>3, <2>6 DEF NoFault, evseVars
    <3>2. gfci'.faultActive <=> fault_is_active(fs', FAULT_GFCI)
      BY <2>1, <2>2, <2>4, <2>6, <3>1 DEF fault_is_active
    <3>3. Move(es)
      BY <3>1, StayMove
    <3>4. fault_any_latched_active(fs') <=> es = "FAULT"
      BY <3>1 DEF Coherent, FaultLatchCoherent
    <3> QED
      BY <3>1, <3>2, <3>3, <3>4, MoveCoherent
  <2> QED
    BY <2>3, <2>5, <2>6
<1>5. ASSUME NEW rail \in AdcRail, check_adc_runtime(rail) PROVE Coherent' /\ (relay' => relay)
  <2>1. RaiseLatched(FAULT_ADC_OUT_OF_RANGE) \/ NoFault
    BY <1>5 DEF check_adc_runtime
  <2> QED
    BY <1>b, <1>5, <2>1, LatchedDetector DEF check_adc_runtime, otherVars
<1>6. CASE check_cp_e
  <2>1. RaiseLatched(FAULT_CP_NO_PILOT) \/ NoFault
    BY <1>6 DEF check_cp_e
  <2> QED
    BY <1>b, <1>6, <2>1, LatchedDetector DEF check_cp_e, otherVars
<1>7. CASE check_over_temp
  <2>0. UNCHANGED gfci
    BY <1>7 DEF check_over_temp, otherVars
  <2>1. CASE /\ fs' = fault_raise(fs, FAULT_OVER_TEMP)
             /\ evse_transition(IF es = "FAULT" THEN es ELSE "COOLING_DOWN",
                                post_fault_event(session))
    <3> DEFINE next == IF es = "FAULT" THEN es ELSE "COOLING_DOWN"
    <3>1. next \in EvseStates /\ (next = "FAULT" <=> es = "FAULT")
      BY <1>0 DEF EvseStates
    <3>2. fs'.active = fs.active \cup {FAULT_OVER_TEMP}
      BY <1>0, <1>b, <2>1, RaiseFacts
    <3>3. Move(next)
      BY <1>a, <2>1, <3>1, EnterMove DEF evse_transition
    <3>4. fault_any_latched_active(fs') <=> next = "FAULT"
      BY <1>b, <3>1, <3>2 DEF Coherent, FaultLatchCoherent, fault_any_latched_active
    <3>5. gfci'.faultActive <=> fault_is_active(fs', FAULT_GFCI)
      BY <1>b, <2>0, <3>2 DEF Coherent, GfciContextAgrees, fault_is_active
    <3> QED
      BY <3>3, <3>4, <3>5, MoveCoherent DEF Move
  <2>2. CASE /\ fs' = fault_clear(fs, FAULT_OVER_TEMP)
             /\ evse_transition(IF es = "COOLING_DOWN" THEN "READY" ELSE es, session)
    <3> DEFINE next == IF es = "COOLING_DOWN" THEN "READY" ELSE es
    <3>1. next \in EvseStates /\ (next = "FAULT" <=> es = "FAULT")
      BY <1>0 DEF EvseStates
    <3>2. fs'.active = fs.active \ {FAULT_OVER_TEMP}
      BY <1>0, <1>b, <2>2, ClearFacts
    <3>3. Move(next)
      BY <1>0, <2>2, <3>1, EnterMove DEF evse_transition
    <3>4. fault_any_latched_active(fs') <=> next = "FAULT"
      BY <1>b, <3>1, <3>2 DEF Coherent, FaultLatchCoherent, fault_any_latched_active
    <3>5. gfci'.faultActive <=> fault_is_active(fs', FAULT_GFCI)
      BY <1>b, <2>0, <3>2 DEF Coherent, GfciContextAgrees, fault_is_active
    <3> QED
      BY <3>3, <3>4, <3>5, MoveCoherent DEF Move
  <2>3. CASE NoFault
    BY <2>0, <2>3, Untouched DEF NoFault, evseVars
  <2> QED
    BY <1>7, <2>1, <2>2, <2>3 DEF check_over_temp
<1>8. CASE update_evse_from_j1772
  <2>0. UNCHANGED <<fs, gfci>>
    BY <1>8 DEF update_evse_from_j1772, otherVars
  <2>1. \/ UNCHANGED evseVars
        \/ es # "FAULT" /\ Enter("READY", session)
        \/ es # "FAULT" /\ Enter("CHARGING", session)
        \/ es = "USER_PAUSED" /\ Enter("USER_PAUSED", session)
    BY <1>8 DEF update_evse_from_j1772, EvseSticky, EvsePaused, EvseRunning, evse_transition
  <2> QED
    BY <2>0, <2>1, PlainMove, Untouched DEF EvseStates, evseVars
<1>9. CASE check_cp_regression
  <2>1. UNCHANGED <<es, relay, latch, fs, gfci>> /\ (session'.active <=> session.active)
    BY <1>9, <1>a DEF check_cp_regression
  <2>2. Move(es)
    BY <2>1, StayMove
  <2> QED
    BY <2>1, <2>2, MoveCoherent DEF Coherent, FaultLatchCoherent, GfciContextAgrees
<1>10. CASE apply_cp_for_state
  BY <1>10 DEF apply_cp_for_state, otherVars, Coherent, FaultLatchCoherent, SessionIsCharging,
     GfciContextAgrees
<1> QED
  BY <1>1, <1>2, <1>3, <1>4, <1>5, <1>6, <1>7, <1>8, <1>9, <1>10

\* The relay stage keeps the invariant and closes the contactor only when it should.
LEMMA RelayCoherent ==
  ASSUME Coherent, TypeOK', apply_relay_state
  PROVE  /\ Coherent'
         /\ relay' => /\ es' = "CHARGING" /\ cp'.committed = "C"
                      /\ ~fault_any_latched_active(fs') /\ ~latch'
<1>1. UNCHANGED <<es, session, latch, fs, gfci, cp>>
  BY DEF apply_relay_state, cpVars, otherVars
<1>2. relay' => es = "CHARGING" /\ cp.committed = "C" /\ ~fault_any_latched_active(fs)
  BY Zenon DEF apply_relay_state
<1>3. relay' => ~latch /\ es # "FAULT"
  BY <1>2 DEF Coherent, FaultLatchCoherent
<1> QED
  BY <1>1, <1>2, <1>3 DEF Coherent, FaultLatchCoherent, SessionIsCharging, GfciContextAgrees

\* The BL0939 stages keep the invariant; a contactor that stays closed stays CHARGING.
LEMMA PollCoherent ==
  ASSUME Coherent, TypeOK',
         \/ Poll \/ check_ac_absent \/ check_relay_weld_bl0939 \/ check_relay_stuck_open_bl0939
         \/ check_hard_over_current \/ check_soft_over_current
  PROVE  /\ Coherent' /\ UNCHANGED <<cp, safeFail>>
         /\ relay' => relay /\ es' = es
<1>a. /\ FAULT_RELAY_WELD \in LatchedKind /\ FAULT_RELAY_WELD # FAULT_GFCI
      /\ FAULT_RELAY_STUCK_OPEN \in LatchedKind /\ FAULT_RELAY_STUCK_OPEN # FAULT_GFCI
      /\ FAULT_HARD_OVER_CURRENT \in LatchedKind /\ FAULT_HARD_OVER_CURRENT # FAULT_GFCI
      /\ FAULT_AC_ABSENT \in FaultIds \ LatchedKind /\ FAULT_AC_ABSENT # FAULT_GFCI
      /\ FAULT_SOFT_OVER_CURRENT \in FaultIds \ LatchedKind /\ FAULT_SOFT_OVER_CURRENT # FAULT_GFCI
  BY Kinds
<1>b. UNCHANGED <<gfci, cp, safeFail>>
  BY DEF Poll, check_ac_absent, check_relay_weld_bl0939, check_relay_stuck_open_bl0939,
     check_hard_over_current, check_soft_over_current, MeterFrame, otherVars, cpVars, worldVars
<1>1. CASE Poll
  BY <1>1, <1>b, Untouched DEF Poll, evseVars
<1>2. CASE check_ac_absent
  <2>1. RaiseSelfClearing(FAULT_AC_ABSENT) \/ ClearSelfClearing(FAULT_AC_ABSENT) \/ NoFault
    BY <1>2 DEF check_ac_absent
  <2> QED
    BY <1>a, <1>b, <2>1, SelfClearingDetector
<1>3. CASE check_relay_weld_bl0939
  <2>1. RaiseLatched(FAULT_RELAY_WELD) \/ NoFault
    BY <1>3 DEF check_relay_weld_bl0939
  <2> QED
    BY <1>a, <1>b, <2>1, LatchedDetector
<1>4. CASE check_relay_stuck_open_bl0939
  <2>1. RaiseLatched(FAULT_RELAY_STUCK_OPEN) \/ NoFault
    BY <1>4 DEF check_relay_stuck_open_bl0939, Detect
  <2> QED
    BY <1>a, <1>b, <2>1, LatchedDetector
<1>5. CASE check_hard_over_current
  <2>1. RaiseLatched(FAULT_HARD_OVER_CURRENT) \/ NoFault
    BY <1>5 DEF check_hard_over_current, Detect
  <2> QED
    BY <1>a, <1>b, <2>1, LatchedDetector
<1>6. CASE check_soft_over_current
  <2>1. CASE SocRamps
    BY <1>b, <2>1 DEF SocRamps, Coherent, FaultLatchCoherent, SessionIsCharging, GfciContextAgrees
  <2>2. CASE ~SocRamps
    <3>1. \/ RaiseSelfClearing(FAULT_SOFT_OVER_CURRENT) \/ ClearSelfClearing(FAULT_SOFT_OVER_CURRENT)
          \/ NoFault
      BY <1>6, <2>2 DEF check_soft_over_current, SocWithinLimit, SocCounts, SocAtFloor
    <3> QED
      BY <1>a, <1>b, <3>1, SelfClearingDetector
  <2> QED
    BY <2>1, <2>2
<1> QED
  BY <1>1, <1>2, <1>3, <1>4, <1>5, <1>6

\* The end of the tick and the other tasks leave all of it alone; a reset starts over.
LEMMA RestCoherent ==
  ASSUME Coherent, TypeOK',
         (\E card \in Swipes : RfidSwipe(card)) \/ PublishSnapshot \/ Wake \/ Environment
  PROVE  /\ Coherent'
         /\ \/ pc' = "boot" /\ ~relay'
            \/ UNCHANGED <<es, relay, latch, fs, cp>> /\ (safeFail' => safeFail)
<1>1. ASSUME NEW cause \in Resets, Reset(cause) PROVE Coherent' /\ pc' = "boot" /\ ~relay'
  <2>1. es' = "SELF_TEST" /\ ~relay' /\ ~latch' /\ ~session'.active /\ ~gfci'.faultActive
    BY <1>1 DEF Reset, gfci_context_init
  <2>2. fs'.active = {}
    BY <1>1 DEF Reset, fault_init
  <2> QED
    BY <1>1, <2>1, <2>2 DEF Reset, Coherent, FaultLatchCoherent, SessionIsCharging,
       GfciContextAgrees, fault_any_latched_active, fault_is_active
<1>2. CASE (\E card \in Swipes : RfidSwipe(card)) \/ PublishSnapshot \/ Wake
  <2>1. UNCHANGED <<evseVars, fs, gfci, cp, safeFail>>
    BY <1>2 DEF RfidSwipe, PublishSnapshot, Wake, otherVars, cpVars, worldVars
  <2> QED
    BY <2>1, Untouched DEF evseVars
<1>3. CASE \/ \E type \in ReqTypes : CommsPost(type, 0)
           \/ \E id \in ClearIds : CommsPost("CLEAR_FAULT", id)
           \/ \E button \in Buttons : ButtonPress(button)
           \/ \E c \in Configs : ConfigWrite(c)
           \/ \E pair \in NtcPairs : AdcScan(pair)
           \/ AliveMarker
  <2>1. UNCHANGED <<evseVars, fs, gfci, cp>> /\ (safeFail' => safeFail)
    BY <1>3 DEF CommsPost, ButtonPress, ConfigWrite, AdcScan, AliveMarker, InboxFrame, WorldFrame,
       otherVars, cpVars, worldVars
  <2> QED
    BY <2>1, Untouched DEF evseVars
<1> QED
  BY <1>1, <1>2, <1>3 DEF Environment

-----------------------------------------------------------------------------
(* The inductive invariant. *)

\* The stages at which the crash-loop fault is certainly raised: check_safe_fail has
\* run in this tick and no CLEAR_FAULT since.
RaisedStages == {"gfci", "adc", "cpe", "otemp", "evse", "regress", "relay"}

SafeFailRaised ==
  safeFail /\ pc \in RaisedStages => fault_is_active(fs, FAULT_CRASH_LOOP_SAFE_FAIL)

Interlock == Coherent /\ ContactorInterlock /\ SafeFailOpen /\ SafeFailRaised

\* Between check_safe_fail and the relay no stage removes a latched fault.
LEMMA TickKeepsLatched ==
  ASSUME Coherent, pc \in RaisedStages \ {"relay"}, Tick
  PROVE  /\ fs.active \cap LatchedKind \subseteq fs'.active
         /\ pc' \in RaisedStages /\ UNCHANGED safeFail
<1>0. fs \in FaultState
  BY DEF Coherent, TypeOK, FaultTypes
<1>1. \/ \E pe2 \in Pe2Low : check_gfci(pe2)
      \/ \E rail \in AdcRail : check_adc_runtime(rail)
      \/ check_cp_e \/ check_over_temp \/ update_evse_from_j1772 \/ check_cp_regression
  BY DEF Tick, RaisedStages, ServiceReplug, Classify, check_safe_fail, apply_relay_state,
     apply_cp_for_state, Poll, check_ac_absent, check_relay_weld_bl0939,
     check_relay_stuck_open_bl0939, check_hard_over_current, check_soft_over_current, RfidSwipe,
     PublishSnapshot, Wake, Advance
<1>2. pc' \in RaisedStages /\ UNCHANGED safeFail
  BY <1>1 DEF RaisedStages, check_gfci, check_adc_runtime, check_cp_e, check_over_temp,
     update_evse_from_j1772, check_cp_regression, Advance, worldVars
<1>3. \/ fs' = fs \/ \E id \in FaultIds : fs' = fault_raise(fs, id)
      \/ fs' = fault_clear(fs, FAULT_OVER_TEMP)
  <2>1. fs' \in {fs, fault_raise(fs, FAULT_GFCI), fault_raise(fs, FAULT_ADC_OUT_OF_RANGE),
                 fault_raise(fs, FAULT_CP_NO_PILOT), fault_raise(fs, FAULT_OVER_TEMP),
                 fault_clear(fs, FAULT_OVER_TEMP)}
    BY <1>1 DEF check_gfci, check_adc_runtime, check_cp_e, check_over_temp, update_evse_from_j1772,
       check_cp_regression, NoFault, RaiseLatched
  <2> QED
    BY <2>1, DetectorIds
<1>4. CASE fs' = fault_clear(fs, FAULT_OVER_TEMP)
  <2>1. fs'.active = fs.active \ {FAULT_OVER_TEMP}
    BY <1>0, <1>4, ClearFacts, Kinds
  <2> QED
    BY <1>2, <2>1, Kinds
<1>5. ASSUME NEW id \in FaultIds, fs' = fault_raise(fs, id)
      PROVE  fs.active \cap LatchedKind \subseteq fs'.active
  BY <1>0, <1>5, RaiseFacts
<1> QED
  BY <1>2, <1>3, <1>4, <1>5

\* Every step keeps the inductive invariant.
LEMMA InterlockStep ==
  ASSUME Interlock, TypeOK', Next
  PROVE  Interlock'
<1>a. Coherent
  BY DEF Interlock
<1>b. FAULT_CRASH_LOOP_SAFE_FAIL \in LatchedKind
  BY Kinds
<1>c. pc \in Stages /\ pc' \in Stages
  BY DEF Coherent, TypeOK, LoopTypes, Interlock
<1>1. ASSUME Coherent', relay' => relay, safeFail' => safeFail,
             pc' \notin AfterRelay, pc' \notin RaisedStages
      PROVE  Interlock'
  BY <1>1 DEF Interlock, ContactorInterlock, SafeFailOpen, SafeFailRaised
<1>2. CASE Boot
  <2>1. Coherent' /\ (relay' => relay)
    BY <1>2, <1>a, BootCoherent
  <2>2. UNCHANGED safeFail /\ pc' \in {"boot", "gfcitest", "bootdone", "drain"}
    BY <1>2 DEF Boot, BootSample, BootSelfTest, BootGfciTest, BootDone, Advance, worldVars
  <2> QED
    BY <1>1, <2>1, <2>2 DEF AfterRelay, RaisedStages
<1>3. CASE DrainInbox
  <2>1. Coherent' /\ (relay' => relay)
    BY <1>3, <1>a, DrainCoherent
  <2>2. UNCHANGED safeFail /\ pc' \in {"drain", "cal", "replug"}
    BY <1>3 DEF DrainInbox, ClearFault, UserPause, UserResume, RfidLearnArm, SimulateReplug,
       RunGfciCalTest, CalTestDone, Publish, DrainDone, Dequeue, Advance, worldVars
  <2> QED
    BY <1>1, <2>1, <2>2 DEF AfterRelay, RaisedStages
<1>4. CASE ServiceReplug \/ \E mv \in cp_high_mv : Classify(mv)
  <2>1. Coherent' /\ (relay' => relay)
    BY <1>4, <1>a, TickCoherent
  <2>2. UNCHANGED safeFail /\ pc' \in {"classify", "safefail"}
    BY <1>4 DEF ServiceReplug, Classify, Advance, worldVars
  <2> QED
    BY <1>1, <2>1, <2>2 DEF AfterRelay, RaisedStages
<1>5. CASE check_safe_fail
  <2>1. Coherent' /\ (relay' => relay)
    BY <1>5, <1>a, TickCoherent
  <2>2. UNCHANGED safeFail /\ pc' = "gfci"
    BY <1>5 DEF check_safe_fail, Advance, worldVars
  <2>3. safeFail => fault_is_active(fs', FAULT_CRASH_LOOP_SAFE_FAIL)
    <3>1. fs \in FaultState
      BY <1>a DEF Coherent, TypeOK, FaultTypes
    <3>2. FAULT_CRASH_LOOP_SAFE_FAIL \in fault_raise(fs, FAULT_CRASH_LOOP_SAFE_FAIL).active
      BY <3>1, RaiseFacts, DetectorIds
    <3> QED
      BY <1>5, <3>2 DEF check_safe_fail, fault_is_active, RaiseLatched, NoFault
  <2> QED
    BY <2>1, <2>2, <2>3 DEF Interlock, ContactorInterlock, SafeFailOpen, SafeFailRaised, AfterRelay,
       fault_is_active
<1>6. CASE \/ \E pe2 \in Pe2Low : check_gfci(pe2)
           \/ \E rail \in AdcRail : check_adc_runtime(rail)
           \/ check_cp_e \/ check_over_temp \/ update_evse_from_j1772 \/ check_cp_regression
  <2>1. Coherent' /\ (relay' => relay)
    BY <1>6, <1>a, TickCoherent
  <2>2. pc \in RaisedStages \ {"relay"}
    BY <1>6 DEF check_gfci, check_adc_runtime, check_cp_e, check_over_temp, update_evse_from_j1772,
       check_cp_regression, Advance, RaisedStages
  <2>3. /\ fs.active \cap LatchedKind \subseteq fs'.active
        /\ pc' \in RaisedStages /\ UNCHANGED safeFail
    BY <1>6, <1>a, <2>2, TickKeepsLatched DEF Tick
  <2>4. pc' \notin AfterRelay
    BY <2>3 DEF RaisedStages, AfterRelay
  <2>5. SafeFailRaised'
    BY <1>b, <2>2, <2>3 DEF Interlock, SafeFailRaised, fault_is_active
  <2> QED
    BY <2>1, <2>3, <2>4, <2>5 DEF Interlock, ContactorInterlock, SafeFailOpen
<1>7. CASE apply_relay_state
  <2>1. /\ Coherent'
        /\ relay' => /\ es' = "CHARGING" /\ cp'.committed = "C"
                     /\ ~fault_any_latched_active(fs') /\ ~latch'
    BY <1>7, <1>a, RelayCoherent
  <2>2. pc = "relay" /\ pc' = "cp" /\ UNCHANGED <<safeFail, fs>>
    BY <1>7 DEF apply_relay_state, Advance, worldVars
  <2>3. safeFail => fault_any_latched_active(fs)
    BY <1>b, <2>2 DEF Interlock, SafeFailRaised, RaisedStages, fault_is_active,
       fault_any_latched_active
  <2> QED
    BY <2>1, <2>2, <2>3 DEF Interlock, ContactorInterlock, SafeFailOpen, SafeFailRaised, RaisedStages
<1>8. ASSUME Coherent', UNCHANGED <<cp, safeFail>>, relay' => relay /\ es' = es,
             pc \in AfterRelay, pc' \in AfterRelay
      PROVE  Interlock'
  <2>1. ContactorInterlock'
    BY <1>8 DEF Interlock, Coherent, ContactorInterlock, FaultLatchCoherent
  <2> QED
    BY <1>8, <2>1 DEF Interlock, SafeFailOpen, SafeFailRaised, AfterRelay, RaisedStages
<1>9. CASE apply_cp_for_state
  <2>1. Coherent'
    BY <1>9, <1>a, TickCoherent
  <2> QED
    BY <1>8, <1>9, <2>1 DEF apply_cp_for_state, Advance, AfterRelay, cpVars, worldVars
<1>10. CASE \/ Poll \/ check_ac_absent \/ check_relay_weld_bl0939 \/ check_relay_stuck_open_bl0939
            \/ check_hard_over_current \/ check_soft_over_current
  <2>1. Coherent' /\ UNCHANGED <<cp, safeFail>> /\ (relay' => relay /\ es' = es)
    BY <1>10, <1>a, PollCoherent
  <2>2. pc \in AfterRelay /\ pc' \in AfterRelay
    BY <1>10 DEF Poll, check_ac_absent, check_relay_weld_bl0939, check_relay_stuck_open_bl0939,
       check_hard_over_current, check_soft_over_current, Advance, AfterRelay
  <2> QED
    BY <1>8, <2>1, <2>2
<1>11. CASE (\E card \in Swipes : RfidSwipe(card)) \/ PublishSnapshot \/ Wake \/ Environment
  <2>1. /\ Coherent'
        /\ \/ pc' = "boot" /\ ~relay'
           \/ UNCHANGED <<es, relay, latch, fs, cp>> /\ (safeFail' => safeFail)
    BY <1>11, <1>a, RestCoherent
  <2>2. CASE pc' = "boot" /\ ~relay'
    BY <2>1, <2>2 DEF Interlock, ContactorInterlock, SafeFailOpen, SafeFailRaised, RaisedStages,
       AfterRelay
  <2>3. CASE UNCHANGED <<es, relay, latch, fs, cp>> /\ (safeFail' => safeFail)
    <3>1. pc' = "boot" \/ pc' = pc \/ (pc \in AfterRelay /\ pc' \in AfterRelay) \/ pc' = "drain"
      BY <1>11 DEF RfidSwipe, PublishSnapshot, Wake, Environment, CommsPost, ButtonPress,
         ConfigWrite, AdcScan, AliveMarker, Reset, InboxFrame, WorldFrame, Advance, AfterRelay
    <3> QED
      BY <2>1, <2>3, <3>1 DEF Interlock, ContactorInterlock, SafeFailOpen, SafeFailRaised,
         RaisedStages, AfterRelay
  <2> QED
    BY <2>1, <2>2, <2>3
<1> QED
  BY <1>2, <1>3, <1>4, <1>5, <1>6, <1>7, <1>9, <1>10, <1>11 DEF Next, SafetyLoop, Tick

\* The inductive invariant holds throughout.
THEOREM InterlockInvariant == Spec => []Interlock
<1>1. Init => TypeOK /\ Interlock
  <2> SUFFICES ASSUME Init PROVE TypeOK /\ Interlock
    OBVIOUS
  <2>1. TypeOK
    BY InitType
  <2>2. es = "SELF_TEST" /\ ~relay /\ ~latch /\ ~session.active /\ ~gfci.faultActive /\ pc = "boot"
    BY DEF Init, gfci_context_init
  <2>3. fs.active = {}
    BY DEF Init, fault_init
  <2> QED
    BY <2>1, <2>2, <2>3 DEF Interlock, Coherent, FaultLatchCoherent, SessionIsCharging,
       GfciContextAgrees, fault_any_latched_active, fault_is_active, ContactorInterlock,
       SafeFailOpen, SafeFailRaised, RaisedStages
<1>2. Interlock /\ [Next]_vars /\ TypeOK' => Interlock'
  <2>1. ASSUME Interlock, TypeOK', UNCHANGED vars PROVE Interlock'
    BY <2>1 DEF vars, evseVars, cpVars, otherVars, worldVars, Interlock, Coherent,
       FaultLatchCoherent, SessionIsCharging, GfciContextAgrees, ContactorInterlock, SafeFailOpen,
       SafeFailRaised
  <2> QED
    BY <2>1, InterlockStep
<1> QED
  BY <1>1, <1>2, TypeCorrect, PTL DEF Spec

\* The contactor is closed only in CHARGING with the pilot in C, no latched fault and
\* the force-open latch released, at every stage after the relay stage.
THEOREM ContactorSafe == Spec => []ContactorInterlock
BY InterlockInvariant, PTL DEF Interlock

\* FAULT, a latched fault and the force-open latch are one condition at every stage.
THEOREM FaultIsLatched == Spec => []FaultLatchCoherent
<1>1. Interlock => FaultLatchCoherent
  BY DEF Interlock, Coherent
<1> QED
  BY <1>1, InterlockInvariant, PTL

\* A session is open exactly while charging.
THEOREM SessionFollowsState == Spec => []SessionIsCharging
<1>1. Interlock => SessionIsCharging
  BY DEF Interlock, Coherent
<1> QED
  BY <1>1, InterlockInvariant, PTL

\* A crash-looping unit never closes its contactor.
THEOREM CrashLoopStaysOpen == Spec => []SafeFailOpen
<1>1. Interlock => SafeFailOpen
  BY DEF Interlock
<1> QED
  BY <1>1, InterlockInvariant, PTL

\* The GFCI policy's raise-once flag is set exactly while FAULT_GFCI is active.
THEOREM GfciFlagAgrees == Spec => []GfciContextAgrees
<1>1. Interlock => GfciContextAgrees
  BY DEF Interlock, Coherent
<1> QED
  BY <1>1, InterlockInvariant, PTL

\* Only a reset clears the raise-once flag.
LEMMA FaultFlagStays ==
  ASSUME TypeOK, Next, gfci.faultActive, pc' # "boot"
  PROVE  gfci'.faultActive
<1>1. gfci \in GfciContext
  BY DEF TypeOK, OtherTypes
<1>2. CASE Boot
  BY <1>2 DEF Boot, BootSample, BootSelfTest, BootGfciTest, BootDone, otherVars
<1>3. CASE DrainInbox
  BY <1>3 DEF DrainInbox, ClearFault, UserPause, UserResume, RfidLearnArm, SimulateReplug,
     RunGfciCalTest, CalTestDone, Publish, DrainDone, otherVars
<1>4. CASE \E pe2 \in Pe2Low : check_gfci(pe2)
  <2>1. PICK pe2 \in Pe2Low : check_gfci(pe2)
    BY <1>4
  <2>2. gfci' = gfci_policy_step(gfci, pe2, config.policy).ctx
    BY <2>1 DEF check_gfci
  <2> QED
    BY <2>2 DEF gfci_policy_step
<1>5. CASE \/ ServiceReplug \/ \E mv \in cp_high_mv : Classify(mv)
           \/ check_safe_fail \/ \E rail \in AdcRail : check_adc_runtime(rail)
           \/ check_cp_e \/ check_over_temp \/ update_evse_from_j1772 \/ check_cp_regression
           \/ apply_relay_state \/ apply_cp_for_state
  BY <1>5 DEF ServiceReplug, Classify, check_safe_fail, check_adc_runtime, check_cp_e,
     check_over_temp, update_evse_from_j1772, check_cp_regression, apply_relay_state,
     apply_cp_for_state, otherVars
<1>6. CASE \/ Poll \/ check_ac_absent \/ check_relay_weld_bl0939 \/ check_relay_stuck_open_bl0939
           \/ check_hard_over_current \/ check_soft_over_current
           \/ (\E card \in Swipes : RfidSwipe(card)) \/ PublishSnapshot \/ Wake
  BY <1>6 DEF Poll, check_ac_absent, check_relay_weld_bl0939, check_relay_stuck_open_bl0939,
     check_hard_over_current, check_soft_over_current, MeterFrame, RfidSwipe, PublishSnapshot,
     Wake, otherVars
<1>7. CASE Environment
  BY <1>7 DEF Environment, CommsPost, ButtonPress, ConfigWrite, AdcScan, AliveMarker, Reset,
     InboxFrame, WorldFrame, otherVars
<1> QED
  BY <1>2, <1>3, <1>4, <1>5, <1>6, <1>7 DEF Next, SafetyLoop, Tick

\* FAULT_GFCI leaves the active set only through a reset: the flag and the fault agree
\* before and after every step, and no other step takes the flag back.
THEOREM GfciLatched == Spec => GfciNeedsReset
<1>1. Interlock /\ Interlock' /\ [Next]_vars
        => [fault_is_active(fs, FAULT_GFCI) /\ ~fault_is_active(fs', FAULT_GFCI)
              => pc' = "boot"]_vars
  <2> SUFFICES ASSUME Interlock, Interlock', Next, fault_is_active(fs, FAULT_GFCI), pc' # "boot"
               PROVE  fault_is_active(fs', FAULT_GFCI)
    OBVIOUS
  <2>1. TypeOK /\ gfci.faultActive
    BY DEF Interlock, Coherent, GfciContextAgrees
  <2>2. gfci'.faultActive
    BY <2>1, FaultFlagStays
  <2> QED
    BY <2>2 DEF Interlock, Coherent, GfciContextAgrees, fault_is_active
<1> QED
  BY <1>1, InterlockInvariant, PTL DEF Spec, GfciNeedsReset

-----------------------------------------------------------------------------
(***************************************************************************)
(* How a charge begins and ends, for every value of the constants: what    *)
(* must have happened before the contactor closes, that a ground fault     *)
(* opens it in the same tick, and that a session which a fault ends has    *)
(* counted the fault.                                                      *)
(***************************************************************************)

\* What a step does to the state: it raises a latched fault, or it does not enter FAULT and
\* enters CHARGING only in update_evse_from_j1772.
EntersFault  == \E id \in LatchedKind : RaiseLatched(id)
KeepsOut     == es' = "FAULT" => es = "FAULT"
KeepsCharge  == es' = "CHARGING" => es = "CHARGING" /\ (relay => relay')
Moves        == EntersFault \/ (KeepsOut /\ KeepsCharge)

LEMMA StayMoves == ASSUME UNCHANGED <<es, relay>> PROVE Moves
BY DEF Moves, KeepsOut, KeepsCharge

LEMMA EnterMoves ==
  ASSUME NEW next, NEW s, Enter(next, s), next \in {"FAULT", "CHARGING"} => next = es
  PROVE  Moves
BY DEF Enter, Trips, Moves, KeepsOut, KeepsCharge

LEMMA RaiseMoves ==
  ASSUME NEW id \in LatchedKind, RaiseLatched(id) \/ NoFault
  PROVE  Moves
<1>1. CASE NoFault BY <1>1, StayMoves DEF NoFault, evseVars
<1> QED BY <1>1 DEF Moves, EntersFault

LEMMA BootMoves == Boot => Moves
<1>1. ASSUME NEW mv \in CpMv, BootSample(mv) PROVE Moves
  BY <1>1, StayMoves DEF BootSample, evseVars
<1>2. ASSUME NEW mv \in CpMv, NEW rail \in AdcRail, BootSelfTest(mv, rail) PROVE Moves
  BY <1>2, Kinds, RaiseMoves DEF BootSelfTest
<1>3. ASSUME NEW pass \in CalOutcomes, BootGfciTest(pass) PROVE Moves
  BY <1>3, Kinds, RaiseMoves DEF BootGfciTest
<1>4. CASE BootDone
  <2>1. CASE safeFail
    BY <1>4, <2>1, Kinds, RaiseMoves DEF BootDone
  <2>2. CASE ~safeFail
    BY <1>4, <2>2, EnterMoves DEF BootDone, evse_transition
  <2> QED BY <2>1, <2>2
<1> QED BY <1>1, <1>2, <1>3, <1>4 DEF Boot

LEMMA DrainMoves == DrainInbox => Moves
<1>1. CASE ClearFault
  <2>1. Enter("READY", session) \/ Enter(es, session)
    BY <1>1 DEF ClearFault, evse_transition
  <2> QED BY <2>1, EnterMoves
<1>2. CASE UserPause
  BY <1>2, EnterMoves DEF UserPause, evse_transition
<1>3. CASE UserResume
  BY <1>3, EnterMoves DEF UserResume, evse_transition
<1>4. CASE SimulateReplug
  <2>1. Enter("USER_PAUSED", session) \/ UNCHANGED evseVars
    BY <1>4 DEF SimulateReplug
  <2> QED BY <2>1, EnterMoves, StayMoves DEF evseVars
<1>5. CASE RfidLearnArm \/ RunGfciCalTest \/ CalTestDone \/ Publish \/ DrainDone
  BY <1>5, StayMoves DEF RfidLearnArm, RunGfciCalTest, CalTestDone, Publish, DrainDone, evseVars
<1> QED BY <1>1, <1>2, <1>3, <1>4, <1>5 DEF DrainInbox

LEMMA TickMoves ==
  ASSUME \/ ServiceReplug
         \/ \E mv \in cp_high_mv : Classify(mv)
         \/ check_safe_fail
         \/ \E pe2 \in Pe2Low : check_gfci(pe2)
         \/ \E rail \in AdcRail : check_adc_runtime(rail)
         \/ check_cp_e \/ check_over_temp \/ check_cp_regression \/ apply_cp_for_state
  PROVE  Moves
<1>1. CASE ServiceReplug
  BY <1>1, EnterMoves, StayMoves DEF ServiceReplug, evse_transition, evseVars
<1>2. ASSUME NEW mv \in cp_high_mv, Classify(mv) PROVE Moves
  BY <1>2, StayMoves DEF Classify, evseVars
<1>3. CASE check_safe_fail
  BY <1>3, Kinds, RaiseMoves DEF check_safe_fail
<1>4. ASSUME NEW pe2 \in Pe2Low, check_gfci(pe2) PROVE Moves
  <2>1. \/ NoFault \/ RaiseLatched(FAULT_GFCI)
        \/ UNCHANGED <<es, relay>>
    BY <1>4 DEF check_gfci
  <2> QED BY <2>1, Kinds, RaiseMoves, StayMoves
<1>5. ASSUME NEW rail \in AdcRail, check_adc_runtime(rail) PROVE Moves
  <2>1. RaiseLatched(FAULT_ADC_OUT_OF_RANGE) \/ NoFault BY <1>5 DEF check_adc_runtime
  <2> QED BY <2>1, Kinds, RaiseMoves
<1>6. CASE check_cp_e
  <2>1. RaiseLatched(FAULT_CP_NO_PILOT) \/ NoFault BY <1>6 DEF check_cp_e
  <2> QED BY <2>1, Kinds, RaiseMoves
<1>7. CASE check_over_temp
  <2>1. \/ Enter(IF es = "FAULT" THEN es ELSE "COOLING_DOWN", post_fault_event(session))
        \/ Enter(IF es = "COOLING_DOWN" THEN "READY" ELSE es, session)
        \/ NoFault
    BY <1>7 DEF check_over_temp, evse_transition
  <2> QED BY <2>1, EnterMoves, StayMoves DEF NoFault, evseVars
<1>8. CASE check_cp_regression \/ apply_cp_for_state
  BY <1>8, StayMoves DEF check_cp_regression, apply_cp_for_state
<1> QED BY <1>1, <1>2, <1>3, <1>4, <1>5, <1>6, <1>7, <1>8

LEMMA PollMoves ==
  ASSUME \/ Poll \/ check_ac_absent \/ check_relay_weld_bl0939 \/ check_relay_stuck_open_bl0939
         \/ check_hard_over_current \/ check_soft_over_current
  PROVE  Moves
<1>1. CASE Poll BY <1>1, StayMoves DEF Poll, evseVars
<1>2. CASE check_ac_absent
  BY <1>2, StayMoves DEF check_ac_absent, RaiseSelfClearing, ClearSelfClearing, NoFault, evseVars
<1>3. CASE check_relay_weld_bl0939
  <2>1. RaiseLatched(FAULT_RELAY_WELD) \/ NoFault BY <1>3 DEF check_relay_weld_bl0939
  <2> QED BY <2>1, Kinds, RaiseMoves
<1>4. CASE check_relay_stuck_open_bl0939
  <2>1. RaiseLatched(FAULT_RELAY_STUCK_OPEN) \/ NoFault
    BY <1>4 DEF check_relay_stuck_open_bl0939, Detect
  <2> QED BY <2>1, Kinds, RaiseMoves
<1>5. CASE check_hard_over_current
  <2>1. RaiseLatched(FAULT_HARD_OVER_CURRENT) \/ NoFault
    BY <1>5 DEF check_hard_over_current, Detect
  <2> QED BY <2>1, Kinds, RaiseMoves
<1>6. CASE check_soft_over_current
  <2>1. UNCHANGED <<es, relay>>
    BY <1>6 DEF check_soft_over_current, SocWithinLimit, SocCounts, SocRamps, SocAtFloor,
       RaiseSelfClearing, ClearSelfClearing, NoFault, evseVars
  <2> QED BY <2>1, StayMoves
<1> QED BY <1>1, <1>2, <1>3, <1>4, <1>5, <1>6

LEMMA RestMoves ==
  ASSUME (\E card \in Swipes : RfidSwipe(card)) \/ PublishSnapshot \/ Wake \/ Environment
  PROVE  Moves
<1>1. ASSUME NEW cause \in Resets, Reset(cause) PROVE Moves
  BY <1>1 DEF Reset, Moves, KeepsOut, KeepsCharge
<1>2. CASE \/ (\E card \in Swipes : RfidSwipe(card)) \/ PublishSnapshot \/ Wake
           \/ \E type \in ReqTypes : CommsPost(type, 0)
           \/ \E id \in ClearIds : CommsPost("CLEAR_FAULT", id)
           \/ \E button \in Buttons : ButtonPress(button)
           \/ \E c \in Configs : ConfigWrite(c)
           \/ \E pair \in NtcPairs : AdcScan(pair)
           \/ AliveMarker
  <2>1. UNCHANGED <<es, relay>>
    BY <1>2 DEF RfidSwipe, PublishSnapshot, Wake, CommsPost, ButtonPress, ConfigWrite, AdcScan,
       AliveMarker, InboxFrame, WorldFrame, evseVars
  <2> QED BY <2>1, StayMoves
<1> QED BY <1>1, <1>2 DEF Environment

\* Every step but the two that decide about charging.
LEMMA NextMoves == Next => Moves \/ update_evse_from_j1772 \/ apply_relay_state
BY BootMoves, DrainMoves, TickMoves, PollMoves, RestMoves DEF Next, SafetyLoop, Tick

-----------------------------------------------------------------------------
(* A fault that ends a session is counted. *)

LEMMA RaiseCounts ==
  ASSUME Coherent, es = "CHARGING", NEW id \in LatchedKind, RaiseLatched(id)
  PROVE  session'.faults > 0
<1>1. session \in Sessions /\ session.active /\ ~fault_is_active(fs, id)
  BY DEF Coherent, TypeOK, EvseTypes, SessionIsCharging, FaultLatchCoherent,
     fault_any_latched_active, fault_is_active
<1>2. Enter("FAULT", post_fault_event(session))
  BY <1>1 DEF RaiseLatched, evse_transition
<1>3. /\ post_fault_event(session) \in Sessions /\ post_fault_event(session).active
      /\ post_fault_event(session).faults > 0
  BY <1>1, PostType
<1>4. session' = session_end(post_fault_event(session))
  BY <1>2, <1>3 DEF Enter
<1> QED BY <1>3, <1>4 DEF session_end, Sessions

\* Every way from CHARGING to FAULT posts its event while the session is open, so the
\* session record names a fault (evse_transition's callers in safety_task.c).
THEOREM FaultEndsAreCounted == Spec => FaultEndIsCounted
<1>1. Interlock /\ [Next]_vars => [es = "CHARGING" /\ es' = "FAULT" => session'.faults > 0]_vars
  <2> SUFFICES ASSUME Interlock, Next, es = "CHARGING", es' = "FAULT" PROVE session'.faults > 0
    OBVIOUS
  <2>1. Coherent BY DEF Interlock
  <2>2. ~update_evse_from_j1772
    BY DEF update_evse_from_j1772, EvseSticky, EvsePaused, EvseRunning, evse_transition, Enter,
       evseVars
  <2>3. ~apply_relay_state BY DEF apply_relay_state
  <2>4. EntersFault BY <2>2, <2>3, NextMoves DEF Moves, KeepsOut
  <2> QED BY <2>1, <2>4, RaiseCounts DEF EntersFault
<1> QED BY <1>1, InterlockInvariant, PTL DEF Spec, FaultEndIsCounted

-----------------------------------------------------------------------------
(* What must have happened before the contactor closes. *)

\* The stages between the decision to charge and the relay.
Decided == {"regress", "relay"}

\* Outside them CHARGING means a closed contactor; inside, the pilot is in C, and an open
\* contactor means that this tick decided, so the dwell is full and the card was accepted.
ChargeInv ==
  es = "CHARGING" =>
    /\ pc \notin Decided => relay
    /\ pc \in Decided =>
         /\ cp.committed = "C"
         /\ ~relay => streak.c = EVSE_C_DWELL_TICKS /\ (config.requireAuth => auth)

\* The steps that end or begin in these stages.
LEMMA IntoDecided ==
  ASSUME Next, pc' \in Decided \/ pc \in Decided
  PROVE  \/ update_evse_from_j1772 \/ check_cp_regression \/ apply_relay_state
         \/ \E cause \in Resets : Reset(cause)
<1>1. ~Boot
  BY DEF Boot, BootSample, BootSelfTest, BootGfciTest, BootDone, Advance, Decided
<1>2. ~DrainInbox
  BY DEF DrainInbox, ClearFault, UserPause, UserResume, RfidLearnArm, SimulateReplug,
     RunGfciCalTest, CalTestDone, Publish, DrainDone, Dequeue, Advance, Decided
<1>3. ~(\/ ServiceReplug
        \/ \E mv \in cp_high_mv : Classify(mv)
        \/ check_safe_fail
        \/ \E pe2 \in Pe2Low : check_gfci(pe2)
        \/ \E rail \in AdcRail : check_adc_runtime(rail)
        \/ check_cp_e \/ check_over_temp \/ apply_cp_for_state)
  BY DEF ServiceReplug, Classify, check_safe_fail, check_gfci, check_adc_runtime, check_cp_e,
     check_over_temp, apply_cp_for_state, Advance, Decided
<1>4. ~(\/ Poll \/ check_ac_absent \/ check_relay_weld_bl0939 \/ check_relay_stuck_open_bl0939
        \/ check_hard_over_current \/ check_soft_over_current
        \/ (\E card \in Swipes : RfidSwipe(card)) \/ PublishSnapshot \/ Wake)
  BY DEF Poll, check_ac_absent, check_relay_weld_bl0939, check_relay_stuck_open_bl0939,
     check_hard_over_current, check_soft_over_current, RfidSwipe, PublishSnapshot, Wake, Advance,
     Decided
<1>5. CASE Environment
  BY <1>5 DEF Environment, CommsPost, ButtonPress, ConfigWrite, AdcScan, AliveMarker, Reset, OthersRun,
     InboxFrame, WorldFrame, Decided
<1> QED BY <1>1, <1>2, <1>3, <1>4, <1>5 DEF Next, SafetyLoop, Tick

LEMMA ChargeStep ==
  ASSUME Coherent, ChargeInv, Next
  PROVE  ChargeInv'
<1>0. relay \in BOOLEAN /\ streak \in Streaks BY DEF Coherent, TypeOK, EvseTypes, StreakTypes
<1>1. CASE update_evse_from_j1772
  <2> SUFFICES ASSUME es' = "CHARGING" PROVE ChargeInv' BY DEF ChargeInv
  <2>0. /\ pc = "evse" /\ pc' = "regress" /\ cp' = cp /\ config' = config
        /\ EvseSticky \/ EvsePaused \/ EvseRunning
    BY <1>1 DEF update_evse_from_j1772, Advance, cpVars, worldVars
  <2>1. EvseRunning
    BY <2>0 DEF EvseSticky, EvsePaused, evse_transition, Enter, evseVars
  <2>2. CASE es = "CHARGING"
    <3>1. relay BY <2>0, <2>2 DEF ChargeInv, Decided
    <3>2. cp.committed = "C" /\ relay' = relay
      BY <2>1, <2>2 DEF EvseRunning, evse_transition, Enter, evseVars
    <3> QED BY <2>0, <3>1, <3>2 DEF ChargeInv
  <2>3. CASE es = "READY"
    <3> DEFINE k == Count(cp.committed = "C", streak.c, EVSE_C_DWELL_TICKS)
    <3>1. /\ k >= EVSE_C_DWELL_TICKS /\ (~config.requireAuth \/ auth')
          /\ streak' = [streak EXCEPT !.c = k]
      BY <2>1, <2>3 DEF EvseRunning, evseVars
    <3>2. EVSE_C_DWELL_TICKS \in Nat \ {0} /\ streak.c \in 0..EVSE_C_DWELL_TICKS
      BY <1>0, SafetyAssumption DEF Streaks
    <3>3. cp.committed = "C" /\ k = EVSE_C_DWELL_TICKS
      BY <3>1, <3>2 DEF Count
    <3>4. streak'.c = k BY <1>0, <3>1 DEF Streaks
    <3> QED BY <2>0, <3>1, <3>3, <3>4 DEF ChargeInv, Decided
  <2> QED BY <2>1, <2>2, <2>3 DEF EvseRunning
<1>2. CASE check_cp_regression
  BY <1>2 DEF check_cp_regression, Advance, ChargeInv, Decided, cpVars, rfidVars, worldVars
<1>3. CASE apply_relay_state
  <2>1. pc = "relay" /\ pc' = "cp" /\ UNCHANGED <<es, cp, fs>>
        /\ relay' = (es = "CHARGING" /\ cp.committed = "C" /\ ~fault_any_latched_active(fs))
    BY <1>3 DEF apply_relay_state, Advance, cpVars
  <2>2. es = "CHARGING" => cp.committed = "C" /\ ~fault_any_latched_active(fs)
    BY <2>1 DEF ChargeInv, Decided, Coherent, FaultLatchCoherent
  <2> QED BY <2>1, <2>2 DEF ChargeInv, Decided
<1>4. CASE \E cause \in Resets : Reset(cause)
  BY <1>4 DEF Reset, ChargeInv
<1>5. CASE pc \notin Decided /\ pc' \notin Decided /\ Moves
  <2>1. CASE EntersFault
    BY <1>5, <2>1 DEF EntersFault, RaiseLatched, evse_transition, Enter, ChargeInv
  <2>2. CASE KeepsCharge
    BY <1>5, <2>2 DEF KeepsCharge, ChargeInv
  <2> QED BY <1>5, <2>1, <2>2 DEF Moves
<1> QED BY <1>1, <1>2, <1>3, <1>4, <1>5, IntoDecided, NextMoves

LEMMA ChargeInvariant == Spec => []ChargeInv
<1>1. Init => ChargeInv BY DEF Init, ChargeInv
<1>2. Interlock /\ ChargeInv /\ [Next]_vars => ChargeInv'
  <2>1. CASE UNCHANGED vars
    BY <2>1 DEF vars, evseVars, cpVars, rfidVars, worldVars, ChargeInv
  <2> QED BY <2>1, ChargeStep DEF Interlock
<1> QED BY <1>1, <1>2, InterlockInvariant, PTL DEF Spec

\* Only apply_relay_state closes the contactor.
LEMMA OnlyRelayCloses == ASSUME Coherent, TypeOK', Next, ~relay, relay' PROVE apply_relay_state
<1>1. ~Boot BY BootCoherent
<1>2. ~DrainInbox BY DrainCoherent
<1>3. ~(\/ Poll \/ check_ac_absent \/ check_relay_weld_bl0939 \/ check_relay_stuck_open_bl0939
        \/ check_hard_over_current \/ check_soft_over_current)
  BY PollCoherent
<1>4. ~((\E card \in Swipes : RfidSwipe(card)) \/ PublishSnapshot \/ Wake \/ Environment)
  BY RestCoherent
<1> QED BY <1>1, <1>2, <1>3, <1>4, TickCoherent DEF Next, SafetyLoop, Tick

\* The contactor closes only after the full dwell in state C, in an open session and, where
\* a card is required, with one accepted and the vehicle not unplugged since
\* (update_evse_from_j1772 and apply_relay_state).
THEOREM ClosesByDwellAndAuth == Spec => CloseNeedsDwellAndAuth
<1>1. Interlock /\ Interlock' /\ ChargeInv /\ [Next]_vars
        => [~relay /\ relay' => /\ streak.c = EVSE_C_DWELL_TICKS /\ session.active
                                /\ config.requireAuth => auth]_vars
  <2> SUFFICES ASSUME Interlock, Interlock', ChargeInv, Next, ~relay, relay'
               PROVE  /\ streak.c = EVSE_C_DWELL_TICKS /\ session.active
                      /\ config.requireAuth => auth
    OBVIOUS
  <2>1. Coherent /\ TypeOK' BY DEF Interlock, Coherent
  <2>2. apply_relay_state BY <2>1, OnlyRelayCloses
  <2>3. pc = "relay" /\ es = "CHARGING"
    BY <2>2 DEF apply_relay_state, Advance
  <2> QED BY <2>1, <2>3 DEF ChargeInv, Decided, Coherent, SessionIsCharging
<1> QED BY <1>1, ChargeInvariant, InterlockInvariant, PTL DEF Spec, CloseNeedsDwellAndAuth

-----------------------------------------------------------------------------
(* A ground fault stops the charge in its own tick. *)

\* The stages from check_gfci to the end of the detectors, in which no other task runs.
AfterGfci == {"adc", "cpe", "otemp", "evse", "regress", "relay", "cp", "poll", "ac", "weld",
              "stuck", "hoc", "soc"}

\* A full streak under the policy in force has been acted on, in this tick or before.
GfciActed ==
  pc \in AfterGfci /\ gfci.streak = GFCI_PERSIST_TICKS /\ config.policy # "WARN"
    => gfci.faultActive

LEMMA GfciStep ==
  ASSUME Coherent, GfciActed, Next
  PROVE  GfciActed'
<1>1. CASE Boot \/ DrainInbox
  BY <1>1 DEF Boot, BootSample, BootSelfTest, BootGfciTest, BootDone, DrainInbox, ClearFault,
     UserPause, UserResume, RfidLearnArm, SimulateReplug, RunGfciCalTest, CalTestDone, Publish,
     DrainDone, Dequeue, Advance, GfciActed, AfterGfci
<1>2. ASSUME NEW pe2 \in Pe2Low, check_gfci(pe2) PROVE GfciActed'
  <2>1. gfci' = gfci_policy_step(gfci, pe2, config.policy).ctx /\ config' = config
    BY <1>2 DEF check_gfci, worldVars
  <2>2. gfci'.streak = GFCI_PERSIST_TICKS /\ config.policy # "WARN" => gfci'.faultActive
    <3> DEFINE step == gfci_policy_step(gfci, pe2, config.policy)
    <3>1. CASE gfci.faultActive BY <2>1, <3>1 DEF gfci_policy_step
    <3>2. CASE ~gfci.faultActive
      <4>1. ASSUME step.ctx.streak = GFCI_PERSIST_TICKS, config.policy # "WARN"
            PROVE  step.act = "RAISE_FAULT"
        BY <3>2, <4>1, GfciPersistAssumption DEF gfci_policy_step
      <4>2. step.act = "RAISE_FAULT" => step.ctx.faultActive BY DEF gfci_policy_step
      <4> QED BY <2>1, <4>1, <4>2
    <3> QED BY <3>1, <3>2
  <2> QED BY <2>1, <2>2 DEF GfciActed
<1>3. CASE \/ ServiceReplug \/ (\E mv \in cp_high_mv : Classify(mv)) \/ check_safe_fail
           \/ (\E card \in Swipes : RfidSwipe(card)) \/ PublishSnapshot \/ Wake
  BY <1>3 DEF ServiceReplug, Classify, check_safe_fail, RfidSwipe, PublishSnapshot, Wake, Advance,
     GfciActed, AfterGfci
<1>4. CASE \/ \E rail \in AdcRail : check_adc_runtime(rail)
           \/ check_cp_e \/ check_over_temp \/ update_evse_from_j1772 \/ check_cp_regression
           \/ apply_relay_state \/ apply_cp_for_state
           \/ Poll \/ check_ac_absent \/ check_relay_weld_bl0939 \/ check_relay_stuck_open_bl0939
           \/ check_hard_over_current \/ check_soft_over_current
  <2>1. UNCHANGED <<gfci, config>>
    BY <1>4 DEF check_adc_runtime, check_cp_e, check_over_temp, update_evse_from_j1772,
       check_cp_regression, apply_relay_state, apply_cp_for_state, Poll, check_ac_absent,
       check_relay_weld_bl0939, check_relay_stuck_open_bl0939, check_hard_over_current,
       check_soft_over_current, MeterFrame, otherVars, worldVars
  <2>2. pc \in AfterGfci
    BY <1>4 DEF check_adc_runtime, check_cp_e, check_over_temp, update_evse_from_j1772,
       check_cp_regression, apply_relay_state, apply_cp_for_state, Poll, check_ac_absent,
       check_relay_weld_bl0939, check_relay_stuck_open_bl0939, check_hard_over_current,
       check_soft_over_current, Advance, AfterGfci
  <2> QED BY <2>1, <2>2 DEF GfciActed
<1>5. CASE Environment
  <2>1. ASSUME NEW c \in Configs, ConfigWrite(c) PROVE GfciActed'
    BY <2>1 DEF ConfigWrite, OthersRun, WorldFrame, GfciActed, AfterGfci
  <2>2. ASSUME NEW cause \in Resets, Reset(cause) PROVE GfciActed'
    BY <2>2 DEF Reset, GfciActed, AfterGfci
  <2> QED
    BY <1>5, <2>1, <2>2 DEF Environment, CommsPost, ButtonPress, AdcScan, AliveMarker, InboxFrame,
       WorldFrame, otherVars, worldVars, GfciActed
<1> QED BY <1>1, <1>2, <1>3, <1>4, <1>5 DEF Next, SafetyLoop, Tick

\* PE2 low for the debounce opens the contactor in the same tick under any policy but WARN,
\* also when the policy byte changed during the episode or a WARN was already recorded.
THEOREM GroundFaultOpens == Spec => []GroundFaultStops
<1>1. Init => GfciActed BY DEF Init, GfciActed, AfterGfci
<1>2. Interlock /\ GfciActed /\ [Next]_vars => GfciActed'
  <2>1. CASE UNCHANGED vars BY <2>1 DEF vars, otherVars, worldVars, GfciActed
  <2> QED BY <2>1, GfciStep DEF Interlock
<1>3. Interlock /\ GfciActed => GroundFaultStops
  <2> SUFFICES ASSUME Coherent, GfciActed, pc \in AfterGfci, gfci.streak = GFCI_PERSIST_TICKS,
                      config.policy # "WARN"
               PROVE  ~relay
    BY DEF Interlock, GroundFaultStops, AfterGfci
  <2>1. FAULT_GFCI \in fs.active
    BY DEF GfciActed, Coherent, GfciContextAgrees, fault_is_active
  <2> QED BY <2>1, Kinds DEF Coherent, FaultLatchCoherent, fault_any_latched_active
<1> QED BY <1>1, <1>2, <1>3, InterlockInvariant, PTL DEF Spec

-----------------------------------------------------------------------------
(* The derate of a session is kept. *)

Keeps == session'.active => derate' >= derate

LEMMA EnterKeeps ==
  ASSUME TypeOK, NEW next, NEW s \in Sessions, Enter(next, s)
  PROVE  Keeps
<1>1. derate \in Nat BY DEF TypeOK, EvseTypes
<1>2. CASE es = "CHARGING" /\ next # "CHARGING" /\ s.active
  <2>1. session' = session_end(s) BY <1>2 DEF Enter
  <2> QED BY <2>1 DEF session_end, Sessions, Keeps
<1>3. CASE ~(es = "CHARGING" /\ next # "CHARGING" /\ s.active)
  BY <1>1, <1>3 DEF Enter, Keeps
<1> QED BY <1>2, <1>3

LEMMA SameKeeps == ASSUME TypeOK, derate' = derate PROVE Keeps
BY DEF TypeOK, EvseTypes, Keeps

LEMMA RaiseKeeps == ASSUME TypeOK, NEW id, RaiseLatched(id) \/ NoFault PROVE Keeps
<1>1. CASE NoFault BY <1>1, SameKeeps DEF NoFault, evseVars
<1>2. CASE RaiseLatched(id)
  <2>1. session \in Sessions /\ post_fault_event(session) \in Sessions
    BY PostType DEF TypeOK, EvseTypes
  <2>2. Enter("FAULT", session) \/ Enter("FAULT", post_fault_event(session))
    BY <1>2 DEF RaiseLatched, evse_transition
  <2> QED BY <2>1, <2>2, EnterKeeps
<1> QED BY <1>1, <1>2

LEMMA DerateKept == ASSUME TypeOK, Next PROVE Keeps
<1>0. session \in Sessions /\ post_fault_event(session) \in Sessions /\ derate \in Nat
  BY PostType DEF TypeOK, EvseTypes
<1>1. CASE Boot
  <2>1. ASSUME NEW mv \in CpMv, BootSample(mv) PROVE Keeps
    BY <2>1, SameKeeps DEF BootSample, evseVars
  <2>2. ASSUME NEW mv \in CpMv, NEW rail \in AdcRail, BootSelfTest(mv, rail) PROVE Keeps
    BY <2>2, RaiseKeeps DEF BootSelfTest
  <2>3. ASSUME NEW pass \in CalOutcomes, BootGfciTest(pass) PROVE Keeps
    BY <2>3, RaiseKeeps DEF BootGfciTest
  <2>4. CASE BootDone
    <3>1. RaiseLatched(FAULT_CRASH_LOOP_SAFE_FAIL) \/ \E next : Enter(next, session)
      BY <2>4 DEF BootDone, evse_transition
    <3> QED BY <1>0, <3>1, RaiseKeeps, EnterKeeps
  <2> QED BY <1>1, <2>1, <2>2, <2>3, <2>4 DEF Boot
<1>2. CASE DrainInbox
  <2>1. UNCHANGED evseVars \/ \E next : Enter(next, session)
    BY <1>2 DEF DrainInbox, ClearFault, UserPause, UserResume, RfidLearnArm, SimulateReplug,
       RunGfciCalTest, CalTestDone, Publish, DrainDone, evse_transition
  <2> QED BY <1>0, <2>1, EnterKeeps, SameKeeps DEF evseVars
<1>3. CASE \/ ServiceReplug \/ (\E mv \in cp_high_mv : Classify(mv)) \/ update_evse_from_j1772
           \/ check_cp_regression \/ apply_relay_state \/ apply_cp_for_state
           \/ Poll \/ (\E card \in Swipes : RfidSwipe(card)) \/ PublishSnapshot \/ Wake
  <2>1. UNCHANGED derate \/ \E next : Enter(next, session)
    BY <1>3 DEF ServiceReplug, Classify, update_evse_from_j1772, EvseSticky, EvsePaused,
       EvseRunning, check_cp_regression, apply_relay_state, apply_cp_for_state, Poll, RfidSwipe,
       PublishSnapshot, Wake, evse_transition, evseVars
  <2> QED BY <1>0, <2>1, EnterKeeps, SameKeeps
<1>4. CASE \/ check_safe_fail \/ (\E pe2 \in Pe2Low : check_gfci(pe2))
           \/ (\E rail \in AdcRail : check_adc_runtime(rail)) \/ check_cp_e
           \/ check_relay_weld_bl0939 \/ check_relay_stuck_open_bl0939 \/ check_hard_over_current
  <2>1. UNCHANGED derate \/ NoFault \/ \E id : RaiseLatched(id)
    BY <1>4 DEF check_safe_fail, check_gfci, check_adc_runtime, check_cp_e,
       check_relay_weld_bl0939, check_relay_stuck_open_bl0939, check_hard_over_current, Detect
  <2> QED BY <2>1, RaiseKeeps, SameKeeps
<1>5. CASE check_over_temp
  <2>1. \/ NoFault \/ \E next : Enter(next, post_fault_event(session)) \/ Enter(next, session)
    BY <1>5 DEF check_over_temp, evse_transition
  <2> QED BY <1>0, <2>1, EnterKeeps, SameKeeps DEF NoFault, evseVars
<1>6. CASE check_ac_absent
  BY <1>6, SameKeeps DEF check_ac_absent, RaiseSelfClearing, ClearSelfClearing, NoFault, evseVars
<1>7. CASE check_soft_over_current
  <2>1. CASE SocRamps
    <3>1. effective_advertised_amps \in 6..48
      BY AmpsRange DEF TypeOK, SOC_DERATE_FLOOR_A, HW_AMPS_MAX
    <3>2. \A adv \in 6..48 : DerateStep(adv) \in Nat BY DEF DerateStep
    <3> QED BY <1>0, <2>1, <3>1, <3>2 DEF SocRamps, Keeps
  <2>2. CASE ~SocRamps
    BY <1>7, <2>2, SameKeeps DEF check_soft_over_current, SocWithinLimit, SocCounts, SocAtFloor,
       RaiseSelfClearing, ClearSelfClearing, NoFault, evseVars
  <2> QED BY <2>1, <2>2
<1>8. CASE Environment
  <2>1. ASSUME NEW cause \in Resets, Reset(cause) PROVE Keeps
    BY <2>1 DEF Reset, Keeps
  <2> QED
    BY <1>8, <2>1, SameKeeps DEF Environment, CommsPost, ButtonPress, ConfigWrite, AdcScan,
       AliveMarker, InboxFrame, WorldFrame, evseVars
<1> QED BY <1>1, <1>2, <1>3, <1>4, <1>5, <1>6, <1>7, <1>8 DEF Next, SafetyLoop, Tick

\* Amps the soft over-current ramp took are not given back within a session, whatever
\* the current does and however the configured amps change (check_soft_over_current).
THEOREM DerateIsSticky == Spec => DerateSticky
<1>1. TypeOK /\ [Next]_vars
        => [session.active /\ session'.active => derate' >= derate]_vars
  BY DerateKept DEF Keeps
<1> QED BY <1>1, TypeCorrect, PTL DEF Spec, DerateSticky

-----------------------------------------------------------------------------
(***************************************************************************)
(* The driven F and the missing-pilot detector.                            *)
(*                                                                         *)
(* While the unit drives F the detector does not count, and whatever it    *)
(* had classified is forgotten when the drive ends: CLEAR_FAULT and the    *)
(* end of the replug window start the classifier over.  What remains is    *)
(* the tick in which the drive ends and the lag of the read-back: at most  *)
(* 1 + CP_LAG readings of E, too few to commit the band.                   *)
(***************************************************************************)

\* The firmware wants F on the pilot: the replug window is open, or FAULT.
Driven == replug > 0 \/ es = "FAULT"

\* The stages between the end of the drive and the pilot stage of the same tick,
\* before and after the classifier has read the pilot.
Settling == {"drain", "cal", "replug", "classify"}
Sampled  == {"safefail", "gfci", "adc", "cpe", "otemp", "evse", "regress", "relay", "cp"}

\* What the classifier may remember of the driven F once the drive has ended.
Forgotten ==
  /\ cp.committed # "E"
  /\ cpOut = "F" => pc \in Settling \cup Sampled
  /\ cpOut = "F" /\ pc \in Settling => cp.candidate # "E"
  /\ cpOut = "F" /\ pc \in Sampled /\ cp.candidate = "E" => cp.streak = 1
  /\ cpOut # "F" /\ cp.candidate = "E" => cp.streak + follow <= CP_LAG + 1

PilotInv == NoSpuriousPilotFault /\ (~Driven => Forgotten)

\* What almost every step does to the pilot: nothing, or it enters FAULT.
NoPilotRaised == FAULT_CP_NO_PILOT \in fs'.active => FAULT_CP_NO_PILOT \in fs.active
PilotKept ==
  /\ UNCHANGED <<cp, replug, follow>>
  /\ cpOut' = cpOut \/ es' = "FAULT"
  /\ es = "FAULT" => es' = "FAULT"
  /\ NoPilotRaised

LEMMA SamePilot ==
  ASSUME UNCHANGED <<cp, replug, follow, cpOut, es, fs>>
  PROVE  PilotKept
BY DEF PilotKept, NoPilotRaised

LEMMA EnterKeepsPilot ==
  ASSUME UNCHANGED <<cp, replug, follow>>, NEW next, NEW s, evse_transition(next, s),
         es = "FAULT" => next = "FAULT", NoPilotRaised
  PROVE  PilotKept
BY DEF PilotKept, evse_transition, Enter, Trips

LEMMA RaiseKeepsPilot ==
  ASSUME UNCHANGED <<cp, replug, follow>>, NEW id, id # FAULT_CP_NO_PILOT,
         RaiseLatched(id) \/ RaiseSelfClearing(id) \/ ClearSelfClearing(id) \/ NoFault
  PROVE  PilotKept
<1>1. NoPilotRaised
  <2>1. fs' = fs \/ fs' = fault_raise(fs, id) \/ fs' = fault_clear(fs, id)
    BY DEF RaiseLatched, RaiseSelfClearing, ClearSelfClearing, NoFault
  <2> QED BY <2>1 DEF fault_raise, fault_clear, NoPilotRaised
<1>2. CASE RaiseLatched(id)
  BY <1>1, <1>2, EnterKeepsPilot DEF RaiseLatched
<1>3. CASE RaiseSelfClearing(id) \/ ClearSelfClearing(id) \/ NoFault
  BY <1>1, <1>3 DEF RaiseSelfClearing, ClearSelfClearing, NoFault, evseVars, PilotKept
<1> QED BY <1>2, <1>3

\* The detectors' other ids.
LEMMA NotPilotIds ==
  FAULT_CP_NO_PILOT \notin {FAULT_CRASH_LOOP_SAFE_FAIL, FAULT_GFCI, FAULT_ADC_OUT_OF_RANGE,
    FAULT_BOOT_SELF_TEST, FAULT_GFCI_SELF_TEST, FAULT_RELAY_WELD, FAULT_RELAY_STUCK_OPEN,
    FAULT_HARD_OVER_CURRENT, FAULT_OVER_TEMP, FAULT_AC_ABSENT, FAULT_SOFT_OVER_CURRENT}
BY DEF FAULT_CP_NO_PILOT, FAULT_CRASH_LOOP_SAFE_FAIL, FAULT_GFCI, FAULT_ADC_OUT_OF_RANGE,
   FAULT_BOOT_SELF_TEST, FAULT_GFCI_SELF_TEST, FAULT_RELAY_WELD, FAULT_RELAY_STUCK_OPEN,
   FAULT_HARD_OVER_CURRENT, FAULT_OVER_TEMP, FAULT_AC_ABSENT, FAULT_SOFT_OVER_CURRENT

\* A step that leaves the pilot alone keeps the invariant.
LEMMA PilotKeptStep ==
  ASSUME PilotInv, PilotKept, pc \in Settling => pc' \in Settling, pc \in Sampled => pc' \in Sampled
  PROVE  PilotInv'
<1>1. NoSpuriousPilotFault'
  BY DEF PilotInv, PilotKept, NoPilotRaised, NoSpuriousPilotFault, fault_is_active
<1>2. ASSUME ~Driven' PROVE Forgotten'
  <2>1. ~Driven /\ cpOut' = cpOut
    BY <1>2 DEF Driven, PilotKept
  <2>2. Settling \cap Sampled = {} BY DEF Settling, Sampled
  <2> QED BY <2>1, <2>2 DEF PilotInv, PilotKept, Forgotten
<1> QED BY <1>1, <1>2 DEF PilotInv

LEMMA BootPilot ==
  ASSUME (\E pass \in CalOutcomes : BootGfciTest(pass)) \/ BootDone
  PROVE  PilotKept /\ pc \notin Settling \cup Sampled
<1>1. ASSUME NEW pass \in CalOutcomes, BootGfciTest(pass) PROVE PilotKept
  BY <1>1, NotPilotIds, RaiseKeepsPilot DEF BootGfciTest, cpVars
<1>2. ASSUME BootDone PROVE PilotKept
  <2>1. CASE safeFail
    BY <1>2, <2>1, NotPilotIds, RaiseKeepsPilot DEF BootDone, cpVars
  <2>2. CASE ~safeFail
    BY <1>2, <2>2, EnterKeepsPilot DEF BootDone, cpVars, NoPilotRaised
  <2> QED BY <2>1, <2>2
<1>3. pc \in {"gfcitest", "bootdone"}
  BY DEF BootGfciTest, BootDone, Advance
<1> QED BY <1>1, <1>2, <1>3 DEF Settling, Sampled

LEMMA DrainPilot ==
  ASSUME \/ UserPause \/ UserResume \/ RfidLearnArm \/ RunGfciCalTest \/ CalTestDone \/ Publish
         \/ DrainDone
  PROVE  PilotKept /\ pc \in Settling /\ pc' \in Settling
<1>1. ASSUME UserPause PROVE PilotKept
  BY <1>1, EnterKeepsPilot DEF UserPause, cpVars, NoPilotRaised
<1>2. ASSUME UserResume PROVE PilotKept
  BY <1>2, EnterKeepsPilot DEF UserResume, cpVars, NoPilotRaised
<1>3. ASSUME RfidLearnArm \/ RunGfciCalTest \/ CalTestDone \/ Publish \/ DrainDone PROVE PilotKept
  BY <1>3, SamePilot DEF RfidLearnArm, RunGfciCalTest, CalTestDone, Publish, DrainDone, cpVars,
     evseVars
<1>4. pc \in Settling /\ pc' \in Settling
  BY DEF UserPause, UserResume, RfidLearnArm, RunGfciCalTest, CalTestDone, Publish, DrainDone,
     Dequeue, Advance, Settling
<1> QED BY <1>1, <1>2, <1>3, <1>4

LEMMA TickPilot ==
  ASSUME \/ check_safe_fail
         \/ \E pe2 \in Pe2Low : check_gfci(pe2)
         \/ \E rail \in AdcRail : check_adc_runtime(rail)
         \/ check_over_temp \/ update_evse_from_j1772 \/ check_cp_regression \/ apply_relay_state
  PROVE  PilotKept /\ pc \in Sampled /\ pc' \in Sampled
<1>1. ASSUME check_safe_fail PROVE PilotKept
  BY <1>1, NotPilotIds, RaiseKeepsPilot DEF check_safe_fail, cpVars
<1>2. ASSUME NEW pe2 \in Pe2Low, check_gfci(pe2) PROVE PilotKept
  <2>1. /\ UNCHANGED <<cp, replug, follow>>
        /\ NoFault \/ RaiseLatched(FAULT_GFCI) \/ UNCHANGED <<cpOut, es, fs>>
    BY <1>2 DEF check_gfci, cpVars
  <2> QED BY <2>1, NotPilotIds, RaiseKeepsPilot, SamePilot
<1>3. ASSUME NEW rail \in AdcRail, check_adc_runtime(rail) PROVE PilotKept
  <2>1. RaiseLatched(FAULT_ADC_OUT_OF_RANGE) \/ NoFault BY <1>3 DEF check_adc_runtime
  <2> QED BY <1>3, <2>1, NotPilotIds, RaiseKeepsPilot DEF check_adc_runtime, cpVars
<1>4. ASSUME check_over_temp PROVE PilotKept
  <2>0. UNCHANGED <<cp, replug, follow>> BY <1>4 DEF check_over_temp, cpVars
  <2>1. \/ /\ fs' = fault_raise(fs, FAULT_OVER_TEMP)
           /\ evse_transition(IF es = "FAULT" THEN es ELSE "COOLING_DOWN", post_fault_event(session))
        \/ /\ fs' = fault_clear(fs, FAULT_OVER_TEMP)
           /\ evse_transition(IF es = "COOLING_DOWN" THEN "READY" ELSE es, session)
        \/ NoFault
    BY <1>4 DEF check_over_temp
  <2>2. NoPilotRaised
    BY <2>1, NotPilotIds DEF NoPilotRaised, NoFault, fault_raise, fault_clear
  <2>3. CASE NoFault BY <2>0, <2>3, NotPilotIds, RaiseKeepsPilot
  <2>4. CASE evse_transition(IF es = "FAULT" THEN es ELSE "COOLING_DOWN", post_fault_event(session))
    BY <2>0, <2>2, <2>4, EnterKeepsPilot
  <2>5. CASE evse_transition(IF es = "COOLING_DOWN" THEN "READY" ELSE es, session)
    BY <2>0, <2>2, <2>5, EnterKeepsPilot
  <2> QED BY <2>1, <2>3, <2>4, <2>5
<1>5. ASSUME update_evse_from_j1772 PROVE PilotKept
  <2>0. UNCHANGED <<cp, replug, follow, fs>> /\ NoPilotRaised
    BY <1>5 DEF update_evse_from_j1772, cpVars, NoPilotRaised
  <2>1. \/ UNCHANGED evseVars
        \/ es # "FAULT" /\ \E next : evse_transition(next, session)
    BY <1>5 DEF update_evse_from_j1772, EvseSticky, EvsePaused, EvseRunning
  <2> QED BY <2>0, <2>1, EnterKeepsPilot, SamePilot DEF evseVars
<1>6. ASSUME check_cp_regression \/ apply_relay_state PROVE PilotKept
  BY <1>6, SamePilot DEF check_cp_regression, apply_relay_state, cpVars
<1>7. pc \in Sampled /\ pc' \in Sampled
  BY DEF check_safe_fail, check_gfci, check_adc_runtime, check_over_temp, update_evse_from_j1772,
     check_cp_regression, apply_relay_state, Advance, Sampled
<1> QED BY <1>1, <1>2, <1>3, <1>4, <1>5, <1>6, <1>7

LEMMA PollPilot ==
  ASSUME \/ Poll \/ check_ac_absent \/ check_relay_weld_bl0939 \/ check_relay_stuck_open_bl0939
         \/ check_hard_over_current \/ check_soft_over_current
  PROVE  PilotKept /\ pc \notin Settling \cup Sampled
<1>0. UNCHANGED <<cp, replug, follow>>
  BY DEF Poll, check_ac_absent, check_relay_weld_bl0939, check_relay_stuck_open_bl0939,
     check_hard_over_current, check_soft_over_current, MeterFrame, cpVars
<1>1. ASSUME Poll PROVE PilotKept BY <1>0, <1>1, SamePilot DEF Poll, evseVars
<1>2. ASSUME check_ac_absent PROVE PilotKept
  BY <1>0, <1>2, NotPilotIds, RaiseKeepsPilot DEF check_ac_absent
<1>3. ASSUME check_relay_weld_bl0939 PROVE PilotKept
  BY <1>0, <1>3, NotPilotIds, RaiseKeepsPilot DEF check_relay_weld_bl0939
<1>4. ASSUME check_relay_stuck_open_bl0939 PROVE PilotKept
  BY <1>0, <1>4, NotPilotIds, RaiseKeepsPilot DEF check_relay_stuck_open_bl0939, Detect
<1>5. ASSUME check_hard_over_current PROVE PilotKept
  BY <1>0, <1>5, NotPilotIds, RaiseKeepsPilot DEF check_hard_over_current, Detect
<1>6. ASSUME check_soft_over_current PROVE PilotKept
  <2>1. \/ NoFault \/ RaiseSelfClearing(FAULT_SOFT_OVER_CURRENT)
        \/ ClearSelfClearing(FAULT_SOFT_OVER_CURRENT)
        \/ UNCHANGED <<fs, es, cpOut>>
    BY <1>6 DEF check_soft_over_current, SocWithinLimit, SocCounts, SocRamps, SocAtFloor
  <2> QED BY <1>0, <2>1, NotPilotIds, RaiseKeepsPilot, SamePilot
<1>7. pc \notin Settling \cup Sampled
  BY DEF Poll, check_ac_absent, check_relay_weld_bl0939, check_relay_stuck_open_bl0939,
     check_hard_over_current, check_soft_over_current, Advance, Settling, Sampled
<1> QED BY <1>1, <1>2, <1>3, <1>4, <1>5, <1>6, <1>7

LEMMA RestPilot ==
  ASSUME (\E card \in Swipes : RfidSwipe(card)) \/ PublishSnapshot \/ Wake \/ Environment
  PROVE  \/ \E cause \in Resets : Reset(cause)
         \/ PilotKept /\ (pc' = pc \/ pc \notin Settling \cup Sampled)
<1>1. \/ \E cause \in Resets : Reset(cause)
      \/ UNCHANGED <<cp, replug, follow, cpOut, es, fs>>
  BY DEF RfidSwipe, PublishSnapshot, Wake, Environment, CommsPost, ButtonPress, ConfigWrite, AdcScan,
     AliveMarker, InboxFrame, WorldFrame, evseVars, cpVars
<1>2. \/ \E cause \in Resets : Reset(cause)
      \/ pc' = pc \/ pc \in {"rfid", "publish", "sleep"}
  BY DEF RfidSwipe, PublishSnapshot, Wake, Environment, CommsPost, ButtonPress, ConfigWrite, AdcScan,
     AliveMarker, InboxFrame, WorldFrame, Advance
<1> QED BY <1>1, <1>2, SamePilot DEF Settling, Sampled

\* One more reading: after the drive at most 1 + CP_LAG of them are in band E.
LEMMA ReadingPilot ==
  ASSUME \A mv \in CpMv : classify_strict(mv) # "E", CP_LAG + 1 < J1772_DEBOUNCE_N,
         TypeOK, PilotInv, NEW mv \in cp_high_mv, Classify(mv)
  PROVE  PilotInv'
<1>0. /\ CP_LAG \in Nat \ {0} /\ J1772_DEBOUNCE_N \in Nat /\ STREAK_MAX \in Nat
      /\ J1772_DEBOUNCE_N <= STREAK_MAX
      /\ follow \in 0..CP_LAG /\ cp \in Classifier /\ cp.streak \in 0..STREAK_MAX
  BY SafetyAssumption, DebounceAssumption DEF TypeOK, CpTypes, Classifier
<1>1. /\ pc = "classify" /\ pc' = "safefail" /\ UNCHANGED <<cpOut, es, replug, fs>>
      /\ cp' = j1772_step(cp, mv)
      /\ follow' = IF cpOut = "F" THEN Least(follow + 1, CP_LAG)
                   ELSE IF follow > 0 THEN follow - 1 ELSE 0
  BY DEF Classify, Advance, evseVars
<1> DEFINE s == classify_strict(mv)
           k == IF s # cp.candidate THEN 1
                ELSE IF cp.streak < STREAK_MAX THEN cp.streak + 1 ELSE cp.streak
<1>2. /\ cp'.candidate = s /\ cp'.streak = k
      /\ cp'.committed = IF k >= J1772_DEBOUNCE_N THEN s ELSE cp.committed
  BY <1>1 DEF j1772_step
<1>3. s = "E" => cpOut = "F" \/ follow > 0
  BY DEF cp_high_mv
<1> HIDE DEF s
<1> SUFFICES ASSUME ~Driven PROVE Forgotten'
  BY <1>1 DEF PilotInv, NoSpuriousPilotFault, Driven
<1>4. CASE s # "E"
  BY <1>1, <1>2, <1>4 DEF PilotInv, Forgotten, Settling, Sampled
<1>5. CASE s = "E" /\ cpOut = "F"
  <2>1. k = 1 BY <1>1, <1>5 DEF PilotInv, Forgotten, Settling
  <2> QED BY <1>0, <1>1, <1>2, <1>5, <2>1 DEF PilotInv, Forgotten, Settling, Sampled
<1>6. CASE s = "E" /\ cpOut # "F"
  <2>1. follow' = follow - 1 /\ follow \in 1..CP_LAG
    BY <1>0, <1>1, <1>3, <1>6
  <2>2. k \in Nat /\ k + follow' <= CP_LAG + 1
    BY <1>0, <1>6, <2>1 DEF PilotInv, Forgotten
  <2>3. k < J1772_DEBOUNCE_N
    BY <1>0, <2>1, <2>2
  <2> QED BY <1>0, <1>1, <1>2, <1>6, <2>2, <2>3 DEF PilotInv, Forgotten
<1> QED BY <1>4, <1>5, <1>6

\* The steps that act on the pilot or the classifier.
LEMMA ActivePilot ==
  ASSUME \A mv \in CpMv : classify_strict(mv) # "E", TypeOK, PilotInv,
         \/ \E mv \in CpMv : BootSample(mv)
         \/ \E mv \in CpMv, rail \in AdcRail : BootSelfTest(mv, rail)
         \/ ClearFault \/ SimulateReplug \/ ServiceReplug \/ check_cp_e \/ apply_cp_for_state
         \/ \E cause \in Resets : Reset(cause)
  PROVE  PilotInv'
<1>0. /\ CP_LAG \in Nat \ {0} /\ CP_E_PERSIST_TICKS \in Nat \ {0}
      /\ SAFETY_REPLUG_WINDOW_TICKS \in Nat \ {0}
      /\ follow \in 0..CP_LAG /\ replug \in Nat /\ fs \in FaultState /\ streak \in Streaks
  BY SafetyAssumption DEF TypeOK, CpTypes, FaultTypes, StreakTypes
<1>a. FAULT_CP_NO_PILOT \notin fs.active
  BY DEF PilotInv, NoSpuriousPilotFault, fault_is_active
<1>1. ASSUME NEW mv \in CpMv, BootSample(mv) PROVE PilotInv'
  <2>1. /\ pc = "boot" /\ UNCHANGED <<pc, cpOut, es, replug, follow, fs>>
        /\ cp' = j1772_step(cp, mv)
    BY <1>1 DEF BootSample, evseVars
  <2>2. cp'.candidate # "E" /\ (cp.committed # "E" => cp'.committed # "E")
    BY <2>1 DEF j1772_step
  <2> QED
    BY <1>a, <2>1, <2>2 DEF PilotInv, Driven, Forgotten, NoSpuriousPilotFault, fault_is_active,
       Settling, Sampled
<1>2. ASSUME NEW mv \in CpMv, NEW rail \in AdcRail, BootSelfTest(mv, rail) PROVE PilotInv'
  <2>1. /\ pc = "boot" /\ UNCHANGED <<replug, follow>>
        /\ cp' = j1772_step(cp, mv)
        /\ RaiseLatched(FAULT_BOOT_SELF_TEST) \/ NoFault
    BY <1>2 DEF BootSelfTest, Advance
  <2>2. cp'.candidate # "E" /\ (cp.committed # "E" => cp'.committed # "E")
    BY <2>1 DEF j1772_step
  <2>3. FAULT_CP_NO_PILOT \notin fs'.active
    BY <1>a, <2>1, NotPilotIds DEF RaiseLatched, NoFault, fault_raise
  <2>4. CASE RaiseLatched(FAULT_BOOT_SELF_TEST)
    BY <2>3, <2>4 DEF RaiseLatched, evse_transition, Enter, PilotInv, Driven,
       NoSpuriousPilotFault, fault_is_active
  <2>5. CASE NoFault
    BY <2>1, <2>2, <2>3, <2>5 DEF NoFault, evseVars, PilotInv, Driven, Forgotten,
       NoSpuriousPilotFault, fault_is_active, Settling, Sampled
  <2> QED BY <2>1, <2>4, <2>5
<1>3. CASE ClearFault
  <2> DEFINE id      == Head(inbox).id
             refused == id = FAULT_GFCI \/ id >= FAULT_COUNT
             left    == IF id = 0 THEN fault_clear_all_clearable(fs) ELSE fault_clear(fs, id)
             leave   == ~refused /\ es = "FAULT" /\ ~fault_any_latched_active(left)
  <2>1. /\ pc = "drain" /\ pc' = "drain" /\ UNCHANGED <<replug, follow>>
        /\ fs' = IF leave THEN [left EXCEPT !.first = FAULT_NONE] ELSE left
        /\ evse_transition(IF leave THEN "READY" ELSE es, session)
        /\ cp' = IF leave THEN j1772_init ELSE cp
    BY <1>3 DEF ClearFault, Dequeue
  <2>2. left \in FaultState /\ left.active \subseteq fs.active
    <3>1. CASE id = 0 BY <1>0, <3>1, ClearAllFacts
    <3>2. CASE id # 0
      <4>1. /\ fault_clear(fs, id) \in FaultState
            /\ fault_clear(fs, id).active = IF id = FAULT_GFCI THEN fs.active ELSE fs.active \ {id}
        BY <1>0, ClearFacts
      <4> QED BY <3>2, <4>1
    <3> QED BY <3>1, <3>2
  <2>3. FAULT_CP_NO_PILOT \notin fs'.active
    BY <1>a, <2>1, <2>2 DEF FaultState
  <2> HIDE DEF leave
  <2>4. cpOut' = cpOut /\ es' = IF leave THEN "READY" ELSE es
    BY <2>1 DEF evse_transition, Enter, Trips
  <2>5. CASE leave
    BY <2>1, <2>3, <2>4, <2>5 DEF j1772_init, PilotInv, Forgotten, NoSpuriousPilotFault,
       fault_is_active, Settling
  <2>6. CASE ~leave
    BY <2>1, <2>3, <2>4, <2>6 DEF PilotInv, Driven, Forgotten, NoSpuriousPilotFault,
       fault_is_active
  <2> QED BY <2>5, <2>6
<1>4. CASE SimulateReplug
  <2>1. /\ pc' = pc /\ UNCHANGED <<cp, follow, fs>>
        /\ replug' = SAFETY_REPLUG_WINDOW_TICKS \/ UNCHANGED <<evseVars, replug>>
    BY <1>4 DEF SimulateReplug
  <2> QED
    BY <1>0, <2>1 DEF evseVars, PilotInv, Driven, Forgotten, NoSpuriousPilotFault
<1>5. CASE ServiceReplug
  <2>1. pc = "replug" /\ pc' = "classify" /\ UNCHANGED <<follow, fs>>
    BY <1>5 DEF ServiceReplug, Advance
  <2>2. CASE replug = 1
    BY <1>5, <2>1, <2>2 DEF ServiceReplug, j1772_init, PilotInv, Forgotten, NoSpuriousPilotFault,
       Settling
  <2>3. CASE replug # 1
    <3>1. UNCHANGED <<es, cpOut, cp>> /\ (replug > 0 => replug' > 0) /\ (replug = 0 => replug' = 0)
      BY <1>0, <1>5, <2>3 DEF ServiceReplug, evseVars
    <3> QED
      BY <1>0, <2>1, <3>1 DEF PilotInv, Driven, Forgotten, NoSpuriousPilotFault, Settling
  <2> QED BY <2>2, <2>3
<1>6. CASE check_cp_e
  <2>1. /\ pc = "cpe" /\ pc' = "otemp" /\ UNCHANGED <<cp, replug, follow>>
    BY <1>6 DEF check_cp_e, Advance, cpVars
  <2>2. ~(cp.committed = "E" /\ es # "FAULT" /\ replug = 0)
    BY <1>0 DEF PilotInv, Driven, Forgotten
  <2>3. NoFault
    BY <1>0, <1>6, <2>2 DEF check_cp_e, Count
  <2> QED
    BY <2>1, <2>3 DEF NoFault, evseVars, PilotInv, Driven, Forgotten, NoSpuriousPilotFault,
       Settling, Sampled
<1>7. CASE apply_cp_for_state
  <2>1. pc = "cp" /\ pc' = "poll" /\ UNCHANGED <<cp, replug, follow, es, fs>>
    BY <1>7 DEF apply_cp_for_state, Advance, cpVars
  <2>2. ~Driven => cpOut' # "F"
    BY <1>0, <1>7 DEF apply_cp_for_state, Driven
  <2> QED
    BY <1>0, <2>1, <2>2 DEF PilotInv, Driven, Forgotten, NoSpuriousPilotFault, Settling, Sampled
<1>8. ASSUME NEW cause \in Resets, Reset(cause) PROVE PilotInv'
  BY <1>8 DEF Reset, fault_init, j1772_init, PilotInv, Forgotten, NoSpuriousPilotFault,
     fault_is_active
<1> QED BY <1>1, <1>2, <1>3, <1>4, <1>5, <1>6, <1>7, <1>8

LEMMA PilotStep ==
  ASSUME \A mv \in CpMv : classify_strict(mv) # "E", CP_LAG + 1 < J1772_DEBOUNCE_N,
         TypeOK, PilotInv, Next
  PROVE  PilotInv'
<1>1. CASE Boot
  <2>1. \/ \E mv \in CpMv : BootSample(mv)
        \/ \E mv \in CpMv, rail \in AdcRail : BootSelfTest(mv, rail)
        \/ (\E pass \in CalOutcomes : BootGfciTest(pass)) \/ BootDone
    BY <1>1 DEF Boot
  <2> QED BY <2>1, ActivePilot, BootPilot, PilotKeptStep
<1>2. CASE DrainInbox
  BY <1>2, ActivePilot, DrainPilot, PilotKeptStep DEF DrainInbox, Settling, Sampled
<1>3. CASE \E mv \in cp_high_mv : Classify(mv)
  BY <1>3, ReadingPilot
<1>4. CASE ServiceReplug \/ check_cp_e \/ apply_cp_for_state
  BY <1>4, ActivePilot
<1>5. CASE \/ check_safe_fail
           \/ \E pe2 \in Pe2Low : check_gfci(pe2)
           \/ \E rail \in AdcRail : check_adc_runtime(rail)
           \/ check_over_temp \/ update_evse_from_j1772 \/ check_cp_regression \/ apply_relay_state
  <2>1. PilotKept /\ pc \in Sampled /\ pc' \in Sampled BY <1>5, TickPilot
  <2>2. pc \notin Settling BY <2>1 DEF Settling, Sampled
  <2> QED BY <2>1, <2>2, PilotKeptStep
<1>6. CASE \/ Poll \/ check_ac_absent \/ check_relay_weld_bl0939 \/ check_relay_stuck_open_bl0939
           \/ check_hard_over_current \/ check_soft_over_current
  <2>1. PilotKept /\ pc \notin Settling \cup Sampled BY <1>6, PollPilot
  <2> QED BY <2>1, PilotKeptStep
<1>7. CASE (\E card \in Swipes : RfidSwipe(card)) \/ PublishSnapshot \/ Wake \/ Environment
  <2>1. CASE \E cause \in Resets : Reset(cause) BY <2>1, ActivePilot
  <2>2. CASE PilotKept /\ (pc' = pc \/ pc \notin Settling \cup Sampled)
    BY <2>2, PilotKeptStep
  <2> QED BY <1>7, <2>1, <2>2, RestPilot
<1> QED BY <1>1, <1>2, <1>3, <1>4, <1>5, <1>6, <1>7 DEF Next, SafetyLoop, Tick

\* With a vehicle that never shows band E, and a debounce longer than the tick in which a
\* drive ends and the lag of the read-back together (3 samples, one tick), no sequence of
\* faults, clears, replug windows, pauses and resets raises FAULT_CP_NO_PILOT (check_cp_e).
THEOREM DrivenFNeverTrips ==
  ASSUME \A mv \in CpMv : classify_strict(mv) # "E", CP_LAG + 1 < J1772_DEBOUNCE_N
  PROVE  Spec => []NoSpuriousPilotFault
<1>1. Init => PilotInv
  BY DEF Init, fault_init, j1772_init, PilotInv, Forgotten, NoSpuriousPilotFault, fault_is_active
<1>2. TypeOK /\ PilotInv /\ [Next]_vars => PilotInv'
  <2>1. ASSUME PilotInv, UNCHANGED vars PROVE PilotInv'
    BY <2>1 DEF vars, evseVars, cpVars, PilotInv, Driven, Forgotten, NoSpuriousPilotFault
  <2> QED BY <2>1, PilotStep
<1>3. PilotInv => NoSpuriousPilotFault
  BY DEF PilotInv
<1> QED BY <1>1, <1>2, <1>3, TypeCorrect, PTL DEF Spec

-----------------------------------------------------------------------------
(***************************************************************************)
(* A load that bleeds off and the weld detector.                           *)
(*                                                                         *)
(* The residual current of an opened load lasts for RESIDUAL_POLLS polls,  *)
(* the detector skips BL0939_WELD_SETTLE_POLLS polls after it has seen the *)
(* opening.  It sees an opening only if it saw the contactor closed, at a  *)
(* poll; but only a poll with the contactor closed leaves a residual.      *)
(***************************************************************************)

\* The residual current never outlasts the polls still to be skipped.  In the two stages
\* after a poll it has already been counted down and the window has not.
ResidualCovered ==
  /\ config \in Configs /\ residual <= RESIDUAL_POLLS
  /\ pc \in {"ac", "weld"} =>
       /\ bl.valid
       /\ ~relay => residual < WeldSettle \/ (residual = 0 /\ bl.ma < WELD_FLOW_MA)
  /\ pc \notin {"ac", "weld"} => residual <= met.settle \/ met.wasClosed

WeldInv == NoSpuriousWeld /\ ResidualCovered

\* Any fault but a weld.
LEMMA RaiseNoWeld ==
  ASSUME FAULT_RELAY_WELD \notin fs.active, NEW id, id # FAULT_RELAY_WELD,
         RaiseLatched(id) \/ RaiseSelfClearing(id) \/ ClearSelfClearing(id) \/ NoFault
  PROVE  FAULT_RELAY_WELD \notin fs'.active
<1>1. fs' = fs \/ fs' = fault_raise(fs, id) \/ fs' = fault_clear(fs, id)
  BY DEF RaiseLatched, RaiseSelfClearing, ClearSelfClearing, NoFault
<1> QED BY <1>1 DEF fault_raise, fault_clear

LEMMA NotWeldIds ==
  FAULT_RELAY_WELD \notin {FAULT_CRASH_LOOP_SAFE_FAIL, FAULT_GFCI, FAULT_ADC_OUT_OF_RANGE,
    FAULT_BOOT_SELF_TEST, FAULT_GFCI_SELF_TEST, FAULT_CP_NO_PILOT, FAULT_RELAY_STUCK_OPEN,
    FAULT_HARD_OVER_CURRENT, FAULT_OVER_TEMP, FAULT_AC_ABSENT, FAULT_SOFT_OVER_CURRENT}
BY DEF FAULT_CP_NO_PILOT, FAULT_CRASH_LOOP_SAFE_FAIL, FAULT_GFCI, FAULT_ADC_OUT_OF_RANGE,
   FAULT_BOOT_SELF_TEST, FAULT_GFCI_SELF_TEST, FAULT_RELAY_WELD, FAULT_RELAY_STUCK_OPEN,
   FAULT_HARD_OVER_CURRENT, FAULT_OVER_TEMP, FAULT_AC_ABSENT, FAULT_SOFT_OVER_CURRENT

\* Only its own detector raises the weld fault.
LEMMA OnlyWeldRaises ==
  ASSUME TypeOK, Next, FAULT_RELAY_WELD \notin fs.active, ~check_relay_weld_bl0939
  PROVE  FAULT_RELAY_WELD \notin fs'.active
<1>0. fs \in FaultState BY DEF TypeOK, FaultTypes
<1>1. CASE Boot
  <2>1. \/ fs' = fs \/ RaiseLatched(FAULT_BOOT_SELF_TEST) \/ RaiseLatched(FAULT_GFCI_SELF_TEST)
        \/ RaiseLatched(FAULT_CRASH_LOOP_SAFE_FAIL)
    BY <1>1 DEF Boot, BootSample, BootSelfTest, BootGfciTest, BootDone, NoFault
  <2> QED BY <2>1, RaiseNoWeld, NotWeldIds
<1>2. CASE ClearFault
  <2> DEFINE id   == Head(inbox).id
             left == IF id = 0 THEN fault_clear_all_clearable(fs) ELSE fault_clear(fs, id)
  <2>1. fs' = [left EXCEPT !.first = FAULT_NONE] \/ fs' = left
    BY <1>2 DEF ClearFault
  <2>2. left \in FaultState /\ left.active \subseteq fs.active
    <3>1. CASE id = 0 BY <1>0, <3>1, ClearAllFacts
    <3>2. CASE id # 0
      <4>1. /\ fault_clear(fs, id) \in FaultState
            /\ fault_clear(fs, id).active = IF id = FAULT_GFCI THEN fs.active ELSE fs.active \ {id}
        BY <1>0, ClearFacts
      <4> QED BY <3>2, <4>1
    <3> QED BY <3>1, <3>2
  <2>3. fs'.active = left.active BY <2>1, <2>2 DEF FaultState
  <2> QED BY <2>2, <2>3
<1>3. CASE DrainInbox /\ ~ClearFault
  BY <1>3 DEF DrainInbox, UserPause, UserResume, RfidLearnArm, SimulateReplug, RunGfciCalTest,
     CalTestDone, Publish, DrainDone
<1>4. CASE \/ ServiceReplug \/ (\E mv \in cp_high_mv : Classify(mv)) \/ update_evse_from_j1772
           \/ check_cp_regression \/ apply_relay_state \/ apply_cp_for_state \/ Poll
           \/ (\E card \in Swipes : RfidSwipe(card)) \/ PublishSnapshot \/ Wake
  BY <1>4 DEF ServiceReplug, Classify, update_evse_from_j1772, check_cp_regression,
     apply_relay_state, apply_cp_for_state, Poll, RfidSwipe, PublishSnapshot, Wake
<1>5. CASE \/ check_safe_fail \/ (\E pe2 \in Pe2Low : check_gfci(pe2))
           \/ (\E rail \in AdcRail : check_adc_runtime(rail)) \/ check_cp_e
  <2>1. \/ fs' = fs \/ RaiseLatched(FAULT_CRASH_LOOP_SAFE_FAIL) \/ RaiseLatched(FAULT_GFCI)
        \/ RaiseLatched(FAULT_ADC_OUT_OF_RANGE) \/ RaiseLatched(FAULT_CP_NO_PILOT)
    BY <1>5 DEF check_safe_fail, check_gfci, check_adc_runtime, check_cp_e, NoFault
  <2> QED BY <2>1, RaiseNoWeld, NotWeldIds
<1>6. CASE check_over_temp
  BY <1>6, NotWeldIds DEF check_over_temp, NoFault, fault_raise, fault_clear
<1>7. CASE \/ check_ac_absent \/ check_relay_stuck_open_bl0939 \/ check_hard_over_current
           \/ check_soft_over_current
  <2>1. \/ fs' = fs \/ RaiseSelfClearing(FAULT_AC_ABSENT) \/ ClearSelfClearing(FAULT_AC_ABSENT)
        \/ RaiseLatched(FAULT_RELAY_STUCK_OPEN) \/ RaiseLatched(FAULT_HARD_OVER_CURRENT)
        \/ RaiseSelfClearing(FAULT_SOFT_OVER_CURRENT)
        \/ ClearSelfClearing(FAULT_SOFT_OVER_CURRENT)
    BY <1>7 DEF check_ac_absent, check_relay_stuck_open_bl0939, check_hard_over_current,
       check_soft_over_current, SocWithinLimit, SocCounts, SocRamps, SocAtFloor, Detect, NoFault
  <2> QED BY <2>1, RaiseNoWeld, NotWeldIds
<1>8. CASE Environment
  <2>1. fs' = fs \/ fs' = fault_init
    BY <1>8 DEF Environment, CommsPost, ButtonPress, ConfigWrite, AdcScan, AliveMarker, Reset,
       InboxFrame, WorldFrame
  <2>2. fault_init.active = {} BY DEF fault_init
  <2> QED BY <2>1, <2>2
<1> QED BY <1>1, <1>2, <1>3, <1>4, <1>5, <1>6, <1>7, <1>8 DEF Next, SafetyLoop, Tick

\* Outside the meter's stages nothing that matters to the window changes.
LEMMA WindowAlone ==
  ASSUME ResidualCovered, config' = config \/ config' \in Configs,
         UNCHANGED <<residual, met>>, pc \notin {"ac", "weld"}, pc' \notin {"ac", "weld"}
  PROVE  ResidualCovered'
BY DEF ResidualCovered

LEMMA WindowSteps ==
  ASSUME ResidualCovered, Next,
         ~(\/ Poll \/ check_ac_absent \/ check_relay_weld_bl0939 \/ check_relay_stuck_open_bl0939
           \/ check_hard_over_current \/ check_soft_over_current \/ \E cause \in Resets : Reset(cause))
  PROVE  ResidualCovered'
<1>1. UNCHANGED <<residual, met>> /\ (config' = config \/ config' \in Configs)
  BY DEF Next, SafetyLoop, Boot, BootSample, BootSelfTest, BootGfciTest, BootDone, DrainInbox,
     ClearFault, UserPause, UserResume, RfidLearnArm, SimulateReplug, RunGfciCalTest, CalTestDone,
     Publish, DrainDone, Tick, ServiceReplug, Classify, check_safe_fail, check_gfci,
     check_adc_runtime, check_cp_e, check_over_temp, update_evse_from_j1772, check_cp_regression,
     apply_relay_state, apply_cp_for_state, RfidSwipe, PublishSnapshot, Wake, Environment,
     CommsPost, ButtonPress, ConfigWrite, AdcScan, AliveMarker, InboxFrame, WorldFrame, meterVars,
     worldVars
<1>2. pc \notin {"ac", "weld"} /\ pc' \notin {"ac", "weld"}
  BY DEF Next, SafetyLoop, Boot, BootSample, BootSelfTest, BootGfciTest, BootDone, DrainInbox,
     ClearFault, UserPause, UserResume, RfidLearnArm, SimulateReplug, RunGfciCalTest, CalTestDone,
     Publish, DrainDone, Dequeue, Advance, Tick, ServiceReplug, Classify, check_safe_fail,
     check_gfci, check_adc_runtime, check_cp_e, check_over_temp, update_evse_from_j1772,
     check_cp_regression, apply_relay_state, apply_cp_for_state, RfidSwipe, PublishSnapshot, Wake,
     Environment, CommsPost, ButtonPress, ConfigWrite, AdcScan, AliveMarker, InboxFrame,
     WorldFrame, OthersRun
<1> QED BY <1>1, <1>2, WindowAlone

\* What the theorem assumes of the inputs: the meter answers and is calibrated, an open
\* contactor draws nothing once the load has bled off, and the window covers that time.
BleedsOff ==
  /\ \A c \in Configs : c.calibrated
  /\ \A r \in MeterClosed \cup MeterOpen : r.valid
  /\ \A r \in MeterOpen : r.ma < WELD_FLOW_MA
  /\ RESIDUAL_POLLS <= BL0939_WELD_SETTLE_POLLS

LEMMA WeldStep ==
  ASSUME BleedsOff, TypeOK, WeldInv, Next
  PROVE  WeldInv'
<1>0. /\ RESIDUAL_POLLS \in Nat /\ BL0939_WELD_SETTLE_POLLS \in Nat \ {0}
      /\ BL0939_DETECTOR_PERSIST \in Nat \ {0}
      /\ residual \in Nat /\ met \in Memories /\ met.settle \in Nat /\ bl.ma \in Nat
      /\ relay \in BOOLEAN /\ met.wasClosed \in BOOLEAN
  BY SafetyAssumption DEF TypeOK, MeterTypes, EvseTypes, Memories, Readings
<1>a. FAULT_RELAY_WELD \notin fs.active /\ ResidualCovered
  BY DEF WeldInv, NoSpuriousWeld, fault_is_active
<1>1. CASE Poll
  <2>1. /\ pc = "poll" /\ UNCHANGED <<relay, met, config, fs>>
        /\ \/ pc' = "rfid" /\ UNCHANGED <<bl, residual>>
           \/ /\ pc' = "ac" /\ bl' \in bl0939_readings
              /\ residual' = IF relay THEN RESIDUAL_POLLS
                             ELSE IF residual > 0 THEN residual - 1 ELSE 0
    BY <1>1 DEF Poll, evseVars, worldVars
  <2>2. CASE pc' = "rfid" /\ UNCHANGED <<bl, residual>>
    BY <1>a, <2>1, <2>2 DEF ResidualCovered, WeldInv, NoSpuriousWeld
  <2>3. CASE /\ pc' = "ac" /\ bl' \in bl0939_readings
             /\ residual' = IF relay THEN RESIDUAL_POLLS
                            ELSE IF residual > 0 THEN residual - 1 ELSE 0
    <3>1. WeldSettle' = WeldSettle
      BY <2>1 DEF WeldSettle
    <3>2. residual <= met.settle \/ met.wasClosed
      BY <1>a, <2>1 DEF ResidualCovered
    <3>3. residual <= RESIDUAL_POLLS /\ RESIDUAL_POLLS <= BL0939_WELD_SETTLE_POLLS
      BY <1>a DEF ResidualCovered, BleedsOff
    <3>4. ~relay => residual <= WeldSettle
      BY <1>0, <3>2, <3>3 DEF WeldSettle
    <3>5. bl'.valid /\ (~relay /\ residual = 0 => bl'.ma < WELD_FLOW_MA)
      BY <1>0, <2>3 DEF bl0939_readings, BleedsOff
    <3>6. WeldSettle \in Nat BY <1>0 DEF WeldSettle
    <3>7. residual' <= RESIDUAL_POLLS BY <1>0, <2>3, <3>3
    <3>8. ~relay => residual' < WeldSettle \/ (residual' = 0 /\ bl'.ma < WELD_FLOW_MA)
      <4>1. CASE residual = 0 BY <2>3, <3>5, <4>1
      <4>2. CASE residual > 0 BY <1>0, <2>3, <3>4, <3>6, <4>2
      <4> QED BY <1>0, <4>1, <4>2
    <3> QED
      BY <1>a, <2>1, <2>3, <3>1, <3>5, <3>7, <3>8 DEF ResidualCovered, WeldInv, NoSpuriousWeld
  <2> QED BY <2>1, <2>2, <2>3
<1>2. CASE check_ac_absent
  <2>1. /\ pc = "ac" /\ pc' = "weld" /\ UNCHANGED <<relay, residual, bl, config>>
    BY <1>2 DEF check_ac_absent, MeterFrame, Advance, RaiseSelfClearing, ClearSelfClearing,
       NoFault, evseVars, worldVars
  <2>2. met'.settle = met.settle /\ met'.wasClosed = met.wasClosed
    BY <1>0, <1>2 DEF check_ac_absent, Memories
  <2>3. WeldSettle' = WeldSettle BY <2>1, <2>2 DEF WeldSettle
  <2>4. FAULT_RELAY_WELD \notin fs'.active
    <3>1. ~check_relay_weld_bl0939 BY <2>1 DEF check_relay_weld_bl0939, Advance
    <3> QED BY <1>a, <3>1, OnlyWeldRaises
  <2> QED BY <1>a, <2>1, <2>3, <2>4 DEF ResidualCovered, WeldInv, NoSpuriousWeld, fault_is_active
<1>3. CASE check_relay_weld_bl0939
  <2>1. /\ pc = "weld" /\ pc' = "stuck" /\ UNCHANGED <<residual, config>>
    BY <1>3 DEF check_relay_weld_bl0939, MeterFrame, Advance, worldVars
  <2>2. bl.valid /\ config.calibrated
    BY <1>a, <2>1 DEF ResidualCovered, BleedsOff
  <2>3. CASE WeldSettle > 0
    <3>1. NoFault /\ met' = [met EXCEPT !.wasClosed = relay, !.settle = WeldSettle - 1, !.weld = 0]
      BY <1>3, <2>2, <2>3 DEF check_relay_weld_bl0939
    <3>2. met'.wasClosed = relay /\ met'.settle = WeldSettle - 1
      BY <1>0, <3>1 DEF Memories
    <3>3. WeldSettle \in Nat BY <1>0 DEF WeldSettle
    <3>4. ~relay => residual <= met'.settle
      BY <1>0, <1>a, <2>1, <2>3, <3>2, <3>3 DEF ResidualCovered
    <3> QED
      BY <1>a, <2>1, <3>1, <3>2, <3>4 DEF NoFault, ResidualCovered, WeldInv, NoSpuriousWeld
  <2>4. CASE ~(WeldSettle > 0)
    <3> DEFINE k == Count(bl.ma >= WELD_FLOW_MA /\ ~relay, met.weld, BL0939_DETECTOR_PERSIST)
    <3>0. WeldSettle = 0 BY <1>0, <2>4 DEF WeldSettle
    <3>1. /\ met' = [met EXCEPT !.wasClosed = relay, !.weld = k]
          /\ IF k >= BL0939_DETECTOR_PERSIST /\ ~fault_is_active(fs, FAULT_RELAY_WELD)
             THEN RaiseLatched(FAULT_RELAY_WELD) ELSE NoFault
      BY <1>3, <2>2, <3>0 DEF check_relay_weld_bl0939
    <3>2. ~relay => residual = 0 /\ bl.ma < WELD_FLOW_MA
      BY <1>0, <1>a, <2>1, <3>0 DEF ResidualCovered
    <3>3. k = 0
      BY <1>0, <3>2 DEF Count, WELD_FLOW_MA
    <3>4. NoFault
      BY <1>0, <3>1, <3>3
    <3>5. met'.wasClosed = relay /\ met'.settle = met.settle
      BY <1>0, <3>1 DEF Memories
    <3> QED
      BY <1>0, <1>a, <2>1, <3>2, <3>4, <3>5 DEF NoFault, ResidualCovered, WeldInv, NoSpuriousWeld
  <2> QED BY <2>3, <2>4
<1>4. CASE \/ check_relay_stuck_open_bl0939 \/ check_hard_over_current \/ check_soft_over_current
  <2>1. /\ pc \in {"stuck", "hoc", "soc"} /\ pc' \in {"hoc", "soc", "rfid"}
        /\ UNCHANGED <<residual, config>>
    BY <1>4 DEF check_relay_stuck_open_bl0939, check_hard_over_current, check_soft_over_current,
       MeterFrame, Advance, worldVars
  <2>2. met'.settle = met.settle /\ met'.wasClosed = met.wasClosed
    BY <1>0, <1>4 DEF check_relay_stuck_open_bl0939, check_hard_over_current,
       check_soft_over_current, SocWithinLimit, SocCounts, SocRamps, SocAtFloor, Detect, Memories
  <2>3. FAULT_RELAY_WELD \notin fs'.active
    <3>1. ~check_relay_weld_bl0939 BY <2>1 DEF check_relay_weld_bl0939, Advance
    <3> QED BY <1>a, <3>1, OnlyWeldRaises
  <2> QED BY <1>a, <2>1, <2>2, <2>3 DEF ResidualCovered, WeldInv, NoSpuriousWeld, fault_is_active
<1>5. ASSUME NEW cause \in Resets, Reset(cause) PROVE WeldInv'
  <2>1. /\ pc' = "boot" /\ residual' = 0 /\ met'.settle = 0 /\ config' = config
        /\ fs' = fault_init
    BY <1>5 DEF Reset
  <2> QED
    BY <1>0, <1>a, <2>1 DEF ResidualCovered, WeldInv, NoSpuriousWeld, fault_is_active, fault_init
<1>6. CASE ~(\/ Poll \/ check_ac_absent \/ check_relay_weld_bl0939 \/ check_relay_stuck_open_bl0939
             \/ check_hard_over_current \/ check_soft_over_current
             \/ \E cause \in Resets : Reset(cause))
  <2>1. ResidualCovered' BY <1>a, <1>6, WindowSteps
  <2>2. FAULT_RELAY_WELD \notin fs'.active BY <1>a, <1>6, OnlyWeldRaises
  <2> QED BY <2>1, <2>2 DEF WeldInv, NoSpuriousWeld, fault_is_active
<1> QED BY <1>1, <1>2, <1>3, <1>4, <1>5, <1>6

\* A load that bleeds off within the settle window is never taken for a welded contactor,
\* whatever opened the contactor and wherever between two polls it did (check_relay_weld_bl0939).
THEOREM BleedOffIsNoWeld ==
  ASSUME BleedsOff
  PROVE  Spec => []NoSpuriousWeld
<1>1. Init => WeldInv
  <2> SUFFICES ASSUME Init PROVE WeldInv OBVIOUS
  <2>1. /\ config \in Configs /\ pc = "boot" /\ residual = 0 /\ met.settle = 0 /\ fs = fault_init
    BY DEF Init
  <2> QED
    BY <2>1, SafetyAssumption DEF fault_init, WeldInv, ResidualCovered, NoSpuriousWeld,
       fault_is_active
<1>2. TypeOK /\ WeldInv /\ [Next]_vars => WeldInv'
  <2>1. ASSUME WeldInv, UNCHANGED vars PROVE WeldInv'
    BY <2>1 DEF vars, evseVars, meterVars, worldVars, WeldInv, ResidualCovered, NoSpuriousWeld,
       WeldSettle
  <2> QED BY <2>1, WeldStep
<1>3. WeldInv => NoSpuriousWeld
  BY DEF WeldInv
<1> QED BY <1>1, <1>2, <1>3, TypeCorrect, PTL DEF Spec

-----------------------------------------------------------------------------
(***************************************************************************)
(* A pause holds.                                                          *)
(*                                                                         *)
(* A held pause is USER_PAUSED or the FAULT it was followed by, and every  *)
(* step that leaves these two is one of those PauseHistory calls Released: *)
(* the five the user asks for, the trip to COOLING_DOWN and the end of a   *)
(* replug window.                                                          *)
(***************************************************************************)

PauseInv == held => es \in {"USER_PAUSED", "FAULT"} /\ pc \notin {"boot", "gfcitest", "bootdone"}

\* Taking a request shortens the inbox, so PauseHistory sees it.
LEMMA HandledIsSeen ==
  ASSUME TypeOK, NEW type, Dequeue(type)
  PROVE  Handles(type)
<1>1. inbox \in Seq(Requests) BY DEF TypeOK, InboxTypes
<1>2. /\ pc = "drain" /\ inbox # <<>> /\ Head(inbox).type = type /\ inbox' = Tail(inbox)
  BY DEF Dequeue
<1>3. inbox' # inbox
  <2> SUFFICES ASSUME inbox' = inbox PROVE FALSE OBVIOUS
  <2>1. Len(inbox) \in Nat \ {0} /\ Len(inbox') = Len(inbox) - 1 BY <1>1, <1>2
  <2>2. Len(inbox') = Len(inbox) OBVIOUS
  <2> QED BY <2>1, <2>2
<1> QED BY <1>2, <1>3 DEF Handles

\* Leaving a paused or faulted unit's state takes one of the releases.
LEMMA OnlyReleases ==
  ASSUME TypeOK, PauseInv, held, Next, ~Released
  PROVE  es' \in {"USER_PAUSED", "FAULT"}
<1>0. es \in {"USER_PAUSED", "FAULT"} /\ pc \notin {"boot", "gfcitest", "bootdone"}
  BY DEF PauseInv
<1>a. ASSUME NEW id, RaiseLatched(id) \/ RaiseSelfClearing(id) \/ ClearSelfClearing(id) \/ NoFault
      PROVE  es' = "FAULT" \/ es' = es
  BY <1>a DEF RaiseLatched, evse_transition, Enter, RaiseSelfClearing, ClearSelfClearing, NoFault,
     evseVars
<1>1. ~Boot
  BY <1>0 DEF Boot, BootSample, BootSelfTest, BootGfciTest, BootDone, Advance
<1>2. CASE DrainInbox
  <2>1. CASE ClearFault
    <3>1. Dequeue("CLEAR_FAULT") /\ (es' = es \/ (es = "FAULT" /\ es' = "READY"))
      BY <2>1 DEF ClearFault, evse_transition, Enter
    <3> QED BY <1>0, <3>1, HandledIsSeen DEF Released
  <2>2. CASE UserPause \/ SimulateReplug
    BY <1>0, <2>2 DEF UserPause, SimulateReplug, evse_transition, Enter, evseVars
  <2>3. CASE UserResume
    <3>1. Dequeue("USER_RESUME") /\ (es = "FAULT" => es' = "FAULT")
      BY <2>3 DEF UserResume, evse_transition, Enter
    <3> QED BY <1>0, <3>1, HandledIsSeen DEF Released
  <2>4. CASE RfidLearnArm \/ RunGfciCalTest \/ CalTestDone \/ Publish \/ DrainDone
    BY <1>0, <2>4 DEF RfidLearnArm, RunGfciCalTest, CalTestDone, Publish, DrainDone, evseVars
  <2> QED BY <1>2, <2>1, <2>2, <2>3, <2>4 DEF DrainInbox
<1>3. CASE ServiceReplug \/ \E mv \in cp_high_mv : Classify(mv)
  <2>1. ServiceReplug => replug # 1
    BY DEF ServiceReplug, Advance, Released
  <2> QED BY <1>0, <1>3, <2>1 DEF ServiceReplug, Classify, evseVars
<1>4. CASE \/ check_safe_fail \/ (\E pe2 \in Pe2Low : check_gfci(pe2))
           \/ (\E rail \in AdcRail : check_adc_runtime(rail)) \/ check_cp_e
  <2>1. es' = es \/ NoFault \/ \E id : RaiseLatched(id)
    BY <1>4 DEF check_safe_fail, check_gfci, check_adc_runtime, check_cp_e
  <2> QED BY <1>0, <1>a, <2>1
<1>5. CASE check_over_temp
  <2>1. es' # "COOLING_DOWN" BY DEF Released
  <2> QED
    BY <1>0, <1>5, <2>1 DEF check_over_temp, NoFault, evseVars, evse_transition, Enter
<1>6. CASE update_evse_from_j1772
  <2>1. pc = "evse" BY <1>6 DEF update_evse_from_j1772, Advance
  <2>2. cp.committed # "A" BY <2>1 DEF Released
  <2> QED
    BY <1>0, <1>6, <2>2 DEF update_evse_from_j1772, EvseSticky, EvsePaused, EvseRunning,
       evse_transition, Enter, evseVars
<1>7. CASE check_cp_regression \/ apply_relay_state \/ apply_cp_for_state
  BY <1>0, <1>7 DEF check_cp_regression, apply_relay_state, apply_cp_for_state
<1>8. CASE \/ Poll \/ check_ac_absent \/ check_relay_weld_bl0939 \/ check_relay_stuck_open_bl0939
           \/ check_hard_over_current \/ check_soft_over_current
  <2>1. es' = es \/ \E id : RaiseLatched(id)
    BY <1>8 DEF Poll, check_ac_absent, check_relay_weld_bl0939, check_relay_stuck_open_bl0939,
       check_hard_over_current, check_soft_over_current, SocWithinLimit, SocCounts, SocRamps,
       SocAtFloor, Detect, RaiseSelfClearing, ClearSelfClearing, NoFault, evseVars
  <2> QED BY <1>0, <1>a, <2>1
<1>9. CASE (\E card \in Swipes : RfidSwipe(card)) \/ PublishSnapshot \/ Wake \/ Environment
  <2>1. (\E cause \in Resets : Reset(cause)) \/ es' = es
    BY <1>9 DEF RfidSwipe, PublishSnapshot, Wake, Environment, CommsPost, ButtonPress, ConfigWrite,
       AdcScan, AliveMarker, InboxFrame, WorldFrame, evseVars
  <2>2. ~(\E cause \in Resets : Reset(cause))
    BY DEF Reset, Released
  <2> QED BY <1>0, <2>1, <2>2
<1> QED
  BY <1>1, <1>2, <1>3, <1>4, <1>5, <1>6, <1>7, <1>8, <1>9 DEF Next, SafetyLoop, Tick

\* The boot path is entered by a reset only, and never with a held pause.
LEMMA IntoBoot ==
  ASSUME Next, pc' \in {"boot", "gfcitest", "bootdone"}
  PROVE  pc' = "boot" \/ pc \in {"boot", "gfcitest", "bootdone"}
<1>1. CASE Boot
  BY <1>1 DEF Boot, BootSample, BootSelfTest, BootGfciTest, BootDone, Advance
<1>2. CASE DrainInbox
  BY <1>2 DEF DrainInbox, ClearFault, UserPause, UserResume, RfidLearnArm, SimulateReplug,
     RunGfciCalTest, CalTestDone, Publish, DrainDone, Dequeue, Advance
<1>3. CASE Tick
  BY <1>3 DEF Tick, ServiceReplug, Classify, check_safe_fail, check_gfci, check_adc_runtime,
     check_cp_e, check_over_temp, update_evse_from_j1772, check_cp_regression, apply_relay_state,
     apply_cp_for_state, Poll, check_ac_absent, check_relay_weld_bl0939,
     check_relay_stuck_open_bl0939, check_hard_over_current, check_soft_over_current, RfidSwipe,
     PublishSnapshot, Wake, Advance
<1>4. CASE Environment
  <2>1. pc' = pc \/ pc' = "boot"
    BY <1>4 DEF Environment, CommsPost, ButtonPress, ConfigWrite, AdcScan, AliveMarker, Reset,
       InboxFrame, WorldFrame
  <2> QED BY <2>1
<1> QED BY <1>1, <1>2, <1>3, <1>4 DEF Next, SafetyLoop

\* A charge that the user stopped does not start again until the user resumes, unplugs,
\* asks for a replug, clears a fault or restarts the unit, whatever faults, cards, settings
\* and stage orders come in between - unless the unit has to cool down or the stop fell
\* into a replug window, which end in READY (process_request, check_over_temp,
\* update_evse_from_j1772).
THEOREM PausesHold == HeldSpec => []PauseHolds
<1>1. HeldInit => PauseInv
  BY DEF HeldInit, PauseInv
<1>2. TypeOK /\ PauseInv /\ [HeldNext]_heldVars => PauseInv'
  <2>1. ASSUME PauseInv, UNCHANGED heldVars PROVE PauseInv'
    BY <2>1 DEF heldVars, vars, evseVars, PauseInv
  <2>2. ASSUME TypeOK, PauseInv, HeldNext PROVE PauseInv'
    <3>1. Next /\ held' = (Stopped \/ (held /\ ~Released))
      BY <2>2 DEF HeldNext
    <3>2. held' => Stopped \/ (held /\ ~Released)
      BY <3>1, Zenon
    <3>3. ASSUME held' PROVE es' \in {"USER_PAUSED", "FAULT"}
      <4>1. CASE Stopped BY <4>1 DEF Stopped
      <4>2. CASE held /\ ~Released BY <2>2, <3>1, <4>2, OnlyReleases
      <4> QED BY <3>2, <3>3, <4>1, <4>2
    <3>4. ASSUME held' PROVE pc' \notin {"boot", "gfcitest", "bootdone"}
      <4>1. CASE Stopped
        <5>1. pc = "drain" /\ es' = "USER_PAUSED" BY <4>1 DEF Stopped, Handles
        <5>2. pc' # "boot"
          <6>1. ~Boot BY <5>1 DEF Boot, BootSample, BootSelfTest, BootGfciTest, BootDone, Advance
          <6>2. ~(\E cause \in Resets : Reset(cause)) BY <5>1 DEF Reset
          <6> QED
            BY <3>1, <5>1, <6>1, <6>2 DEF Next, SafetyLoop, DrainInbox, ClearFault, UserPause,
               UserResume, RfidLearnArm, SimulateReplug, RunGfciCalTest, CalTestDone, Publish,
               DrainDone, Dequeue, Advance, Tick, ServiceReplug, Classify, check_safe_fail,
               check_gfci, check_adc_runtime, check_cp_e, check_over_temp,
               update_evse_from_j1772, check_cp_regression, apply_relay_state,
               apply_cp_for_state, Poll, check_ac_absent, check_relay_weld_bl0939,
               check_relay_stuck_open_bl0939, check_hard_over_current, check_soft_over_current,
               RfidSwipe, PublishSnapshot, Wake, Environment, CommsPost, ButtonPress, ConfigWrite,
               AdcScan, AliveMarker, InboxFrame, WorldFrame
        <5> QED BY <3>1, <5>1, <5>2, IntoBoot
      <4>2. CASE held /\ ~Released
        BY <2>2, <3>1, <4>2, IntoBoot DEF PauseInv, Released
      <4> QED BY <3>2, <3>4, <4>1, <4>2
    <3> QED BY <3>3, <3>4 DEF PauseInv
  <2> QED BY <2>1, <2>2
<1>3. PauseInv => PauseHolds
  BY DEF PauseInv, PauseHolds
<1>4. HeldInit => Init
  BY DEF HeldInit
<1>5. [HeldNext]_heldVars => [Next]_vars
  BY DEF HeldNext, heldVars
<1> QED BY <1>1, <1>2, <1>3, <1>4, <1>5, TypeCorrect, PTL DEF HeldSpec, Spec
=============================================================================
