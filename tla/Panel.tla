------------------------------- MODULE Panel -------------------------------
(***************************************************************************)
(* The io task and its user interface (tasks/io_task.c, ui/buttons.c,      *)
(* ui/buzzer.c, ui/led_patterns.c), with the flash helper that shares one  *)
(* button with it (tasks/fc41d_flash_helper.c).  The io task may be        *)
(* preempted by the safety task, which publishes the snapshot it copies    *)
(* word by word, and itself preempts the comms task, which sets the buzzer *)
(* and the override colour with several assignments.                       *)
(***************************************************************************)
EXTENDS Integers, FiniteSets

CONSTANTS
  IO_TICK_MS,        \* 20
  DEBOUNCE_N,        \* 3, for the ladder, PC9 and the flash helper
  ALIVE_POLLS,       \* ALIVE_MARKER_MS / IO_TICK_MS, 3000
  Raws,              \* readings of the button ladder
  Pc9,               \* levels of PC9: TRUE is pressed
  Snapshots,         \* what the safety task may publish
  Beeps,             \* lengths of CMD_BUZZER_BEEP
  Overrides,         \* modes of CMD_SET_LED_OVERRIDE
  FlashModes         \* may DIP4 be held at boot

VARIABLES
  published,   \* s_state
  copy,        \* the first words of the snapshot while it is being copied
  ladder,      \* s_candidate, s_count, s_committed of the ladder
  pc9,         \* the same for PC9
  event,       \* what buttons_consume_event returned in the last poll
  request,     \* what the last poll posted to the safety task
  armed,       \* boot_buzz_armed
  prev,        \* prev_charging, prev_fault
  buzzer,      \* s_pattern, s_oneshot_ms and the time since s_pattern_start_ms
  beep,        \* the comms task inside buzzer_set_oneshot
  override,    \* s_override_mode
  lamp,        \* what the strip shows, and whether the last poll rendered it
  polls,       \* ms / IO_TICK_MS, up to the alive marker
  alive,       \* alive_posted
  helper,      \* the flash helper's streaks, prev_committed, and the CEN pin
  recent,      \* history: the buttons of the last DEBOUNCE_N readings of the ladder
  let_go,      \* history: since it last read top that often in a row, it did another button
  disturbed    \* history: since the last quiet poll a copy was torn or a beep came

panelVars == <<published, copy, ladder, pc9, event, request, armed, prev, buzzer, beep,
               override, lamp, polls, alive, helper, recent, let_go, disturbed>>
buttonVars == <<ladder, pc9, event, recent, let_go>>

\* A snapshot, reduced to what the panel uses: latched stands for the latched fault bits.
Snapshot(e, j, f, adv, amps) ==
  [evse |-> e, j1772 |-> j, latched |-> f, adv |-> adv, amps_x10 |-> amps]
Boot == Snapshot("BOOT", "A", {}, 0, 0)
\* FaultLatchCoherent of SafetyTask: FAULT is published with a latched fault and only then.
\* No poll may skip a whole cycle of an alarm.
ASSUME PanelAssumption ==
  /\ IO_TICK_MS \in 1..2000 /\ DEBOUNCE_N \in Nat \ {0} /\ ALIVE_POLLS \in Nat
  /\ Beeps \subseteq Nat /\ Raws \subseteq Nat /\ Pc9 \subseteq BOOLEAN
  /\ \A s \in Snapshots :
       /\ s = Snapshot(s.evse, s.j1772, s.latched, s.adv, s.amps_x10)
       /\ s.evse \in {"BOOT", "SELF_TEST", "READY", "CHARGING", "USER_PAUSED", "COOLING_DOWN", "FAULT"}
       /\ s.evse = "FAULT" <=> s.latched # {}

Buzzer(pattern, age, oneshot, on) ==
  [pattern |-> pattern, age |-> age, oneshot |-> oneshot, on |-> on]
NotCopying == [busy |-> FALSE, s |-> Boot, torn |-> FALSE]
UNSET == -1          \* s_pattern_start_ms = 0
LONG  == 10000       \* longer than any pattern that ends

PanelInit ==
  /\ published = Boot /\ copy = NotCopying
  /\ ladder = [candidate |-> "none", count |-> 0, committed |-> "none"]
  /\ pc9 = [candidate |-> FALSE, count |-> 0, committed |-> FALSE]
  /\ event = "none" /\ request = "none" /\ armed = TRUE
  /\ prev = [charging |-> FALSE, fault |-> {}]
  /\ buzzer = Buzzer("OFF", UNSET, 0, FALSE)
  /\ beep = 0 /\ override = 0 /\ lamp = [scheme |-> "dark", ratio |-> 0, fresh |-> FALSE]
  /\ polls = 0 /\ alive = FALSE
  /\ \E f \in FlashModes : helper = [on |-> f, low |-> 0, high |-> 0, committed |-> FALSE, cen |-> 1]
  /\ recent = [i \in 1..DEBOUNCE_N |-> "none"] /\ let_go = TRUE /\ disturbed = FALSE

Upto(n, bound) == IF n < bound THEN n + 1 ELSE bound

-----------------------------------------------------------------------------
(* Buttons. *)

\* The bands of the ladder, with gaps between them.
Band(raw) ==
  CASE raw <= 400              -> "bot"
    [] raw \in 800..1700       -> "mid"
    [] raw \in 1900..2800      -> "top"
    [] raw >= 3500             -> "none"
    [] OTHER                   -> "gap"

\* classify_ladder: between two bands the last candidate stays.
classify_ladder(raw) == IF Band(raw) = "gap" THEN ladder.candidate ELSE Band(raw)

\* Mutant: a read that differs does not start the count again.
Debounced_KeepCount(d, read) ==
  LET n == Upto(d.count, DEBOUNCE_N)
  IN  [candidate |-> read, count |-> n,
       committed |-> IF n >= DEBOUNCE_N THEN read ELSE d.committed]

\* N equal reads in a row commit.
Debounced(d, read) ==
  LET n == IF read = d.candidate THEN Upto(d.count, DEBOUNCE_N) ELSE 1
  IN  [candidate |-> read, count |-> n,
       committed |-> IF n >= DEBOUNCE_N THEN read ELSE d.committed]

\* What the history says of the window of the last readings: it ends in this one, and a
\* reading in a gap is one more of the button before it.
Reading(raw) ==
  recent' = [i \in 1..DEBOUNCE_N |->
               IF i < DEBOUNCE_N THEN recent[i + 1]
               ELSE IF Band(raw) = "gap" THEN recent[i] ELSE Band(raw)]
AllOf(window, button) == \A i \in 1..DEBOUNCE_N : window[i] = button

\* buttons_poll and buttons_consume_event: the latch holds one event, and PC9 comes last.
buttons_poll(raw, pressed) ==
  /\ ladder' = Debounced(ladder, classify_ladder(raw))
  /\ pc9' = Debounced(pc9, pressed)
  /\ event' = IF pc9'.committed /\ ~pc9.committed THEN "pc9"
              ELSE IF ladder'.committed # ladder.committed THEN ladder'.committed
              ELSE "none"
  /\ Reading(raw)
  /\ let_go' = IF AllOf(recent', "top") THEN FALSE
               ELSE let_go \/ \E other \in {"bot", "mid", "none"} : AllOf(recent', other)

\* The top button stops what runs and lets go what is stopped.
Toggle(e, evse) ==
  IF e # "top" THEN "none"
  ELSE IF evse \in {"READY", "CHARGING"} THEN "pause"
  ELSE IF evse = "USER_PAUSED" THEN "resume"
  ELSE "none"

-----------------------------------------------------------------------------
(* Buzzer. *)

Alarms == {"FAULT_NON_GFCI", "FAULT_GFCI"}

\* buzzer_set_pattern: the running pattern is not started again.
buzzer_set_pattern(b, p) ==
  IF p = b.pattern THEN b ELSE Buzzer(p, UNSET, b.oneshot, b.on)

\* Where the one-shot patterns end.
Length(b) ==
  CASE b.pattern = "BOOT_PASS"     -> 200
    [] b.pattern = "SESSION_START" -> 300
    [] b.pattern = "SESSION_END"   -> 400
    [] b.pattern = "ONESHOT"       -> b.oneshot
    [] OTHER                       -> LONG

\* What the pattern does dt after its start.
Sounding(b, dt) ==
  CASE b.pattern = "BOOT_PASS"      -> dt < 100
    [] b.pattern = "BOOT_FAIL"      -> dt % 2000 < 500 /\ (dt \div 100) % 2 = 0
    [] b.pattern = "SESSION_START"  -> dt < 200
    [] b.pattern = "SESSION_END"    -> dt < 300 /\ (dt \div 100) % 2 = 0
    [] b.pattern = "FAULT_NON_GFCI" -> (dt \div 1000) % 2 = 0
    [] b.pattern = "FAULT_GFCI"     -> dt < 5000 \/ ((dt - 5000) \div 1000) % 2 = 0
    [] b.pattern = "ONESHOT"        -> dt < b.oneshot
    [] OTHER                        -> FALSE

\* The endless patterns repeat, so that their ages stay small.
Age(b, dt) ==
  CASE b.pattern \in {"FAULT_NON_GFCI", "BOOT_FAIL"} -> dt % 2000
    [] b.pattern = "FAULT_GFCI" -> IF dt < 7000 THEN dt ELSE dt - 2000
    [] OTHER -> IF dt > LONG THEN LONG ELSE dt

\* buzzer_tick.
buzzer_tick(b) ==
  IF b.pattern = "OFF"
  THEN Buzzer("OFF", IF b.age = UNSET THEN UNSET ELSE LONG, b.oneshot, FALSE)
  ELSE LET dt == IF b.age = UNSET THEN 0 ELSE b.age + IO_TICK_MS
       IN  Buzzer(IF dt >= Length(b) THEN "OFF" ELSE b.pattern, Age(b, dt), b.oneshot,
                  Sounding(b, dt))

\* The patterns io_task sets in one poll; the last one wins.
BootBuzz(b, s) ==
  IF armed /\ s.evse \notin {"BOOT", "SELF_TEST"}
  THEN buzzer_set_pattern(b, IF s.evse = "FAULT" THEN "BOOT_FAIL" ELSE "BOOT_PASS") ELSE b
SessionBuzz(b, s) ==
  IF s.evse = "CHARGING" /\ ~prev.charging THEN buzzer_set_pattern(b, "SESSION_START")
  ELSE IF s.evse # "CHARGING" /\ prev.charging THEN buzzer_set_pattern(b, "SESSION_END")
  ELSE b
FaultBuzz(b, s) ==
  IF s.latched # {} /\ prev.fault = {}
  THEN buzzer_set_pattern(b, IF "GFCI" \in s.latched THEN "FAULT_GFCI" ELSE "FAULT_NON_GFCI")
  ELSE IF s.latched = {} /\ prev.fault # {} THEN buzzer_set_pattern(b, "OFF")
  ELSE b

\* Mutant: the session beeps are set after the alarm.
Buzz_SessionLast(b, s) == SessionBuzz(FaultBuzz(BootBuzz(b, s), s), s)

Buzz(b, s) == FaultBuzz(SessionBuzz(BootBuzz(b, s), s), s)

-----------------------------------------------------------------------------
(* Lamp. *)

\* How fast the comet runs: full speed without a reading, never beyond it.
CometRatio(s) ==
  IF s.adv = 0 \/ s.amps_x10 = 0 THEN 100
  ELSE LET active == s.amps_x10 \div 10
       IN  ((IF active > s.adv THEN s.adv ELSE active) * 100) \div s.adv

\* led_render: the override hides everything, latched faults hide the EVSE state.
led_render(mode, s) ==
  LET show(x) == [scheme |-> x, ratio |-> 0, fresh |-> TRUE] IN
  CASE mode = 1                 -> show("override")
    [] mode # 1 /\ "GFCI" \in s.latched -> show("red 5 Hz")
    [] mode # 1 /\ "GFCI" \notin s.latched /\ s.latched # {} -> show("red 2 Hz")
    [] OTHER ->
       CASE s.evse \in {"BOOT", "SELF_TEST"} -> show("sweep")
         [] s.evse = "READY"        -> show(IF s.j1772 = "B" THEN "blue" ELSE "green")
         [] s.evse = "CHARGING"     -> [scheme |-> "comet", ratio |-> CometRatio(s), fresh |-> TRUE]
         [] s.evse = "USER_PAUSED"  -> show("yellow")
         [] s.evse = "COOLING_DOWN" -> show("orange")
         [] s.evse = "FAULT"        -> show("red")

-----------------------------------------------------------------------------
\* The safety task publishes, between or inside two polls.
PublishState(s) ==
  /\ published' = s /\ published # s
  /\ copy' = [copy EXCEPT !.torn = copy.busy]
  /\ UNCHANGED <<ladder, pc9, event, request, armed, prev, buzzer, beep, override, lamp, polls,
                 alive, helper, recent, let_go, disturbed>>

\* io_task polls the buttons and starts to copy the snapshot: evse_state, j1772_state and
\* advertised_amps are in its first word.
PollBegin(raw, pressed) ==
  /\ ~copy.busy /\ copy' = [busy |-> TRUE, s |-> published, torn |-> FALSE]
  /\ buttons_poll(raw, pressed)
  /\ UNCHANGED <<published, request, armed, prev, buzzer, beep, override, lamp, polls, alive,
                 helper, disturbed>>

\* It has the later words, fault_active_bits among them, and does the rest of its loop.
\* A busy strip skips a frame.
PollEnd(busy) ==
  LET s == [copy.s EXCEPT !.latched = published.latched, !.amps_x10 = published.amps_x10] IN
  /\ copy.busy /\ copy' = NotCopying
  /\ request' = Toggle(event, s.evse)
  /\ armed' = (armed /\ s.evse \in {"BOOT", "SELF_TEST"})
  /\ prev' = [charging |-> s.evse = "CHARGING", fault |-> s.latched]
  /\ buzzer' = buzzer_tick(Buzz(buzzer, s))
  /\ lamp' = IF busy THEN [lamp EXCEPT !.fresh = FALSE] ELSE led_render(override, s)
  /\ alive' = (alive \/ polls >= ALIVE_POLLS) /\ polls' = Upto(polls, ALIVE_POLLS)
  /\ disturbed' = IF s.latched = {} /\ ~copy.torn THEN beep # 0
                  ELSE disturbed \/ copy.torn
  /\ UNCHANGED <<published, buttonVars, beep, override, helper>>

\* The comms task, which runs only between polls: buzzer_set_oneshot, whose last
\* assignment may come a poll late, and led_override_set.
Beep(ms) ==
  /\ ~copy.busy /\ beep = 0 /\ ~helper.on
  /\ \/ /\ ms = 0 /\ buzzer' = buzzer_set_pattern(buzzer, "OFF") /\ UNCHANGED beep
     \/ /\ ms > 0 /\ beep' = 1
        /\ \E age \in {buzzer.age, LONG} :
             buzzer' = Buzzer("ONESHOT", IF buzzer.age = UNSET THEN UNSET ELSE age,
                              IF ms > 500 THEN 500 ELSE ms, buzzer.on)
  /\ disturbed' = TRUE
  /\ UNCHANGED <<published, copy, buttonVars, request, armed, prev, override, lamp, polls,
                 alive, helper>>
BeepStart ==
  /\ ~copy.busy /\ beep = 1 /\ beep' = 0
  /\ buzzer' = Buzzer(buzzer.pattern, UNSET, buzzer.oneshot, buzzer.on)
  /\ UNCHANGED <<published, copy, buttonVars, request, armed, prev, override, lamp, polls,
                 alive, helper, disturbed>>
Override(mode) ==
  /\ ~copy.busy /\ ~helper.on /\ override' = mode
  /\ UNCHANGED <<published, copy, buttonVars, request, armed, prev, buzzer, beep, lamp, polls,
                 alive, helper, recent, let_go, disturbed>>

\* The flash helper, which replaces the comms task when DIP4 is held at boot: it polls,
\* and holds CEN low for 50 ms once per press.
HelperPoll(pressed) ==
  LET low  == IF pressed THEN Upto(helper.low, DEBOUNCE_N) ELSE 0
      high == IF pressed THEN 0 ELSE Upto(helper.high, DEBOUNCE_N)
      pulse == ~helper.committed /\ low >= DEBOUNCE_N
  IN  /\ helper.on /\ helper.cen = 1
      /\ helper' = [helper EXCEPT !.low = low, !.high = high, !.cen = IF pulse THEN 0 ELSE 1,
           !.committed = pulse \/ (@ /\ high < DEBOUNCE_N)]
      /\ UNCHANGED <<published, copy, buttonVars, request, armed, prev, buzzer, beep, override,
                     lamp, polls, alive, disturbed>>
HelperPulseEnd ==
  /\ helper.cen = 0 /\ helper' = [helper EXCEPT !.cen = 1]
  /\ UNCHANGED <<published, copy, buttonVars, request, armed, prev, buzzer, beep, override,
                 lamp, polls, alive, disturbed>>

PanelNext ==
  \/ \E s \in Snapshots : PublishState(s)
  \/ \E raw \in Raws, pressed \in Pc9 : PollBegin(raw, pressed)
  \/ \E busy \in BOOLEAN : PollEnd(busy)
  \/ \E ms \in Beeps : Beep(ms)
  \/ BeepStart
  \/ \E mode \in Overrides : Override(mode)
  \/ \E pressed \in Pc9 : HelperPoll(pressed)
  \/ HelperPulseEnd

PanelSpec == PanelInit /\ [][PanelNext]_panelVars

-----------------------------------------------------------------------------
\* The buzzer is started and stopped by edges of the latched fault bits, the lamp looks at
\* the bits themselves: since the last poll without faults no copy torn and no beep, both
\* warn exactly while a latched fault is shown, unless the strip is overridden.
AlarmHolds ==
  ~disturbed =>
    /\ buzzer.pattern \in Alarms <=> prev.fault # {}
    /\ lamp.fresh /\ lamp.scheme # "override" =>
         (lamp.scheme \in {"red 2 Hz", "red 5 Hz"} <=> prev.fault # {})

\* A poll reports the top button exactly when the last DEBOUNCE_N readings were all of it
\* and, since that was last so, as many in a row were of another button or of none: noise
\* in between neither releases a held button, nor presses it again, nor shortens the count.
\* Only a press of PC9 in the same poll hides it.
PressesCount ==
  [][copy'.busy /\ ~copy.busy =>
       \/ event' = "pc9"
       \/ event' = "top" <=> AllOf(recent', "top") /\ let_go]_panelVars
=============================================================================
