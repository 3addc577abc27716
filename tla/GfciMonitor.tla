---------------------------- MODULE GfciMonitor ----------------------------
(***************************************************************************)
(* The ground fault monitor around the GFCI chip (hal/gd32f205/gfci.c):    *)
(* the self-test, which the safety task runs at boot and again on request, *)
(* the refresh task that keeps the chip armed, and the window in which the *)
(* chip's handshake is not a fault.  The two tasks share the CAL pin and   *)
(* the window flag without a lock.  Times are in units of a clock.         *)
(***************************************************************************)
EXTENDS Integers

CONSTANTS
  FLOAT, HIGH, IDLE, PULSE, TAIL, RELEASE, \* GFCI_BOOT_FLOAT_MS + GFCI_BOOT_LOW_MS, GFCI_BOOT_HIGH_MS, ...
  CYCLES,           \* refresh cycles the self-test tries, 4
  Delays, Widths,   \* from the CAL edge to the handshake, and its length
  CalTests          \* may the safety task be asked for the test at run time

VARIABLES
  test,      \* gfci_self_test: where it is, time left, cycle, handshake seen
  refresh,   \* gfci_refresh_task: where it is and time left
  pe3,       \* CAL drive: 0, 1 or floating (2)
  window,    \* s_handshake_window
  chip,      \* time to the next handshake and length of the one to come, or running
  fault,     \* there is a ground fault
  tripped,   \* check_gfci has seen PE2 low outside the window
  booted,    \* the safety task is in its loop
  mixed      \* history: both have been at work since the last pulse of the refresh task alone

gfciVars == <<test, refresh, pe3, window, chip, fault, tripped, booted, mixed>>

Off   == [at |-> "off", t |-> 0, cyc |-> 0, saw |-> FALSE]
Quiet == [delay |-> 0, width |-> 0]
None3 == [at |-> "none", t |-> 0]

\* On the bench the handshake ends with the tail at the latest, and is shorter than the
\* time the self-test waits for its end.
ASSUME GfciAssumption ==
  /\ \A n \in {FLOAT, HIGH, IDLE, PULSE, TAIL, RELEASE, CYCLES} : n \in Nat \ {0}
  /\ \A d \in Delays, w \in Widths : d \in Nat \ {0} /\ w \in Nat \ {0} /\ d + w <= PULSE + TAIL
  /\ \A w \in Widths : w <= RELEASE

GfciInit ==
  /\ test = Off /\ refresh = None3 /\ pe3 = 2 /\ window = FALSE /\ chip = Quiet
  /\ fault = FALSE /\ tripped = FALSE /\ booted = FALSE /\ mixed = FALSE

Handshake == chip.delay = 0 /\ chip.width > 0
\* gfci_fault_active: PE2 is low.
gfci_fault_active == Handshake \/ fault

\* pe3_drive and pe3_release_to_floating: the chip answers, or does not, when CAL goes
\* low, which is when PE3 goes high.
pe3_drive(level) ==
  /\ pe3' = level
  /\ chip' \in {chip} \cup
       (IF level = 1 /\ pe3 # 1 THEN [delay : Delays, width : Widths] ELSE {})

-----------------------------------------------------------------------------
\* gfci_self_test is entered: at boot, or from the inbox (RUN_GFCI_CAL_TEST).
TestBegin ==
  /\ test.at = "off" /\ (booted => CalTests)
  /\ IF gfci_fault_active
     THEN /\ booted' = TRUE /\ UNCHANGED <<test, pe3, chip, mixed>>
     ELSE /\ test' = [at |-> "float", t |-> FLOAT, cyc |-> 0, saw |-> FALSE]
          /\ pe3_drive(2) /\ mixed' = (mixed \/ refresh.at # "none")
          /\ UNCHANGED booted
  /\ UNCHANGED <<refresh, window, fault, tripped>>

Goto(at, t) == test' = [test EXCEPT !.at = at, !.t = t]

\* The next cycle of phase 4, or its end.
NextCycle ==
  IF test.saw THEN Goto("release", RELEASE) /\ UNCHANGED <<pe3, chip, booted, refresh>>
  ELSE IF test.cyc = CYCLES
  THEN test' = Off /\ booted' = TRUE /\ UNCHANGED <<pe3, chip, refresh>>
  ELSE /\ test' = [test EXCEPT !.at = "idle", !.t = IDLE, !.cyc = @ + 1]
       /\ pe3_drive(0) /\ UNCHANGED <<booted, refresh>>

\* The test has passed.  At boot the refresh task is created.
Passed ==
  /\ test' = Off /\ booted' = TRUE /\ pe3_drive(0)
  /\ refresh' = IF booted THEN refresh ELSE [at |-> "idle", t |-> IDLE]

\* A phase of the test is over.
TestStep ==
  /\ test.at # "off" /\ test.t = 0
  /\ CASE test.at = "float" -> Goto("high", HIGH) /\ pe3_drive(1) /\ UNCHANGED <<window, booted, refresh>>
       [] test.at = "high"  -> NextCycle /\ UNCHANGED window
       [] test.at = "idle"  ->
            IF test.saw THEN NextCycle /\ UNCHANGED window
            ELSE Goto("pulse", PULSE) /\ pe3_drive(1) /\ window' = TRUE /\ UNCHANGED <<booted, refresh>>
       [] test.at = "pulse" -> Goto("tail", TAIL) /\ pe3_drive(0) /\ UNCHANGED <<window, booted, refresh>>
       [] test.at = "tail"  -> NextCycle /\ window' = FALSE
       [] test.at = "release" -> Passed /\ UNCHANGED window
  /\ UNCHANGED <<fault, tripped, mixed>>

\* Mutant: the window closes with the pulse.
RefreshStep_NoTail ==
  /\ refresh.at # "none" /\ refresh.t = 0
  /\ CASE refresh.at = "idle"  -> refresh' = [at |-> "pulse", t |-> PULSE] /\ pe3_drive(1)
       [] refresh.at = "pulse" -> refresh' = [at |-> "tail", t |-> TAIL] /\ pe3_drive(0)
       [] refresh.at = "tail"  -> refresh' = [at |-> "idle", t |-> IDLE] /\ pe3_drive(0)
  /\ window' = (refresh.at = "idle")
  /\ mixed' = (mixed /\ ~(refresh.at = "idle" /\ test.at = "off" /\ chip.width = 0))
  /\ UNCHANGED <<test, fault, tripped, booted>>

\* Mutant: the window stays open.
RefreshStep_StaysOpen ==
  /\ refresh.at # "none" /\ refresh.t = 0
  /\ CASE refresh.at = "idle"  -> refresh' = [at |-> "pulse", t |-> PULSE] /\ pe3_drive(1)
       [] refresh.at = "pulse" -> refresh' = [at |-> "tail", t |-> TAIL] /\ pe3_drive(0)
       [] refresh.at = "tail"  -> refresh' = [at |-> "idle", t |-> IDLE] /\ pe3_drive(0)
  /\ window' = TRUE
  /\ mixed' = (mixed /\ ~(refresh.at = "idle" /\ test.at = "off" /\ chip.width = 0))
  /\ UNCHANGED <<test, fault, tripped, booted>>

\* gfci_refresh_task goes on to its next segment.
RefreshStep ==
  /\ refresh.at # "none" /\ refresh.t = 0
  /\ CASE refresh.at = "idle"  -> refresh' = [at |-> "pulse", t |-> PULSE] /\ pe3_drive(1)
       [] refresh.at = "pulse" -> refresh' = [at |-> "tail", t |-> TAIL] /\ pe3_drive(0)
       [] refresh.at = "tail"  -> refresh' = [at |-> "idle", t |-> IDLE] /\ pe3_drive(0)
  /\ window' = (refresh.at # "tail")
  /\ mixed' = (mixed /\ ~(refresh.at = "idle" /\ test.at = "off" /\ chip.width = 0))
  /\ UNCHANGED <<test, fault, tripped, booted>>

\* PE2 is read by check_gfci in every tick of the safety task, but not inside a test.
Looking == booted /\ test.at = "off"

\* Time passes while nobody is due.  The polls of the test find a handshake, or a ground
\* fault, in its idle and pulse phases; in the idle phase they end it at once.
ClockTick ==
  /\ booted \/ test.at # "off"
  /\ test.at # "off" => test.t > 0
  /\ refresh.at # "none" => refresh.t > 0
  /\ LET polled == test.at \in {"idle", "pulse"} /\ gfci_fault_active
         over   == \/ test.at = "idle" /\ polled
                   \/ test.at = "release" /\ ~gfci_fault_active
     IN  test' = IF test.at = "off" THEN test
                 ELSE [test EXCEPT !.t = IF over THEN 0 ELSE @ - 1, !.saw = @ \/ polled]
  /\ refresh' = IF refresh.at = "none" THEN refresh ELSE [refresh EXCEPT !.t = @ - 1]
  /\ chip' = IF chip.delay > 0 THEN [chip EXCEPT !.delay = @ - 1]
             ELSE IF chip.width > 0 THEN [chip EXCEPT !.width = @ - 1] ELSE chip
  /\ tripped' = (tripped \/ (Looking /\ gfci_fault_active /\ ~window))
  /\ UNCHANGED <<pe3, window, fault, booted, mixed>>

\* A ground fault; it lasts.
GroundFault ==
  /\ ~fault /\ fault' = TRUE
  /\ UNCHANGED <<test, refresh, pe3, window, chip, tripped, booted, mixed>>

GfciNext == TestBegin \/ TestStep \/ RefreshStep \/ ClockTick \/ GroundFault

\* The timer of the refresh task and the loop of the safety task run forever.
GfciFairness == WF_gfciVars(TestStep) /\ WF_gfciVars(RefreshStep) /\ WF_gfciVars(ClockTick) /\ WF_gfciVars(TestBegin /\ ~booted)

GfciSpec == GfciInit /\ [][GfciNext]_gfciVars /\ GfciFairness

-----------------------------------------------------------------------------
\* The chip's own handshake is not taken for a ground fault, as long as the test and the
\* refresh task are not at work at the same time and the refresh task has had a pulse to
\* itself since.
HandshakeMasked ==
  Looking /\ Handshake /\ ~fault /\ ~mixed => window

\* A ground fault that lasts is seen outside the window, whatever tests run in between.
GroundFaultSeen == fault ~> tripped
=============================================================================
