------------------------------ MODULE Records ------------------------------
(***************************************************************************)
(* The records of the W25Q chip and the RAM copies the tasks use: boot     *)
(* count, boot_config, calibration, list of authorized cards and crash     *)
(* state.  All but the boot count are stored through pingpong_store, whose *)
(* outcomes are the ones AtomicRecord allows: it returns 0 and the new     *)
(* record is there, or it fails and either record may be.                  *)
(*                                                                         *)
(* A setter changes its RAM copy first and stores it then, which takes     *)
(* tens of milliseconds.  The tasks of a higher priority use the copy in   *)
(* between, so a setter is two steps: its change, and StoreEnds.  The      *)
(* stores of the boot are single steps: no task runs yet.                  *)
(***************************************************************************)
EXTENDS Integers, FiniteSets

CONSTANTS
  Uids,                  \* cards; 0 is no card
  AUTHLIST_MAX,          \* RFID_AUTHLIST_MAX, 28
  CRASH_LOOP_THRESHOLD,  \* 5
  COUNT_MAX,             \* where fast_restart_count saturates, 255
  INT16_MAX,             \* 32767
  STAMP_MOD,             \* 2^16, the width of a record's boot_count
  None                   \* no valid slot

VARIABLES
  flash,      \* what a load of each record would return; None if neither slot is valid
  ram,        \* s_cfg, s_cal, s_rec, s_cs
  isr,        \* the pilot calibration the ADC interrupt uses
  safe_fail,  \* s_safe_fail
  storing,    \* the store persist_task waits for, Idle between requests
  intact      \* history: no store of this boot has failed and the chip was found

recordVars == <<flash, ram, isr, safe_fail, storing, intact>>

Names    == {"config", "cal", "list", "crash"}
Outcomes == {"ok", "old", "new"}   \* returns 0; fails with the old, the new record in flash
INT16_MIN == -INT16_MAX - 1
Clamp(n) == IF n > INT16_MAX THEN INT16_MAX ELSE IF n < INT16_MIN THEN INT16_MIN ELSE n

Config(a, e, p) == [amps |-> a, auth |-> e, policy |-> p]
\* cp is the pilot line (anchor and slope as one), ia and freq stand for the BL0939 scales.
Cal(v, c, ia, f) == [version |-> v, cp |-> c, ia |-> ia, freq |-> f]
DEFAULT_CP == 1
ZeroCal    == Cal(0, 0, 0, 0)
CALIBRATION_VERSION == 3

ASSUME RecordsAssumption ==
  /\ 0 \notin Uids /\ AUTHLIST_MAX \in Nat \ {0} /\ INT16_MAX \in Nat /\ STAMP_MOD \in Nat \ {0}
  /\ CRASH_LOOP_THRESHOLD \in Nat \ {0} /\ COUNT_MAX \in Nat /\ COUNT_MAX >= CRASH_LOOP_THRESHOLD
  /\ None \notin Nat \cup Names /\ \A cards \in SUBSET Uids : cards # None

\* Static storage is zero: what the tasks see before, or without, a load.
Zeroed == [config |-> Config(0, 0, 0), cal |-> ZeroCal, list |-> {}, crash |-> 0]

\* A store under way: its record, the card that goes if it fails (0 for none), and
\* whether the interrupt's cache follows it.
Store(n, card, publish) == [rec |-> n, card |-> card, publish |-> publish]
Idle == Store(None, 0, FALSE)

RecordsInit(cals) ==
  /\ \E c \in cals :
       flash = [config |-> None, cal |-> c, list |-> None, crash |-> None, count |-> None]
  /\ ram = Zeroed /\ isr = DEFAULT_CP /\ safe_fail = FALSE /\ storing = Idle /\ intact = TRUE

\* pingpong_store(n) with record v ends in outcome o.
Stored(n, v, o) ==
  /\ flash' = [flash EXCEPT ![n] = IF o = "old" THEN @ ELSE v]
  /\ intact' = (intact /\ o = "ok")

ForgetRam ==
  /\ ram' = Zeroed /\ isr' = DEFAULT_CP /\ safe_fail' = FALSE /\ storing' = Idle /\ intact' = TRUE

-----------------------------------------------------------------------------
(* Boot. *)

\* boot_count_increment, in one sector, erased and then programmed: a failure can
\* leave the old count, none, or the new one, and returns 0xFFFFFFFF.
NextCount == (IF flash.count = None THEN 0 ELSE flash.count) + 1
boot_count_increment(ok) ==
  /\ \E c \in IF ok THEN {NextCount} ELSE {flash.count, None, NextCount} :
       flash' = [flash EXCEPT !.count = c]
  /\ UNCHANGED <<ram, isr, safe_fail, storing, intact>>
\* (uint16_t)bc, in main.
BootStamp(ok) == (IF ok THEN NextCount ELSE STAMP_MOD - 1) % STAMP_MOD

\* boot_config_load, with the blank record and its store.
boot_config_load(o) ==
  /\ IF flash.config = None
     THEN ram' = [ram EXCEPT !.config = Config(0, 0, 0)] /\ Stored("config", ram'.config, o)
     ELSE /\ o = "ok" /\ ram' = [ram EXCEPT !.config = flash.config]
          /\ UNCHANGED <<flash, intact>>
  /\ UNCHANGED <<isr, safe_fail, storing>>

\* v1 -> v2 turns uA into nA and clamps, v2 -> v3 zeroes the frequency constant.
Migrated(c) ==
  LET v2 == IF c.version = 1 THEN [c EXCEPT !.ia = Clamp(@ * 1000), !.version = 2] ELSE c
  IN  IF v2.version = 2 THEN [v2 EXCEPT !.freq = 0, !.version = CALIBRATION_VERSION] ELSE v2

\* Mutant: the defaults do not reach the interrupt's cache, nor do the records of the flash.
publish_to_isr_Never(c) == isr' = isr

publish_to_isr(c) == isr' = c.cp

\* calibration_load: blank, current and migrated records.  Defaults that cannot be
\* stored are not published; a migration that cannot be stored is.
calibration_load(o) ==
  /\ LET c == flash.cal IN
     IF c = None
     THEN /\ ram' = [ram EXCEPT !.cal = Cal(CALIBRATION_VERSION, DEFAULT_CP, 0, 0)]
          /\ Stored("cal", ram'.cal, o)
          /\ IF o = "ok" THEN publish_to_isr(ram'.cal) ELSE UNCHANGED isr
     ELSE /\ ram' = [ram EXCEPT !.cal = Migrated(c)]
          /\ publish_to_isr(ram'.cal)
          /\ IF Migrated(c) # c THEN Stored("cal", Migrated(c), o)
             ELSE o = "ok" /\ UNCHANGED <<flash, intact>>
  /\ UNCHANGED <<safe_fail, storing>>

\* rfid_authlist_load, with the clamp of a count beyond the array.
rfid_authlist_load(o) ==
  /\ IF flash.list = None
     THEN ram' = [ram EXCEPT !.list = {}] /\ Stored("list", {}, o)
     ELSE o = "ok" /\ ram' = [ram EXCEPT !.list = flash.list] /\ UNCHANGED <<flash, intact>>
  /\ UNCHANGED <<isr, safe_fail, storing>>

\* Only a watchdog or low-power reset counts.
WasCrash(cause) == cause \in {"watchdog", "low_power"}

\* The fast_restart_count of this boot.
Restarts(was_crash) ==
  LET n == IF flash.crash = None THEN 0 ELSE flash.crash
  IN  IF ~was_crash THEN 0 ELSE IF n < COUNT_MAX THEN n + 1 ELSE n

\* crash_state_boot_increment: the verdict is in RAM whether or not the store works.
crash_state_boot_increment(cause, o) ==
  LET n == Restarts(WasCrash(cause)) IN
  /\ ram' = [ram EXCEPT !.crash = n] /\ safe_fail' = (n >= CRASH_LOOP_THRESHOLD)
  /\ Stored("crash", n, o)
  /\ UNCHANGED <<isr, storing>>

-----------------------------------------------------------------------------
(* Requests: the change of a setter, and the end of its store. *)

\* The RAM copy of record n becomes v, and its store begins.
Changed(n, v, card, publish) ==
  /\ ram' = [ram EXCEPT ![n] = v] /\ storing' = Store(n, card, publish)
  /\ UNCHANGED <<flash, isr, safe_fail, intact>>

\* Mutant: a card whose store failed stays in the RAM list.
StoreEnds_NoRollback(o) ==
  /\ storing # Idle /\ storing' = Idle
  /\ Stored(storing.rec, ram[storing.rec], o)
  /\ ram' = ram
  /\ IF storing.publish /\ o = "ok" THEN publish_to_isr(ram.cal) ELSE UNCHANGED isr
  /\ safe_fail' = (safe_fail /\ ~(storing.rec = "crash" /\ o = "ok"))

\* pingpong_store returns to the setter.  A failure takes back the card of an add and
\* nothing else; the pilot calibration is published, and the crash verdict withdrawn,
\* only by a store that works.
StoreEnds(o) ==
  /\ storing # Idle /\ storing' = Idle
  /\ Stored(storing.rec, ram[storing.rec], o)
  /\ ram' = IF o = "ok" THEN ram ELSE [ram EXCEPT !.list = @ \ {storing.card}]
  /\ IF storing.publish /\ o = "ok" THEN publish_to_isr(ram.cal) ELSE UNCHANGED isr
  /\ safe_fail' = (safe_fail /\ ~(storing.rec = "crash" /\ o = "ok"))

\* crash_state_reset_alive.
crash_state_reset_alive ==
  IF ram.crash = 0 /\ ~safe_fail THEN UNCHANGED recordVars ELSE Changed("crash", 0, 0, FALSE)

\* The setters of boot_config: nothing to do if nothing changes.
SetConfig(c) == IF c = ram.config THEN UNCHANGED recordVars ELSE Changed("config", c, 0, FALSE)

\* calibration_set_bl0939: the interrupt's cache is not its business.
calibration_set_bl0939(ia, f) ==
  IF ram.cal.ia = ia /\ ram.cal.freq = f THEN UNCHANGED recordVars
  ELSE Changed("cal", Cal(CALIBRATION_VERSION, ram.cal.cp, ia, f), 0, FALSE)

\* calibration_set_cp: a zero denominator (0 here) is refused, an equal line returns at once.
calibration_set_cp(c) ==
  IF c \in {0, ram.cal.cp} THEN UNCHANGED recordVars
  ELSE Changed("cal", Cal(CALIBRATION_VERSION, c, ram.cal.ia, ram.cal.freq), 0, TRUE)

\* What the safety task asks at a swipe, also while the list is being stored.
rfid_authlist_contains(u) == u \in ram.list

rfid_authlist_add(u) ==
  IF u = 0 \/ rfid_authlist_contains(u) \/ Cardinality(ram.list) >= AUTHLIST_MAX
  THEN UNCHANGED recordVars
  ELSE Changed("list", ram.list \cup {u}, u, FALSE)

\* rfid_authlist_remove: no way back if the store fails.
rfid_authlist_remove(u) ==
  IF ~rfid_authlist_contains(u) THEN UNCHANGED recordVars
  ELSE Changed("list", ram.list \ {u}, 0, FALSE)

\* rfid_authlist_clear; the retry of one that failed finds an empty list.
rfid_authlist_clear ==
  IF ram.list = {} THEN UNCHANGED recordVars ELSE Changed("list", {}, 0, FALSE)

-----------------------------------------------------------------------------
\* A card the charger accepts is one it accepts after a restart as well, except for the
\* card whose store is still under way: that one is accepted at once and, if the store
\* fails or a reset cuts it off, no more afterwards.  A card whose store has failed is not
\* accepted, and the stored list is not behind the list in RAM by any other card.
AcceptedIsDurable ==
  ram.list \ {storing.card} \subseteq (IF flash.list = None THEN {} ELSE flash.list)

\* As long as no store has failed since the boot, what the tasks and the interrupt use
\* is what a restart would load, field by field, in every record but the one a setter
\* has changed and is storing.
InForceIsStored(loaded) ==
  intact =>
    /\ \A n \in loaded \ {storing.rec} : ram[n] = flash[n]
    /\ "cal" \in loaded \ {storing.rec} => isr = flash.cal.cp
=============================================================================
