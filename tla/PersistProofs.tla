---------------------------- MODULE PersistProofs ----------------------------
(* What the records and the logs of the persist task keep, for every instance of them. *)
EXTENDS PersistTask, FiniteSetTheorems, TLAPS

-----------------------------------------------------------------------------
(* The records and their RAM copies. *)

\* The five records and the four copies, and what a card list and a count hold.
RecordsOK ==
  /\ flash = [config |-> flash.config, cal |-> flash.cal, list |-> flash.list,
              crash |-> flash.crash, count |-> flash.count]
  /\ ram = [config |-> ram.config, cal |-> ram.cal, list |-> ram.list, crash |-> ram.crash]
  /\ ram.list \in SUBSET Uids /\ flash.list \in {None} \cup SUBSET Uids
  /\ flash.count \in Nat \cup {None}
  /\ intact \in BOOLEAN /\ safe_fail \in BOOLEAN

\* The store under way: only an add takes a card back, only the pilot line is published,
\* and the crash state is only ever stored as cleared.
StoringOK ==
  /\ storing = Store(storing.rec, storing.card, storing.publish)
  /\ storing.rec \in Names \cup {None} /\ storing.card \in Uids \cup {0}
  /\ storing.publish \in BOOLEAN
  /\ storing.rec = None => storing = Idle
  /\ storing.card # 0 => storing.rec = "list"
  /\ storing.publish => storing.rec = "cal"
  /\ storing.rec = "crash" => ram.crash = 0

QueueOK == queue \in Seq(Requests)

\* The crash boots the record stands for: with the flags of a reset still to be read, one
\* more than it says if they tell of a crash.
StoredCrashes == IF flash.crash = None THEN 0 ELSE flash.crash
CrashCount ==
  CASE cause = "watchdog" -> IF StoredCrashes < COUNT_MAX THEN StoredCrashes + 1 ELSE StoredCrashes
    [] cause = "none"     -> StoredCrashes
    [] OTHER              -> 0

\* As long as every change could be stored, the record and the flags count the crashes,
\* and once both have been read the verdict is the count's.
CrashInv ==
  /\ crashes \in 0..COUNT_MAX /\ counted \in BOOLEAN
  /\ cause \in {"none", "power_on", "pin", "watchdog"}
  /\ cause = "none" => pc = "run"
  /\ counted => crashes = CrashCount
  /\ pc = "run" /\ counted =>
       cause = "none" /\ (safe_fail <=> crashes >= CRASH_LOOP_THRESHOLD)

LEMMA IdleStore == (storing = Idle => StoringOK) /\ (storing' = Idle => StoringOK')
<1>1. /\ Idle.rec = None /\ Idle.card = 0 /\ Idle.publish = FALSE
      /\ Idle = Store(Idle.rec, Idle.card, Idle.publish)
  BY DEF Idle, Store
<1>2. None # "crash"
  BY RecordsAssumption DEF Names
<1>3. storing = Idle => StoringOK
  BY <1>1, <1>2 DEF StoringOK
<1>4. storing' = Idle => StoringOK'
  BY <1>1, <1>2 DEF StoringOK
<1> QED
  BY <1>3, <1>4

LEMMA Ranks ==
  /\ Rank("count") = 1 /\ Rank("config") = 2 /\ Rank("cal") = 3 /\ Rank("list") = 4
  /\ Rank("logs") = 5 /\ Rank("crash") = 6 /\ Rank("run") = 7
BY DEF Rank, Stages

LEMMA StoredEffect ==
  ASSUME RecordsOK, NEW n \in Names, NEW v, NEW o, Stored(n, v, o)
  PROVE  /\ flash' = [config |-> flash'.config, cal |-> flash'.cal, list |-> flash'.list,
                      crash |-> flash'.crash, count |-> flash'.count]
         /\ flash'[n] = IF o = "old" THEN flash[n] ELSE v
         /\ \A m \in (Names \cup {"count"}) \ {n} : flash'[m] = flash[m]
         /\ intact' = (intact /\ o = "ok")
BY DEF RecordsOK, Stored, Names

\* The RAM copies, and the interrupt's line, are what is stored, but for the record a
\* setter is storing; the line is the RAM copy's unless the setter has just changed that.
InForce ==
  /\ \A n \in Names \ {storing.rec} : ram[n] = flash[n]
  /\ "cal" # storing.rec => isr = flash.cal.cp
  /\ ~storing.publish => isr = ram.cal.cp

\* What every change and every store of the queue's handlers does to the records: a store
\* that fails shows, one that works leaves RAM and flash equal if they were, and the card
\* list in RAM stays within the stored one in any case, but for the card being added.
Keeps ==
  /\ RecordsOK' /\ StoringOK'
  /\ intact' => intact /\ (InForce => InForce')
  /\ AcceptedIsDurable => AcceptedIsDurable'

LEMMA UnchangedKeeps == RecordsOK /\ StoringOK /\ UNCHANGED recordVars => Keeps
BY DEF Keeps, RecordsOK, StoringOK, recordVars, InForce, AcceptedIsDurable

\* The change of a setter: it leaves flash, the interrupt's line and the verdict alone.
LEMMA ChangedKeeps ==
  ASSUME RecordsOK, StoringOK, storing = Idle,
         NEW n \in Names, NEW v, NEW card \in Uids \cup {0}, NEW publish \in BOOLEAN,
         Changed(n, v, card, publish),
         n = "list" => v \in SUBSET Uids /\ v \ {card} \subseteq ram.list,
         n # "list" => card = 0,
         publish => n = "cal",
         n = "cal" /\ ~publish => v.cp = ram.cal.cp,
         n = "crash" => v = 0
  PROVE  Keeps
<1>1. /\ ram'[n] = v /\ \A m \in Names \ {n} : ram'[m] = ram[m]
      /\ ram' = [config |-> ram'.config, cal |-> ram'.cal, list |-> ram'.list, crash |-> ram'.crash]
      /\ UNCHANGED <<flash, isr, safe_fail, intact>>
  BY DEF Changed, RecordsOK, Names
<1>2. /\ storing' = Store(n, card, publish)
      /\ storing'.rec = n /\ storing'.card = card /\ storing'.publish = publish
  BY DEF Changed, Store
<1>3. n # None /\ storing.rec = None /\ ~storing.publish /\ storing.card = 0
  BY RecordsAssumption DEF Names, Idle, Store
<1>4. RecordsOK'
  BY <1>1 DEF RecordsOK, Names
<1>5. StoringOK'
  BY <1>1, <1>2, <1>3 DEF StoringOK, Store
<1>6. InForce => InForce'
  <2> SUFFICES ASSUME InForce PROVE InForce'
    OBVIOUS
  <2>1. \A m \in Names : ram[m] = flash[m]
    BY <1>3, RecordsAssumption DEF InForce
  <2>2. isr = flash.cal.cp /\ isr = ram.cal.cp
    BY <1>3, RecordsAssumption DEF InForce, Names
  <2>3. ~publish => isr' = ram'.cal.cp
    BY <1>1, <2>2 DEF Names
  <2> QED
    BY <1>1, <1>2, <2>1, <2>2, <2>3 DEF InForce
<1>7. AcceptedIsDurable => AcceptedIsDurable'
  <2>1. 0 \notin ram.list
    BY RecordsAssumption DEF RecordsOK
  <2>2. ram'.list \ {card} \subseteq ram.list
    BY <1>1 DEF Names
  <2> QED
    BY <1>1, <1>2, <1>3, <2>1, <2>2 DEF AcceptedIsDurable
<1> QED
  BY <1>1, <1>4, <1>5, <1>6, <1>7 DEF Keeps

\* The end of a store, in each of its outcomes.
LEMMA StoreKeeps ==
  ASSUME RecordsOK, StoringOK, NEW o \in Outcomes, StoreEnds(o)
  PROVE  /\ Keeps /\ storing' = Idle
         /\ storing.rec # "crash" => flash'.crash = flash.crash /\ safe_fail' = safe_fail
         /\ storing.rec = "crash" /\ o = "ok" => flash'.crash = 0 /\ safe_fail' = FALSE
<1> DEFINE n == storing.rec
           v == ram[n]
<1>1. n \in Names /\ storing' = Idle /\ Stored(n, v, o)
  BY DEF StoreEnds, StoringOK
<1>2. /\ flash'[n] = IF o = "old" THEN flash[n] ELSE v
      /\ \A m \in (Names \cup {"count"}) \ {n} : flash'[m] = flash[m]
      /\ intact' = (intact /\ o = "ok")
      /\ flash' = [config |-> flash'.config, cal |-> flash'.cal, list |-> flash'.list,
                   crash |-> flash'.crash, count |-> flash'.count]
  BY <1>1, StoredEffect
<1>3. /\ ram' = IF o = "ok" THEN ram ELSE [ram EXCEPT !.list = @ \ {storing.card}]
      /\ safe_fail' = (safe_fail /\ ~(storing.rec = "crash" /\ o = "ok"))
  BY DEF StoreEnds
<1>4. /\ \A m \in Names \ {"list"} : ram'[m] = ram[m]
      /\ ram'.list = IF o = "ok" THEN ram.list ELSE ram.list \ {storing.card}
      /\ ram' = [config |-> ram'.config, cal |-> ram'.cal, list |-> ram'.list, crash |-> ram'.crash]
  BY <1>3 DEF RecordsOK, Names
<1>5. /\ storing'.rec = None /\ storing'.card = 0 /\ storing'.publish = FALSE
  BY <1>1 DEF Idle, Store
<1>6. StoringOK'
  BY <1>1, IdleStore
<1>7. RecordsOK'
  <2>1. flash'.list \in {None} \cup SUBSET Uids
    BY <1>1, <1>2 DEF RecordsOK, Names
  <2>2. flash'.count \in Nat \cup {None}
    BY <1>1, <1>2 DEF RecordsOK, Names
  <2>3. intact' \in BOOLEAN /\ safe_fail' \in BOOLEAN
    BY <1>2, <1>3 DEF RecordsOK
  <2>4. ram'.list \in SUBSET Uids
    BY <1>4 DEF RecordsOK
  <2> QED
    BY <1>2, <1>4, <2>1, <2>2, <2>3, <2>4 DEF RecordsOK
<1>8. ASSUME intact', InForce PROVE intact /\ InForce'
  <2>1. intact /\ o = "ok"
    BY <1>2, <1>8
  <2>2. ram' = ram /\ \A m \in Names : flash'[m] = ram[m]
    BY <1>2, <1>3, <1>8, <2>1 DEF InForce
  <2>3. isr' = ram.cal.cp
    <3>1. CASE storing.publish
      BY <2>1, <3>1 DEF StoreEnds, publish_to_isr
    <3>2. CASE ~storing.publish
      BY <1>8, <3>2 DEF StoreEnds, InForce
    <3> QED
      BY <3>1, <3>2
  <2> QED
    BY <2>1, <2>2, <2>3 DEF InForce, Names
<1>9. intact' => intact
  BY <1>2 DEF RecordsOK
<1>10. AcceptedIsDurable => AcceptedIsDurable'
  <2> SUFFICES ASSUME AcceptedIsDurable PROVE AcceptedIsDurable'
    OBVIOUS
  <2>1. CASE n = "list"
    <3>1. v = ram.list /\ v # None
      BY <2>1, RecordsAssumption DEF RecordsOK
    <3>2. flash'.list = IF o = "old" THEN flash.list ELSE ram.list
      BY <1>2, <2>1, <3>1
    <3>3. o = "ok" \/ ram'.list = ram.list \ {storing.card}
      BY <1>4
    <3> QED
      BY <1>4, <1>5, <3>1, <3>2, <3>3 DEF AcceptedIsDurable, Outcomes
  <2>2. CASE n # "list"
    <3>1. storing.card = 0 /\ 0 \notin ram.list
      BY <2>2, RecordsAssumption DEF StoringOK, RecordsOK
    <3>2. ram'.list = ram.list /\ flash'.list = flash.list
      BY <1>2, <1>4, <2>2, <3>1 DEF Names
    <3> QED
      BY <1>5, <3>1, <3>2 DEF AcceptedIsDurable
  <2> QED
    BY <2>1, <2>2
<1>11. storing.rec # "crash" => flash'.crash = flash.crash /\ safe_fail' = safe_fail
  BY <1>2, <1>3 DEF RecordsOK, Names
<1>12. storing.rec = "crash" /\ o = "ok" => flash'.crash = 0 /\ safe_fail' = FALSE
  BY <1>2, <1>3 DEF StoringOK
<1> QED
  BY <1>1, <1>6, <1>7, <1>8, <1>9, <1>10, <1>11, <1>12 DEF Keeps

\* The handlers of the setters: nothing at all, or the change of one record.
LEMMA HandleKeeps ==
  ASSUME RecordsOK, StoringOK, QueueOK, Handle
  PROVE  Keeps /\ UNCHANGED <<flash, safe_fail>>
<1>1. storing = Idle /\ queue # <<>>
  BY DEF Handle, HandleAlive, HandleAmps, HandleAuth, HandlePolicy, HandleCalibration,
         HandleBl0939, HandleAdd, HandleRemove, HandleClear, Taken
<1>2. CASE UNCHANGED recordVars
  BY <1>2, UnchangedKeeps DEF recordVars
<1>3. ASSUME NEW c, Changed("config", c, 0, FALSE) PROVE Keeps
  BY <1>1, <1>3, ChangedKeeps DEF Names
<1>4. ASSUME NEW c, SetConfig(c), ~UNCHANGED recordVars PROVE Changed("config", c, 0, FALSE)
  BY <1>4 DEF SetConfig
<1>5. ASSUME NEW v, v = 0, Changed("crash", v, 0, FALSE) PROVE Keeps
  BY <1>1, <1>5, ChangedKeeps DEF Names
<1>6. ASSUME NEW c, Changed("cal", Cal(CALIBRATION_VERSION, c, ram.cal.ia, ram.cal.freq), 0, TRUE)
      PROVE  Keeps
  <2> DEFINE v == Cal(CALIBRATION_VERSION, c, ram.cal.ia, ram.cal.freq)
  <2>1. Changed("cal", v, 0, TRUE)
    BY <1>6
  <2> HIDE DEF v
  <2> QED
    BY <1>1, <2>1, ChangedKeeps DEF Names
<1>7. ASSUME NEW ia, Changed("cal", Cal(CALIBRATION_VERSION, ram.cal.cp, ia, 1), 0, FALSE)
      PROVE  Keeps
  <2> DEFINE v == Cal(CALIBRATION_VERSION, ram.cal.cp, ia, 1)
  <2>1. Changed("cal", v, 0, FALSE) /\ v.cp = ram.cal.cp
    BY <1>7 DEF Cal
  <2> HIDE DEF v
  <2> QED
    BY <1>1, <2>1, ChangedKeeps DEF Names
<1>8. ASSUME NEW u \in Uids, Changed("list", ram.list \cup {u}, u, FALSE) PROVE Keeps
  <2>1. ram.list \cup {u} \in SUBSET Uids /\ (ram.list \cup {u}) \ {u} \subseteq ram.list
    BY DEF RecordsOK
  <2> QED
    BY <1>1, <1>8, <2>1, ChangedKeeps DEF Names
<1>9. ASSUME NEW new \in SUBSET ram.list, Changed("list", new, 0, FALSE) PROVE Keeps
  <2>1. new \in SUBSET Uids /\ new \ {0} \subseteq ram.list
    BY DEF RecordsOK
  <2> QED
    BY <1>1, <1>9, <2>1, ChangedKeeps DEF Names
<1>10. Keeps
  <2> SUFFICES ASSUME ~UNCHANGED recordVars PROVE Keeps
    BY <1>2
  <2>1. CASE HandleAlive
    BY <1>5, <2>1 DEF HandleAlive, crash_state_reset_alive
  <2>2. CASE HandleAmps \/ HandleAuth \/ HandlePolicy
    <3>1. PICK c : SetConfig(c)
      BY <2>2 DEF HandleAmps, HandleAuth, HandlePolicy
    <3> QED
      BY <1>3, <1>4, <3>1
  <2>3. CASE HandleCalibration
    BY <1>6, <2>3 DEF HandleCalibration, calibration_set_cp
  <2>4. CASE HandleBl0939
    BY <1>7, <2>4 DEF HandleBl0939, calibration_set_bl0939
  <2>5. CASE HandleAdd
    <3>1. Head(queue) \in Requests
      BY <1>1 DEF QueueOK
    <3>2. Arg \in Uids \cup {0}
      BY <2>5, <3>1, PersistAssumption DEF HandleAdd, Taken, Arg
    <3>3. Arg # 0 /\ Changed("list", ram.list \cup {Arg}, Arg, FALSE)
      BY <2>5 DEF HandleAdd, rfid_authlist_add
    <3> QED
      BY <1>8, <3>2, <3>3
  <2>6. CASE HandleRemove
    <3>1. Changed("list", ram.list \ {Arg}, 0, FALSE)
      BY <2>6 DEF HandleRemove, rfid_authlist_remove
    <3> QED
      BY <1>9, <3>1
  <2>7. CASE HandleClear
    <3>1. Changed("list", {}, 0, FALSE)
      BY <2>7 DEF HandleClear, rfid_authlist_clear
    <3> QED
      BY <1>9, <3>1
  <2> QED
    BY <2>1, <2>2, <2>3, <2>4, <2>5, <2>6, <2>7 DEF Handle
<1>11. UNCHANGED <<flash, safe_fail>>
  BY DEF Handle, HandleAlive, HandleAmps, HandleAuth, HandlePolicy, HandleCalibration,
         HandleBl0939, HandleAdd, HandleRemove, HandleClear, crash_state_reset_alive, SetConfig,
         calibration_set_cp, calibration_set_bl0939, rfid_authlist_add, rfid_authlist_remove,
         rfid_authlist_clear, Changed, recordVars
<1> QED
  BY <1>10, <1>11

\* The history of the overlap only ever becomes true.
LEMMA ListHits ==
  ASSUME overlapped \in BOOLEAN, NEW o, ListHitsLog(o)
  PROVE  overlapped' \in BOOLEAN /\ (~overlapped' => ~overlapped)
BY DEF ListHitsLog

LEMMA LogHits ==
  ASSUME overlapped \in BOOLEAN, RecordsOK, NEW ok \in BOOLEAN, LogHitsList(ok)
  PROVE  /\ overlapped' \in BOOLEAN
         /\ ~overlapped' => ~overlapped /\ flash' = flash
         /\ RecordsOK' /\ UNCHANGED <<ram, isr, safe_fail, storing, intact>>
         /\ flash'.config = flash.config /\ flash'.cal = flash.cal
         /\ flash'.crash = flash.crash /\ flash'.count = flash.count
<1> DEFINE touched == {ev_head} \cup
             (IF EventLog!NeedsErase THEN EventLog!SectorOf(EventLog!Sector(ev_head)) ELSE {})
           meets == listAt # 0 /\ touched \cap ListCells(listAt) # {}
<1>1. PICK hit \in {FALSE, meets} :
        /\ overlapped' = (overlapped \/ hit)
        /\ flash' = IF hit THEN [flash EXCEPT !.list = None] ELSE flash
        /\ UNCHANGED <<ram, isr, safe_fail, storing, intact>>
  BY DEF LogHitsList
<1>2. meets \in BOOLEAN
  OBVIOUS
<1> HIDE DEF touched, meets
<1>3. hit \in BOOLEAN
  BY <1>1, <1>2
<1>4. CASE hit
  BY <1>1, <1>4 DEF RecordsOK
<1>5. CASE ~hit
  BY <1>1, <1>5 DEF RecordsOK
<1> QED
  BY <1>1, <1>3, <1>4, <1>5

-----------------------------------------------------------------------------
(* The three properties of the records. *)

\* While the tasks run and no store has failed, RAM, flash and the interrupt agree.
RunInForce == pc = "run" /\ intact /\ ~overlapped => InForce

RecordsInv ==
  /\ RecordsOK /\ StoringOK /\ QueueOK /\ CrashInv /\ overlapped \in BOOLEAN
  /\ pc # "run" => storing = Idle
  /\ ListIsDurable /\ InForceIsDurable /\ RunInForce

\* Once everything is loaded, InForce says it all; before, no store is under way.
LEMMA RunLoaded == (pc = "run" => Loaded = Names) /\ (pc' = "run" => Loaded' = Names)
BY Ranks DEF Loaded, Names

LEMMA RunDurable ==
  ASSUME pc = "run", RunInForce
  PROVE  InForceIsDurable
<1>1. Loaded = Names
  BY RunLoaded
<1> QED
  BY <1>1 DEF InForceIsDurable, InForceIsStored, InForce, RunInForce, Names

LEMMA BootInForce ==
  ASSUME RecordsInv, pc # "run"
  PROVE  /\ storing = Idle /\ Loaded \ {storing.rec} = Loaded
         /\ intact /\ ~overlapped =>
              /\ \A n \in Loaded : ram[n] = flash[n]
              /\ "cal" \in Loaded => isr = flash.cal.cp
<1>1. storing = Idle /\ storing.rec = None
  BY DEF RecordsInv, Idle, Store
<1>2. Loaded \ {storing.rec} = Loaded
  BY <1>1, RecordsAssumption DEF Loaded
<1> QED
  BY <1>1, <1>2 DEF RecordsInv, InForceIsDurable, InForceIsStored

\* A step of the running tasks that keeps the records keeps the two properties.
LEMMA KeepsDurable ==
  ASSUME RecordsOK, ListIsDurable, RunInForce, pc = "run", pc' = "run",
         Keeps, ~overlapped' => ~overlapped
  PROVE  ListIsDurable' /\ InForceIsDurable' /\ RunInForce'
<1>1. ListIsDurable'
  BY DEF ListIsDurable, Keeps
<1>2. RunInForce'
  BY DEF RunInForce, Keeps
<1>3. Loaded' = Names
  BY RunLoaded
<1>4. InForceIsDurable'
  BY <1>2, <1>3 DEF InForceIsDurable, InForceIsStored, RunInForce, InForce, Names
<1> QED
  BY <1>1, <1>2, <1>4

LEMMA RecordsInitInv == PersistInit => RecordsInv
<1> SUFFICES ASSUME PersistInit PROVE RecordsInv
  OBVIOUS
<1>1. PICK m \in Mixes : RecordsInit(m[2])
  BY DEF PersistInit
<1>2. ram = Zeroed /\ intact = TRUE /\ safe_fail = FALSE /\ storing = Idle
  BY <1>1 DEF RecordsInit
<1>3. PICK c \in m[2] :
        flash = [config |-> None, cal |-> c, list |-> None, crash |-> None, count |-> None]
  BY <1>1 DEF RecordsInit
<1>8. RecordsOK
  BY <1>2, <1>3 DEF RecordsOK, Zeroed
<1>4. QueueOK /\ overlapped \in BOOLEAN
  <2>1. queue = <<>> /\ overlapped = FALSE
    BY DEF PersistInit
  <2>2. QueueOK
    BY <2>1 DEF QueueOK
  <2> QED
    BY <2>1, <2>2
<1>5. CrashInv
  BY RecordsAssumption DEF PersistInit, CrashInv, CrashCount, WasCrash
<1>6. ListIsDurable
  BY <1>2 DEF ListIsDurable, AcceptedIsDurable, Zeroed
<1>7. InForceIsDurable
  BY DEF PersistInit, InForceIsDurable, InForceIsStored, Loaded
<1>9. StoringOK /\ RunInForce
  BY <1>2, IdleStore DEF PersistInit, RunInForce
<1> QED
  BY <1>2, <1>4, <1>5, <1>6, <1>7, <1>8, <1>9 DEF RecordsInv

\* The stages of the boot, one lemma each for the records they load.
LEMMA ConfigLoadInv == RecordsInv /\ BootConfigLoad => RecordsInv'
<1> SUFFICES ASSUME RecordsInv, BootConfigLoad PROVE RecordsInv'
  OBVIOUS
<1> USE DEF RecordsInv
<1>1. PICK o \in Outcomes : boot_config_load(o)
  BY DEF BootConfigLoad
<1>0. storing = Idle /\ storing' = Idle /\ Idle.rec = None /\ Idle.card = 0
  BY <1>1 DEF boot_config_load, BootConfigLoad, Idle, Store
<1>2. /\ RecordsOK'
      /\ intact' => intact /\ ram'.config = flash'.config
      /\ \A n \in Names \ {"config"} : ram'[n] = ram[n] /\ flash'[n] = flash[n]
  <2>1. CASE flash.config = None
    <3>1. ram' = [ram EXCEPT !.config = Config(0, 0, 0)] /\ Stored("config", ram'.config, o)
      BY <1>1, <2>1 DEF boot_config_load
    <3>2. safe_fail' = safe_fail /\ isr' = isr
      BY <1>1 DEF boot_config_load
    <3> QED
      BY <3>1, <3>2, StoredEffect DEF RecordsOK, Names
  <2>2. CASE flash.config # None
    BY <1>1, <2>2 DEF boot_config_load, RecordsOK, Names
  <2> QED
    BY <2>1, <2>2
<1>3. pc = "config" /\ pc' = "cal" /\ UNCHANGED <<queue, seat, crashVars, cause>>
  BY DEF BootConfigLoad
<1>4. ListIsDurable'
  BY <1>0, <1>2, <1>3 DEF ListIsDurable, AcceptedIsDurable, seat, Names
<1>5. Loaded' = {"config"}
  BY <1>3, Ranks DEF Loaded, Names
<1>6. InForceIsDurable'
  BY RecordsAssumption, <1>0, <1>2, <1>3, <1>5 DEF InForceIsDurable, InForceIsStored, seat, Names
<1>7. CrashInv'
  BY <1>2, <1>3 DEF CrashInv, CrashCount, StoredCrashes, crashVars, Names
<1>9. StoringOK' /\ RunInForce'
  BY <1>0, <1>3, IdleStore DEF RunInForce
<1> QED
  BY <1>0, <1>9, <1>2, <1>3, <1>4, <1>6, <1>7 DEF QueueOK, seat

LEMMA CalibrationLoadInv == RecordsInv /\ CalibrationLoad => RecordsInv'
<1> SUFFICES ASSUME RecordsInv, CalibrationLoad PROVE RecordsInv'
  OBVIOUS
<1> USE DEF RecordsInv
<1>1. PICK o \in Outcomes : calibration_load(o)
  BY DEF CalibrationLoad
<1>0. storing = Idle /\ storing' = Idle /\ Idle.rec = None /\ Idle.card = 0
  BY <1>1 DEF calibration_load, CalibrationLoad, Idle, Store
<1>2. /\ RecordsOK'
      /\ intact' => intact /\ ram'.cal = flash'.cal /\ isr' = flash'.cal.cp
      /\ \A n \in Names \ {"cal"} : ram'[n] = ram[n] /\ flash'[n] = flash[n]
  <2>0. safe_fail' = safe_fail
    BY <1>1 DEF calibration_load
  <2>1. CASE flash.cal = None
    <3> DEFINE v == Cal(CALIBRATION_VERSION, DEFAULT_CP, 0, 0)
    <3>1. /\ ram' = [ram EXCEPT !.cal = v] /\ Stored("cal", ram'.cal, o)
          /\ o = "ok" => isr' = ram'.cal.cp
      BY <1>1, <2>1 DEF calibration_load, publish_to_isr
    <3> HIDE DEF v
    <3> QED
      BY <2>0, <3>1, StoredEffect DEF RecordsOK, Names
  <2>2. CASE flash.cal # None
    <3>1. ram' = [ram EXCEPT !.cal = Migrated(flash.cal)] /\ isr' = ram'.cal.cp
      BY <1>1, <2>2 DEF calibration_load, publish_to_isr
    <3>2. CASE Migrated(flash.cal) # flash.cal
      <4>1. Stored("cal", Migrated(flash.cal), o)
        BY <1>1, <2>2, <3>2 DEF calibration_load
      <4> QED
        BY <2>0, <3>1, <4>1, StoredEffect DEF RecordsOK, Names
    <3>3. CASE Migrated(flash.cal) = flash.cal
      <4>1. UNCHANGED <<flash, intact>>
        BY <1>1, <2>2, <3>3 DEF calibration_load
      <4> QED
        BY <2>0, <3>1, <3>3, <4>1 DEF RecordsOK, Names
    <3> QED
      BY <3>2, <3>3
  <2> QED
    BY <2>1, <2>2
<1>3. pc = "cal" /\ pc' = "list" /\ UNCHANGED <<queue, seat, crashVars, cause>>
  BY DEF CalibrationLoad
<1>4. ListIsDurable'
  BY <1>0, <1>2, <1>3 DEF ListIsDurable, AcceptedIsDurable, seat, Names
<1>5. Loaded = {"config"} /\ Loaded' = {"config", "cal"}
  BY <1>3, Ranks DEF Loaded, Names
<1>6. InForceIsDurable'
  BY RecordsAssumption, <1>0, <1>2, <1>3, <1>5 DEF InForceIsDurable, InForceIsStored, seat, Names
<1>7. CrashInv'
  BY <1>2, <1>3 DEF CrashInv, CrashCount, StoredCrashes, crashVars, Names
<1>9. StoringOK' /\ RunInForce'
  BY <1>0, <1>3, IdleStore DEF RunInForce
<1> QED
  BY <1>0, <1>9, <1>2, <1>3, <1>4, <1>6, <1>7 DEF QueueOK, seat

LEMMA AuthlistLoadInv == RecordsInv /\ AuthlistLoad => RecordsInv'
<1> SUFFICES ASSUME RecordsInv, AuthlistLoad PROVE RecordsInv'
  OBVIOUS
<1> USE DEF RecordsInv
<1>1. PICK o \in Outcomes : rfid_authlist_load(o)
  BY DEF AuthlistLoad
<1>0. storing = Idle /\ storing' = Idle /\ Idle.rec = None /\ Idle.card = 0
  BY <1>1 DEF rfid_authlist_load, AuthlistLoad, Idle, Store
<1>2. /\ RecordsOK'
      /\ intact' => intact /\ ram'.list = flash'.list
      /\ ram'.list = {} \/ ram'.list = flash'.list
      /\ \A n \in Names \ {"list"} : ram'[n] = ram[n] /\ flash'[n] = flash[n]
      /\ isr' = isr
  <2>0. safe_fail' = safe_fail /\ isr' = isr
    BY <1>1 DEF rfid_authlist_load
  <2>1. CASE flash.list = None
    <3>1. ram' = [ram EXCEPT !.list = {}] /\ Stored("list", {}, o)
      BY <1>1, <2>1 DEF rfid_authlist_load
    <3>2. ram'.list = {} /\ \A n \in Names \ {"list"} : ram'[n] = ram[n]
      BY <3>1 DEF RecordsOK, Names
    <3>3. /\ flash'.list = (IF o = "old" THEN flash.list ELSE {})
          /\ \A n \in {"config", "cal", "crash", "count"} : flash'[n] = flash[n]
          /\ intact' = (intact /\ o = "ok")
      BY <3>1, StoredEffect DEF Names
    <3>4. RecordsOK'
      BY <2>0, <3>1, <3>2, <3>3, StoredEffect DEF RecordsOK, Names
    <3> QED
      BY <2>0, <3>2, <3>3, <3>4 DEF Names
  <2>2. CASE flash.list # None
    <3>1. ram' = [ram EXCEPT !.list = flash.list] /\ UNCHANGED <<flash, intact>>
      BY <1>1, <2>2 DEF rfid_authlist_load
    <3> QED
      BY <2>0, <2>2, <3>1 DEF RecordsOK, Names
  <2> QED
    BY <2>1, <2>2
<1>3. pc = "list" /\ pc' = "logs" /\ UNCHANGED <<queue, crashVars, cause>>
  BY DEF AuthlistLoad
<1>4. overlapped' \in BOOLEAN /\ (~overlapped' => ~overlapped)
  <2>1. PICK q : ListHitsLog(q) \/ UNCHANGED seat
    BY DEF AuthlistLoad
  <2> QED
    BY <2>1, ListHits DEF seat
<1>5. ListIsDurable'
  <2>1. ram'.list = flash'.list => flash'.list # None
    BY <1>2, RecordsAssumption DEF RecordsOK
  <2> QED
    BY <1>0, <1>2, <2>1 DEF ListIsDurable, AcceptedIsDurable
<1>6. Loaded = {"config", "cal"} /\ Loaded' = {"config", "cal", "list"}
  BY <1>3, Ranks DEF Loaded, Names
<1>7. InForceIsDurable'
  BY RecordsAssumption, <1>0, <1>2, <1>4, <1>6 DEF InForceIsDurable, InForceIsStored, Names
<1>8. CrashInv'
  BY <1>2, <1>3 DEF CrashInv, CrashCount, StoredCrashes, crashVars, Names
<1>9. StoringOK' /\ RunInForce'
  BY <1>0, <1>3, IdleStore DEF RunInForce
<1> QED
  BY <1>0, <1>9, <1>2, <1>3, <1>4, <1>5, <1>7, <1>8 DEF QueueOK

LEMMA CrashStateInv == RecordsInv /\ CrashState => RecordsInv'
<1> SUFFICES ASSUME RecordsInv, CrashState PROVE RecordsInv'
  OBVIOUS
<1>0. RecordsOK /\ CrashInv /\ QueueOK /\ overlapped \in BOOLEAN /\ ListIsDurable
  BY DEF RecordsInv
<1>1. PICK o \in Outcomes :
        /\ crash_state_boot_increment(cause, o) /\ counted' = (counted /\ o = "ok")
  BY DEF CrashState
<1>2. /\ pc = "crash" /\ pc' = "run" /\ cause' = "none" /\ UNCHANGED <<queue, seat, crashes>>
  BY DEF CrashState
<1> DEFINE n == Restarts(WasCrash(cause))
<1>3. /\ ram' = [ram EXCEPT !.crash = n] /\ Stored("crash", n, o) /\ isr' = isr
      /\ safe_fail' = (n >= CRASH_LOOP_THRESHOLD) /\ storing' = storing
  BY <1>1 DEF crash_state_boot_increment
<1>4. counted => n = crashes
  <2>1. n = CrashCount
    BY <1>0, <1>2 DEF CrashInv, CrashCount, StoredCrashes, Restarts, WasCrash
  <2> QED
    BY <1>0, <2>1 DEF CrashInv
<1> HIDE DEF n
<1>5. RecordsOK'
  <2>1. safe_fail' \in BOOLEAN
    BY <1>3
  <2> QED
    BY <1>0, <1>3, <2>1, StoredEffect DEF RecordsOK, Names
<1>6. /\ intact' => intact /\ flash'.crash = n
      /\ o = "ok" => flash'.crash = n
      /\ ram'.crash = n
      /\ \A m \in Names \ {"crash"} : ram'[m] = ram[m] /\ flash'[m] = flash[m]
  BY <1>0, <1>3, StoredEffect DEF RecordsOK, Names
<1>7. CrashInv'
  <2>1. crashes' \in 0..COUNT_MAX /\ counted' \in BOOLEAN
    BY <1>0, <1>1, <1>2 DEF CrashInv
  <2>2. ASSUME counted' PROVE crashes' = StoredCrashes' /\ (safe_fail' <=> crashes' >= CRASH_LOOP_THRESHOLD)
    <3>1. counted /\ o = "ok"
      BY <1>1, <2>2
    <3>2. n = crashes /\ n # None
      BY <1>0, <1>4, <3>1, RecordsAssumption DEF CrashInv
    <3> QED
      BY <1>2, <1>3, <1>6, <3>1, <3>2 DEF StoredCrashes
  <2> QED
    BY <1>2, <2>1, <2>2 DEF CrashInv, CrashCount
<1>8. storing = Idle /\ storing' = Idle /\ Idle.rec = None /\ Idle.card = 0 /\ ~Idle.publish
  BY <1>2, <1>3 DEF RecordsInv, Idle, Store
<1>9. ListIsDurable'
  BY <1>0, <1>2, <1>6, <1>8 DEF ListIsDurable, AcceptedIsDurable, seat, Names
<1>10. RunInForce'
  <2>1. Loaded = {"config", "cal", "list"}
    BY <1>2, Ranks DEF Loaded, Names
  <2> SUFFICES ASSUME intact', ~overlapped' PROVE InForce'
    BY DEF RunInForce
  <2>2. /\ \A m \in {"config", "cal", "list"} : ram[m] = flash[m]
        /\ isr = flash.cal.cp
    BY <1>2, <1>6, <2>1, BootInForce DEF seat
  <2>3. ram'.cal.cp = flash'.cal.cp /\ isr' = flash'.cal.cp
    BY <1>3, <1>6, <2>2 DEF Names
  <2>4. \A m \in Names : ram'[m] = flash'[m]
    BY <1>6, <2>2 DEF Names
  <2> QED
    BY <2>3, <2>4 DEF InForce
<1>11. InForceIsDurable'
  BY <1>2, <1>10, RunLoaded DEF InForceIsDurable, InForceIsStored, RunInForce, InForce, Names
<1>12. StoringOK'
  BY <1>8, IdleStore
<1> QED
  BY <1>0, <1>2, <1>5, <1>7, <1>8, <1>9, <1>10, <1>11, <1>12 DEF RecordsInv, QueueOK, seat

\* The rest of the boot: nothing is loaded, nothing but the boot count is written.
LEMMA BootInv ==
  RecordsInv /\ (Begin \/ W25qInitFails \/ BootCount \/ LogsInit) => RecordsInv'
<1> SUFFICES ASSUME RecordsInv, Begin \/ W25qInitFails \/ BootCount \/ LogsInit
             PROVE  RecordsInv'
  OBVIOUS
<1>0. pc # "run" /\ storing = Idle
  BY DEF RecordsInv, Begin, W25qInitFails, BootCount, LogsInit
<1> USE DEF RecordsInv
<1>1. CASE Begin
  <2>1. pc' = "count" /\ pc = "off" /\ UNCHANGED <<recordVars, queue, seat, crashVars, cause>>
    BY <1>1 DEF Begin
  <2>2. Loaded' = {}
    BY <2>1, Ranks DEF Loaded, Names
  <2>3. InForceIsDurable' /\ RunInForce'
    BY <2>1, <2>2 DEF InForceIsDurable, InForceIsStored, RunInForce
  <2>4. StoringOK' /\ storing' = Idle
    BY <1>0, <2>1, IdleStore DEF recordVars
  <2> QED
    BY <2>1, <2>3, <2>4 DEF recordVars, seat, crashVars, RecordsOK, QueueOK, CrashInv, CrashCount,
                      StoredCrashes, ListIsDurable, AcceptedIsDurable
<1>2. CASE W25qInitFails
  <2>1. /\ intact' = FALSE /\ counted' = FALSE /\ pc' = "run"
        /\ UNCHANGED <<flash, ram, isr, safe_fail, storing, queue, seat, crashes, cause>>
    BY <1>2 DEF W25qInitFails
  <2>2. StoringOK'
    BY <1>0, <2>1, IdleStore
  <2>3. InForceIsDurable' /\ RunInForce'
    BY <2>1 DEF InForceIsDurable, InForceIsStored, RunInForce
  <2> QED
    BY <2>1, <2>2, <2>3 DEF seat, RecordsOK, QueueOK, CrashInv, ListIsDurable, AcceptedIsDurable
<1>3. CASE BootCount
  <2>1. PICK ok \in BOOLEAN : boot_count_increment(ok)
    BY <1>3 DEF BootCount
  <2>2. NextCount \in Nat
    BY DEF NextCount, RecordsOK
  <2>3. PICK c \in {flash.count, None, NextCount} : flash' = [flash EXCEPT !.count = c]
    BY <2>1 DEF boot_count_increment
  <2>4. UNCHANGED <<ram, isr, safe_fail, storing, intact>>
    BY <2>1 DEF boot_count_increment
  <2>5. RecordsOK'
    BY <2>2, <2>3, <2>4 DEF RecordsOK
  <2>6. \A n \in Names : flash'[n] = flash[n]
    BY <2>3 DEF RecordsOK, Names
  <2>7. pc' = "config" /\ UNCHANGED <<queue, seat, crashVars, cause>>
    BY <1>3 DEF BootCount
  <2>8. Loaded' = {}
    BY <2>7, Ranks DEF Loaded, Names
  <2>9. InForceIsDurable' /\ RunInForce'
    BY <2>7, <2>8 DEF InForceIsDurable, InForceIsStored, RunInForce
  <2>10. StoringOK' /\ storing' = Idle
    BY <1>0, <2>4, IdleStore
  <2>11. CrashInv'
    BY <2>6, <2>7, <1>0 DEF CrashInv, CrashCount, StoredCrashes, crashVars, Names
  <2> QED
    BY <2>4, <2>5, <2>6, <2>7, <2>9, <2>10, <2>11
       DEF seat, QueueOK, ListIsDurable, AcceptedIsDurable, Names
<1>4. CASE LogsInit
  <2>1. pc' = "crash" /\ pc = "logs" /\ UNCHANGED <<recordVars, queue, seat, crashVars, cause>>
    BY <1>4 DEF LogsInit
  <2>2. Loaded' = Loaded
    BY <2>1, Ranks DEF Loaded, Names
  <2>3. StoringOK' /\ storing' = Idle
    BY <1>0, <2>1, IdleStore DEF recordVars
  <2> QED
    BY <2>1, <2>2, <2>3 DEF recordVars, seat, crashVars, RecordsOK, QueueOK, CrashInv, CrashCount,
         StoredCrashes, ListIsDurable, AcceptedIsDurable, InForceIsDurable,
         InForceIsStored, RunInForce
<1> QED
  BY <1>1, <1>2, <1>3, <1>4

\* A reset counts itself at once, in the history and in the flags: a watchdog that was not
\* read yet stays in them until it is.
LEMMA ResetInv == RecordsInv /\ Reset => RecordsInv'
<1> SUFFICES ASSUME RecordsInv, Reset PROVE RecordsInv'
  OBVIOUS
<1> USE DEF RecordsInv
<1>1. /\ pc' = "off" /\ queue' = <<>> /\ UNCHANGED <<flash, seat, counted>>
      /\ ram' = Zeroed /\ safe_fail' = FALSE /\ storing' = Idle /\ intact' = TRUE
  BY DEF Reset, ForgetRam
<1>2. InForceIsDurable' /\ RunInForce'
  BY <1>1 DEF InForceIsDurable, InForceIsStored, RunInForce, Loaded
<1>3. QueueOK'
  BY <1>1 DEF QueueOK
<1>4. RecordsOK'
  BY <1>1 DEF RecordsOK, Zeroed
<1>5. StoringOK'
  BY <1>1, IdleStore
<1>6. ListIsDurable'
  BY <1>1 DEF ListIsDurable, AcceptedIsDurable, Zeroed
<1>7. CrashInv'
  <2>1. PICK c \in {"power_on", "pin"} \cup (IF pc = "run" THEN {"watchdog"} ELSE {}) :
          cause' = FlagsAfter(c) /\ crashes' = CrashesAfter(c)
    BY DEF Reset
  <2>2. StoredCrashes' = StoredCrashes
    BY <1>1 DEF StoredCrashes
  <2>3. cause' \in {"power_on", "pin", "watchdog"} /\ crashes' \in 0..COUNT_MAX
    BY <2>1, RecordsAssumption DEF FlagsAfter, CrashesAfter, WasCrash, CrashInv
  <2>4. ASSUME counted PROVE crashes' = CrashCount'
    <3>1. crashes = CrashCount /\ (pc = "run" <=> cause = "none")
      BY <2>4 DEF CrashInv
    <3>2. CASE c = "power_on"
      BY <2>1, <3>2 DEF FlagsAfter, CrashesAfter, CrashCount
    <3>3. CASE c = "watchdog"
      <4>1. cause = "none" /\ cause' = "watchdog"
        BY <2>1, <3>1, <3>3 DEF FlagsAfter, WasCrash
      <4> QED
        BY <2>1, <2>2, <3>1, <3>3, <4>1 DEF CrashesAfter, CrashCount
    <3>4. CASE c = "pin" /\ pc = "run"
      BY <2>1, <3>1, <3>4 DEF FlagsAfter, CrashesAfter, WasCrash, CrashCount
    <3>5. CASE c = "pin" /\ pc # "run"
      BY <2>1, <2>2, <3>1, <3>5 DEF FlagsAfter, CrashesAfter, WasCrash, CrashCount, CrashInv
    <3> QED
      BY <2>1, <3>2, <3>3, <3>4, <3>5
  <2> QED
    BY <1>1, <2>3, <2>4 DEF CrashInv
<1> QED
  BY <1>1, <1>2, <1>3, <1>4, <1>5, <1>6, <1>7 DEF seat

LEMMA RestIsRequests ==
  ASSUME QueueOK, queue # <<>>
  PROVE  Tail(queue) \in Seq(Requests) /\ Head(queue) \in Requests
BY DEF QueueOK

\* The queue and its handlers.
LEMMA RequestsInv ==
  RecordsInv /\ ((\E r \in Requests : Post(r)) \/ HandleEvent \/ HandleSession \/ Handle)
    => RecordsInv'
<1> SUFFICES ASSUME RecordsInv,
                    (\E r \in Requests : Post(r)) \/ HandleEvent \/ HandleSession \/ Handle
             PROVE  RecordsInv'
  OBVIOUS
<1> USE DEF RecordsInv
<1>1. ASSUME UNCHANGED <<pc, recordVars, seat, crashVars, cause>>, QueueOK' PROVE RecordsInv'
  <2>1. Loaded' = Loaded
    BY <1>1 DEF Loaded
  <2>2. InForceIsDurable' /\ RunInForce'
    BY <1>1, <2>1 DEF recordVars, seat, InForceIsDurable, InForceIsStored, RunInForce, InForce
  <2>3. StoringOK' /\ CrashInv'
    BY <1>1 DEF recordVars, crashVars, StoringOK, CrashInv, CrashCount, StoredCrashes
  <2> QED
    BY <1>1, <2>2, <2>3 DEF recordVars, seat, RecordsOK, ListIsDurable, AcceptedIsDurable
<1>2. ASSUME NEW r \in Requests, Post(r) PROVE RecordsInv'
  <2>1. QueueOK'
    BY <1>2 DEF Post, post, QueueOK
  <2> QED
    BY <1>1, <1>2, <2>1 DEF Post, bootVars
<1>3. CASE HandleSession
  <2>1. QueueOK' /\ UNCHANGED bootVars
    BY <1>3, RestIsRequests DEF HandleSession, Taken, QueueOK
  <2> QED
    BY <1>1, <1>3, <2>1 DEF HandleSession, bootVars
<1>4. CASE HandleEvent
  <2>1. QueueOK' /\ pc = "run" /\ storing = Idle /\ UNCHANGED <<pc, cause, crashVars>>
    BY <1>4, RestIsRequests DEF HandleEvent, Taken, QueueOK, bootVars
  <2>2. CASE UNCHANGED <<recordVars, seat>>
    BY <1>1, <2>1, <2>2
  <2>3. ASSUME NEW ok \in BOOLEAN, LogHitsList(ok) PROVE RecordsInv'
    <3>1. /\ overlapped' \in BOOLEAN
          /\ ~overlapped' => ~overlapped /\ flash' = flash
          /\ RecordsOK' /\ UNCHANGED <<ram, isr, safe_fail, storing, intact>>
          /\ flash'.crash = flash.crash
      BY <2>3, LogHits
    <3>2. CrashInv' /\ StoringOK'
      BY <2>1, <3>1, IdleStore DEF crashVars, CrashInv, CrashCount, StoredCrashes
    <3>3. RunInForce' /\ ListIsDurable'
      BY <2>1, <3>1 DEF RunInForce, InForce, ListIsDurable, AcceptedIsDurable
    <3>4. InForceIsDurable'
      BY <2>1, <3>3, RunLoaded DEF InForceIsDurable, InForceIsStored, RunInForce, InForce, Names
    <3> QED
      BY <2>1, <3>1, <3>2, <3>3, <3>4
  <2> QED
    BY <1>4, <2>2, <2>3 DEF HandleEvent
<1>5. CASE Handle
  <2>1. QueueOK' /\ queue # <<>> /\ pc = "run" /\ pc' = "run" /\ cause' = cause
    BY <1>5, RestIsRequests DEF Handle, HandleAlive, HandleAmps, HandleAuth, HandlePolicy,
         HandleCalibration, HandleBl0939, HandleAdd, HandleRemove, HandleClear, Taken, QueueOK,
         bootVars
  <2>2. Keeps /\ UNCHANGED <<flash, safe_fail>>
    BY <1>5, HandleKeeps
  <2>3. UNCHANGED <<seat, crashVars>>
    BY <1>5 DEF Handle
  <2>4. CrashInv'
    BY <2>1, <2>2, <2>3 DEF CrashInv, CrashCount, StoredCrashes, crashVars
  <2>5. ListIsDurable' /\ InForceIsDurable' /\ RunInForce'
    BY <2>1, <2>2, <2>3, KeepsDurable DEF seat
  <2> QED
    BY <2>1, <2>2, <2>3, <2>4, <2>5 DEF Keeps, seat
<1> QED
  BY <1>2, <1>3, <1>4, <1>5

\* The end of a store: only a stored alive marker ends the row of crashes.
LEMMA StoreReturnsInv == RecordsInv /\ StoreReturns => RecordsInv'
<1> SUFFICES ASSUME RecordsInv, StoreReturns PROVE RecordsInv'
  OBVIOUS
<1> USE DEF RecordsInv
<1>1. PICK o \in Outcomes :
        /\ StoreEnds(o)
        /\ IF storing.rec = "list" THEN ListHitsLog(o) ELSE UNCHANGED <<ev, seat>>
        /\ IF storing.rec = "crash"
           THEN /\ crashes' = IF o = "ok" THEN 0 ELSE crashes
                /\ counted' = (counted /\ o = "ok")
           ELSE UNCHANGED crashVars
  BY DEF StoreReturns
<1>2. /\ Keeps /\ storing' = Idle
      /\ storing.rec # "crash" => flash'.crash = flash.crash /\ safe_fail' = safe_fail
      /\ storing.rec = "crash" /\ o = "ok" => flash'.crash = 0 /\ safe_fail' = FALSE
  BY <1>1, StoreKeeps
<1>3. pc = "run" /\ pc' = "run" /\ cause' = cause /\ queue' = queue
  BY DEF StoreReturns, bootVars
<1>4. overlapped' \in BOOLEAN /\ (~overlapped' => ~overlapped)
  BY <1>1, ListHits DEF seat
<1>5. CrashInv'
  <2>1. CASE storing.rec = "crash"
    <3>1. crashes' = (IF o = "ok" THEN 0 ELSE crashes) /\ counted' = (counted /\ o = "ok")
      BY <1>1, <2>1
    <3>2. crashes' \in 0..COUNT_MAX /\ counted' \in BOOLEAN
      BY <3>1, RecordsAssumption DEF CrashInv
    <3>3. ASSUME counted'
          PROVE cause' = "none" /\ crashes' = StoredCrashes' /\ (safe_fail' <=> crashes' >= CRASH_LOOP_THRESHOLD)
      <4>1. counted /\ o = "ok"
        BY <3>1, <3>3
      <4>2. flash'.crash = 0 /\ safe_fail' = FALSE /\ crashes' = 0
        BY <1>2, <2>1, <3>1, <4>1
      <4>3. cause' = "none"
        BY <1>3, <4>1 DEF CrashInv
      <4> QED
        BY <4>2, <4>3, RecordsAssumption DEF StoredCrashes
    <3> QED
      BY <1>3, <3>2, <3>3 DEF CrashInv, CrashCount
  <2>2. CASE storing.rec # "crash"
    BY <1>1, <1>2, <1>3, <2>2 DEF CrashInv, CrashCount, StoredCrashes, crashVars
  <2> QED
    BY <2>1, <2>2
<1>6. ListIsDurable' /\ InForceIsDurable' /\ RunInForce'
  BY <1>2, <1>3, <1>4, KeepsDurable
<1> QED
  BY <1>2, <1>3, <1>4, <1>5, <1>6 DEF Keeps, QueueOK

LEMMA RecordsStep == RecordsInv /\ [PersistNext]_persistVars => RecordsInv'
<1> SUFFICES ASSUME RecordsInv, [PersistNext]_persistVars PROVE RecordsInv'
  OBVIOUS
<1>1. CASE UNCHANGED persistVars
  <2>1. Loaded' = Loaded
    BY <1>1 DEF persistVars, bootVars, Loaded
  <2>2. InForceIsDurable' /\ RunInForce'
    BY <1>1, <2>1 DEF RecordsInv, persistVars, bootVars, recordVars, seat, InForceIsDurable,
                      InForceIsStored, RunInForce, InForce
  <2>3. StoringOK' /\ CrashInv'
    BY <1>1 DEF RecordsInv, persistVars, bootVars, recordVars, crashVars, StoringOK, CrashInv,
                CrashCount, StoredCrashes
  <2> QED
    BY <1>1, <2>2, <2>3 DEF RecordsInv, persistVars, bootVars, recordVars, seat, RecordsOK,
                            QueueOK, ListIsDurable, AcceptedIsDurable
<1> QED
  BY <1>1, BootInv, ConfigLoadInv, CalibrationLoadInv, AuthlistLoadInv, CrashStateInv, ResetInv,
     RequestsInv, StoreReturnsInv DEF PersistNext

(***************************************************************************)
(* The records, whatever the cards, the widths of the counts, the bounds   *)
(* and the mix of requests: which of them have been loaded at each stage   *)
(* of the boot, and what each handler leaves in RAM and flash.             *)
(***************************************************************************)
THEOREM RecordsInvariant == PersistSpec => []RecordsInv
BY RecordsInitInv, RecordsStep, PTL DEF PersistSpec

\* Through every step of the boot, the setters and their stores, the ones that fail and the
\* ones a reset cuts off: rfid_authlist_contains accepts no card that a restart would not
\* know, but for the one card rfid_authlist_add has entered and is still storing; if that
\* store fails the card is gone from the list in the same step.
THEOREM AcceptedCardsAreDurable == PersistSpec => []ListIsDurable
BY RecordsInvariant, PTL DEF RecordsInv

\* What the tasks and the ADC interrupt use is what a restart would load, at every stage
\* of the boot and through every setter and its store, but for the record being stored, as
\* long as no store has failed.
THEOREM WhatIsInForceIsDurable == PersistSpec => []InForceIsDurable
BY RecordsInvariant, PTL DEF RecordsInv

\* crash_state_boot_increment refuses to charge exactly at the threshold, also when resets
\* of other kinds fall between a watchdog's and the reading of its flags.
THEOREM CrashLoopIsCaught == PersistSpec => []CrashLoopCaught
<1>1. RecordsInv => CrashLoopCaught
  BY DEF RecordsInv, CrashInv, CrashLoopCaught
<1> QED
  BY <1>1, RecordsInvariant, PTL

-----------------------------------------------------------------------------
(* The two ring logs, for every geometry of the ring: sectors and slots. *)

LEMMA DivMod ==
  ASSUME NEW P \in Nat \ {0}, NEW i \in Nat
  PROVE  /\ i \div P \in Nat /\ i % P \in 0..(P - 1)
         /\ i = P * (i \div P) + (i % P)
<1>1. i \div P \in Nat
  OBVIOUS
<1>2. i % P \in 0..(P - 1)
  OBVIOUS
<1>3. i = P * (i \div P) + (i % P)
  OBVIOUS
<1> QED
  BY <1>1, <1>2, <1>3

LEMMA Multiple ==
  ASSUME NEW P \in Nat \ {0}, NEW a \in Nat, NEW b \in Nat, a < b
  PROVE  P * a + P <= P * b /\ P * a \in Nat /\ P * b \in Nat
<1>1. P * (b - a - 1) >= 0
  OBVIOUS
<1>2. P * (b - a - 1) = P * b - P * a - P
  OBVIOUS
<1> QED
  BY <1>1, <1>2

LEMMA ModNear ==
  ASSUME NEW N \in Nat \ {0}, NEW a \in Nat
  PROVE  /\ a < N => a % N = a
         /\ N <= a /\ a < 2 * N => a % N = a - N
<1> DEFINE q == a \div N
           r == a % N
<1>1. q \in Nat /\ r \in 0..(N - 1) /\ a = N * q + r
  BY DivMod
<1> HIDE DEF q, r
<1>2. N * 0 = 0 /\ N * 1 = N /\ N * 2 = 2 * N
  OBVIOUS
<1>3. q > 0 => N <= N * q
  BY <1>1, <1>2, Multiple
<1>4. q > 1 => N + N <= N * q
  BY <1>1, <1>2, Multiple
<1>5. q = 0 \/ q = 1 \/ q > 1
  BY <1>1
<1>6. (a < N => r = a) /\ (N <= a /\ a < 2 * N => r = a - N)
  BY <1>1, <1>2, <1>3, <1>4, <1>5
<1> QED
  BY <1>6 DEF r

\* A sector is the P slots from its first one.
LEMMA SectorSpan ==
  ASSUME NEW P \in Nat \ {0}, NEW h \in Nat, h % P = 0, NEW j \in Nat
  PROVE  j \div P = h \div P <=> h <= j /\ j < h + P
<1> DEFINE q == h \div P
           s == j \div P
           r == j % P
<1>1. q \in Nat /\ h = P * q
  BY DivMod
<1>2. s \in Nat /\ r \in 0..(P - 1) /\ j = P * s + r
  BY DivMod
<1> HIDE DEF q, s, r
<1>3. s < q => P * s + P <= P * q
  BY <1>1, <1>2, Multiple
<1>4. q < s => P * q + P <= P * s
  BY <1>1, <1>2, Multiple
<1>5. s = q <=> h <= j /\ j < h + P
  BY <1>1, <1>2, <1>3, <1>4
<1> QED
  BY <1>5 DEF q, s

\* A slot that is not the first of its sector follows one of the same sector.
LEMMA SectorFollows ==
  ASSUME NEW P \in Nat \ {0}, NEW i \in Nat, i % P # 0
  PROVE  i > 0 /\ (i - 1) \div P = i \div P
<1> DEFINE q == i \div P
           r == i % P
<1>1. q \in Nat /\ r \in 1..(P - 1) /\ i = P * q + r
  BY DivMod
<1> HIDE DEF q, r
<1>2. P * q \in Nat
  BY <1>1
<1>3. (P * q) % P = 0 /\ (P * q) \div P = q
  BY <1>1
<1>4. (i - 1) \div P = (P * q) \div P
  <2> DEFINE h == P * q
  <2>1. h \in Nat /\ h % P = 0 /\ i - 1 \in Nat /\ h <= i - 1 /\ i - 1 < h + P
    BY <1>1, <1>2, <1>3
  <2> HIDE DEF h
  <2>2. (i - 1) \div P = h \div P
    BY <2>1, SectorSpan
  <2> QED
    BY <2>2 DEF h
<1> QED
  BY <1>1, <1>2, <1>3, <1>4 DEF q

\* Every slot of the ring has the first slot of its sector in the ring.
LEMMA SectorFirst ==
  ASSUME NEW P \in Nat \ {0}, NEW i \in Nat
  PROVE  \E k \in 0..i : k % P = 0 /\ k \div P = i \div P
<1> DEFINE q == i \div P
<1>1. q \in Nat /\ P * q \in 0..i
  BY DivMod
<1> HIDE DEF q
<1>2. (P * q) % P = 0 /\ (P * q) \div P = q
  BY <1>1
<1> QED
  BY <1>1, <1>2 DEF q

\* The last sector ends with the ring.
LEMMA LastSector ==
  ASSUME NEW P \in Nat \ {0}, NEW S \in Nat, NEW h \in 0..(S * P - 1), h % P = 0
  PROVE  h + P <= S * P
<1>1. h \in Nat /\ h \div P \in Nat /\ h = P * (h \div P)
  BY DivMod
<1>2. S * P = P * S /\ P * S \in Nat
  OBVIOUS
<1>3. h \div P < S
  <2>1. SUFFICES ASSUME ~(h \div P < S) PROVE FALSE
    OBVIOUS
  <2>2. P * S <= P * (h \div P)
    BY <1>1, <2>1, Multiple
  <2> QED
    BY <1>1, <1>2, <2>2
<1> QED
  BY <1>1, <1>2, <1>3, Multiple

-----------------------------------------------------------------------------
(* One ring of S sectors: what its cells hold when nothing has disturbed it. *)

Keyed    == [kind : {"blank", "garbage", "valid"}, boot : Nat, ts : Nat]
Unused   == [kind |-> "blank", boot |-> 0, ts |-> 0]
Spoilt   == [kind |-> "garbage", boot |-> 0, ts |-> 0]
Places(S) == 0..(S * PER_SECTOR - 1)
IsValid(f, i) == f[i].kind = "valid"
NotNewer(a, b) == a.boot < b.boot \/ (a.boot = b.boot /\ a.ts <= b.ts)
Step(S, h) == IF h + 1 = S * PER_SECTOR THEN 0 ELSE h + 1
Steps(S, h, k) == IF k <= h THEN h - k ELSE h - k + S * PER_SECTOR
SameSector(i, j) == i \div PER_SECTOR = j \div PER_SECTOR

\* l holds the newest record, the last of those with its key.
IsLast(S, f, l) ==
  /\ l \in Places(S) /\ IsValid(f, l)
  /\ \A j \in Places(S) : IsValid(f, j) =>
       NotNewer(f[j], f[l]) /\ (j > l => ~NotNewer(f[l], f[j]))

\* h is where a scan of f puts the head.
IsHead(S, f, h) ==
  \/ h = 0 /\ \A j \in Places(S) : ~IsValid(f, j)
  \/ \E l \in Places(S) : IsLast(S, f, l) /\ h = Step(S, l)

\* A sector whose first slot is blank is blank as a whole: the append probes no other.
ProbeIsEnough(S, f) ==
  \A k, i \in Places(S) : k % PER_SECTOR = 0 /\ SameSector(i, k) /\ f[k] = Unused => f[i] = Unused

\* Ahead of a head within a sector, the rest of the sector is blank.
AheadIsBlank(S, f, h) ==
  h % PER_SECTOR # 0 => \A i \in Places(S) : h <= i /\ SameSector(i, h) => f[i] = Unused

\* The n slots before the head hold records.
BehindIsValid(S, f, h, n) == \A k \in 1..n : IsValid(f, Steps(S, h, k))

Ordered(S, f, h, n) ==
  /\ h \in Places(S) /\ n \in 0..(S * PER_SECTOR - PER_SECTOR)
  /\ IsHead(S, f, h) /\ ProbeIsEnough(S, f)
  /\ AheadIsBlank(S, f, h) /\ BehindIsValid(S, f, h, n)

RingAssumption(S) == S \in Nat /\ S > 1

LEMMA PlacesFacts ==
  ASSUME NEW S, RingAssumption(S)
  PROVE  /\ S * PER_SECTOR \in Nat /\ S * PER_SECTOR >= 2 * PER_SECTOR
         /\ PER_SECTOR \in Nat /\ PER_SECTOR > 0 /\ Places(S) \subseteq Nat
<1>1. PER_SECTOR \in Nat \ {0}
  BY PersistAssumption
<1>2. S * PER_SECTOR = PER_SECTOR * S /\ PER_SECTOR * 1 = PER_SECTOR
  BY <1>1 DEF RingAssumption
<1>3. PER_SECTOR * 1 + PER_SECTOR <= PER_SECTOR * S /\ PER_SECTOR * S \in Nat
  BY <1>1, Multiple DEF RingAssumption
<1> QED
  BY <1>1, <1>2, <1>3 DEF Places

\* The sectors of a ring, in the terms of the lemmas below.
LEMMA SectorFacts ==
  ASSUME NEW S, RingAssumption(S), NEW h \in Places(S)
  PROVE  /\ Step(S, h) \in Places(S)
         /\ \A k \in 1..(S * PER_SECTOR) : Steps(S, h, k) \in Places(S)
         /\ h % PER_SECTOR = 0 =>
              /\ h + PER_SECTOR <= S * PER_SECTOR
              /\ \A j \in Places(S) : SameSector(j, h) <=> h <= j /\ j < h + PER_SECTOR
         /\ h % PER_SECTOR # 0 => h > 0 /\ SameSector(h - 1, h)
         /\ \E k \in Places(S) : k <= h /\ k % PER_SECTOR = 0 /\ SameSector(k, h)
<1>1. PER_SECTOR \in Nat \ {0} /\ S \in Nat /\ h \in Nat /\ h \in 0..(S * PER_SECTOR - 1)
  BY PlacesFacts, PersistAssumption DEF RingAssumption, Places
<1>2. Step(S, h) \in Places(S) /\ \A k \in 1..(S * PER_SECTOR) : Steps(S, h, k) \in Places(S)
  BY <1>1, PlacesFacts DEF Places, Step, Steps
<1>3. h % PER_SECTOR = 0 => h + PER_SECTOR <= S * PER_SECTOR
  BY <1>1, LastSector
<1>4. ASSUME h % PER_SECTOR = 0, NEW j \in Places(S)
      PROVE  SameSector(j, h) <=> h <= j /\ j < h + PER_SECTOR
  BY <1>1, <1>4, SectorSpan, PlacesFacts DEF SameSector
<1>5. h % PER_SECTOR # 0 => h > 0 /\ SameSector(h - 1, h)
  BY <1>1, SectorFollows DEF SameSector
<1>6. \E k \in Places(S) : k <= h /\ k % PER_SECTOR = 0 /\ SameSector(k, h)
  <2>1. PICK k \in 0..h : k % PER_SECTOR = 0 /\ k \div PER_SECTOR = h \div PER_SECTOR
    BY <1>1, SectorFirst
  <2>2. k \in Places(S) /\ k <= h /\ SameSector(k, h)
    BY <1>1, <2>1, PlacesFacts DEF Places, SameSector
  <2> QED
    BY <2>1, <2>2
<1> QED
  BY <1>2, <1>3, <1>4, <1>5, <1>6

\* Where a slot lies from the head.
LEMMA HeadFacts ==
  ASSUME NEW S, RingAssumption(S), NEW h \in Places(S)
  PROVE  /\ Steps(S, Step(S, h), 1) = h
         /\ Step(S, h) = 0 \/ Step(S, h) = h + 1
         /\ \A l \in Places(S) : h = Step(S, l) => l = Steps(S, h, 1)
         /\ \A k \in 2..(S * PER_SECTOR) : Steps(S, Step(S, h), k) = Steps(S, h, k - 1)
         /\ \A k \in 1..(S * PER_SECTOR - PER_SECTOR) :
              /\ Steps(S, h, k) # h
              /\ h % PER_SECTOR = 0 => ~SameSector(Steps(S, h, k), h)
<1>1. h \in Nat /\ h < S * PER_SECTOR /\ S * PER_SECTOR \in Nat
  BY PlacesFacts DEF Places
<1>2. /\ Steps(S, Step(S, h), 1) = h
      /\ Step(S, h) = 0 \/ Step(S, h) = h + 1
      /\ \A l \in Places(S) : h = Step(S, l) => l = Steps(S, h, 1)
      /\ \A k \in 2..(S * PER_SECTOR) : Steps(S, Step(S, h), k) = Steps(S, h, k - 1)
  BY <1>1 DEF Places, Step, Steps
<1>3. ASSUME NEW k \in 1..(S * PER_SECTOR - PER_SECTOR)
      PROVE  /\ Steps(S, h, k) # h
             /\ h % PER_SECTOR = 0 => ~SameSector(Steps(S, h, k), h)
  <2>1. Steps(S, h, k) \in Places(S) /\ k \in Nat /\ k >= 1
    BY <1>1, PlacesFacts, SectorFacts
  <2>2. ~(h <= Steps(S, h, k) /\ Steps(S, h, k) < h + PER_SECTOR)
    BY <1>1, <2>1, PlacesFacts DEF Steps
  <2>3. Steps(S, h, k) # h
    BY <1>1, <2>1, <2>2, PlacesFacts
  <2> QED
    BY <2>1, <2>2, <2>3, SectorFacts
<1> QED
  BY <1>2, <1>3

\* The newest record is the one before the head.
LEMMA LastIsBehind ==
  ASSUME NEW S, RingAssumption(S), NEW f, NEW h \in Places(S), IsHead(S, f, h)
  PROVE  \/ h = 0 /\ \A j \in Places(S) : ~IsValid(f, j)
         \/ IsLast(S, f, Steps(S, h, 1)) /\ (h # 0 => Steps(S, h, 1) = h - 1)
<1>1. ASSUME NEW l \in Places(S), IsLast(S, f, l), h = Step(S, l)
      PROVE  IsLast(S, f, Steps(S, h, 1)) /\ (h # 0 => Steps(S, h, 1) = h - 1)
  <2>1. Steps(S, h, 1) = l
    BY <1>1, HeadFacts
  <2>2. h # 0 => l = h - 1
    BY <1>1, PlacesFacts DEF Step, Places
  <2> QED
    BY <1>1, <2>1, <2>2
<1> QED
  BY <1>1 DEF IsHead, IsLast

\* One sector has one first slot.
LEMMA OneFirst ==
  ASSUME NEW S, RingAssumption(S), NEW h \in Places(S), NEW k \in Places(S),
         h % PER_SECTOR = 0, k % PER_SECTOR = 0, SameSector(k, h)
  PROVE  k = h
<1>1. h <= k /\ k <= h
  BY SectorFacts DEF SameSector
<1> QED
  BY <1>1, PlacesFacts

\* A failed or interrupted erase of the sector of the head: its cells are old or hold no
\* record, and if the first is blank all are.
LEMMA EraseOrdered ==
  ASSUME NEW S, RingAssumption(S), NEW f, NEW g, NEW h, NEW n, Ordered(S, f, h, n),
         h % PER_SECTOR = 0,
         \A i \in Places(S) : ~SameSector(i, h) => g[i] = f[i],
         \A i \in Places(S) : SameSector(i, h) => g[i] = f[i] \/ ~IsValid(g, i),
         g[h] = Unused => \A i \in Places(S) : SameSector(i, h) => g[i] = Unused
  PROVE  Ordered(S, g, h, n)
<1>1. h \in Places(S) /\ n \in 0..(S * PER_SECTOR - PER_SECTOR)
  BY DEF Ordered
<1>2. \A k \in 1..(S * PER_SECTOR - PER_SECTOR) :
        Steps(S, h, k) \in Places(S) /\ g[Steps(S, h, k)] = f[Steps(S, h, k)]
  <2> TAKE k \in 1..(S * PER_SECTOR - PER_SECTOR)
  <2>1. k \in 1..(S * PER_SECTOR)
    BY PlacesFacts
  <2>2. Steps(S, h, k) \in Places(S)
    BY <1>1, <2>1, SectorFacts
  <2>3. ~SameSector(Steps(S, h, k), h)
    BY <1>1, HeadFacts
  <2> QED
    BY <2>2, <2>3
<1>3. IsHead(S, g, h)
  <2>1. CASE h = 0 /\ \A j \in Places(S) : ~IsValid(f, j)
    BY <2>1 DEF IsHead, IsValid
  <2>2. CASE IsLast(S, f, Steps(S, h, 1))
    <3> DEFINE l == Steps(S, h, 1)
    <3>1. l \in Places(S) /\ g[l] = f[l]
      BY <1>1, <1>2, PlacesFacts
    <3>2. h = Step(S, l)
      BY <1>1, <2>2, PlacesFacts DEF Step, Steps, Places
    <3> HIDE DEF l
    <3>3. IsLast(S, f, l)
      BY <2>2 DEF l
    <3>4. IsLast(S, g, l)
      BY <3>1, <3>3 DEF IsLast, IsValid
    <3> QED
      BY <3>1, <3>2, <3>4 DEF IsHead
  <2> QED
    BY <1>1, <2>1, <2>2, LastIsBehind DEF Ordered
<1>4. ProbeIsEnough(S, g)
  <2> SUFFICES ASSUME NEW k \in Places(S), NEW i \in Places(S), k % PER_SECTOR = 0,
                      SameSector(i, k), g[k] = Unused
               PROVE  g[i] = Unused
    BY DEF ProbeIsEnough
  <2>1. CASE SameSector(k, h)
    <3>1. k = h
      BY <1>1, <2>1, OneFirst
    <3> QED
      BY <3>1
  <2>2. CASE ~SameSector(k, h)
    <3>1. ~SameSector(i, h)
      BY <2>2 DEF SameSector
    <3> QED
      BY <2>2, <3>1 DEF Ordered, ProbeIsEnough
  <2> QED
    BY <2>1, <2>2
<1>5. BehindIsValid(S, g, h, n)
  BY <1>1, <1>2, PlacesFacts DEF Ordered, BehindIsValid, IsValid
<1> QED
  BY <1>1, <1>3, <1>4, <1>5 DEF Ordered, AheadIsBlank

\* A change that leaves every record and adds none.
LEMMA TouchedOrdered ==
  ASSUME NEW S, RingAssumption(S), NEW f, NEW g, NEW h, NEW n, Ordered(S, f, h, n),
         \A i \in Places(S) : IF IsValid(f, i) THEN g[i] = f[i] ELSE ~IsValid(g, i),
         ProbeIsEnough(S, g), AheadIsBlank(S, g, h)
  PROVE  Ordered(S, g, h, n)
<1>1. h \in Places(S) /\ n \in 0..(S * PER_SECTOR - PER_SECTOR)
  BY DEF Ordered
<1>2. \A j \in Places(S) : IsValid(g, j) <=> IsValid(f, j)
  BY DEF IsValid
<1>3. \A l : IsLast(S, f, l) => IsLast(S, g, l)
  BY <1>2 DEF IsLast
<1>4. IsHead(S, g, h)
  BY <1>2, <1>3 DEF Ordered, IsHead
<1>5. \A k \in 1..n : Steps(S, h, k) \in Places(S)
  BY <1>1, SectorFacts, PlacesFacts
<1>6. BehindIsValid(S, g, h, n)
  BY <1>2, <1>5 DEF Ordered, BehindIsValid
<1> QED
  BY <1>1, <1>4, <1>6 DEF Ordered

\* The ring before the program command of an append, and whether the record fits the order.
Wiped(f, h)      == [i \in DOMAIN f |-> IF SameSector(i, h) THEN Unused ELSE f[i]]
Prepared(f, h)   == IF h % PER_SECTOR = 0 /\ f[h] # Unused THEN Wiped(f, h) ELSE f
InOrder(S, f, h, e) ==
  LET last == f[Steps(S, h, 1)]
  IN  last.kind = "valid" => NotNewer(last, e) /\ (h = 0 => last # e)

\* At and behind the head its sector is blank when the program command comes.
LEMMA PreparedFacts ==
  ASSUME NEW S, RingAssumption(S), NEW f \in [Places(S) -> Keyed], NEW h, NEW n,
         Ordered(S, f, h, n)
  PROVE  /\ Prepared(f, h) \in [Places(S) -> Keyed]
         /\ \A i \in Places(S) : h <= i /\ SameSector(i, h) => Prepared(f, h)[i] = Unused
         /\ \A i \in Places(S) : Prepared(f, h)[i] = f[i] \/
              (Prepared(f, h)[i] = Unused /\ h % PER_SECTOR = 0 /\ SameSector(i, h))
         /\ h % PER_SECTOR # 0 => Prepared(f, h) = f
<1>1. h \in Places(S)
  BY DEF Ordered
<1>2. Unused \in Keyed
  BY DEF Unused, Keyed
<1>3. CASE h % PER_SECTOR = 0 /\ f[h] # Unused
  <2>1. Prepared(f, h) = [i \in Places(S) |-> IF SameSector(i, h) THEN Unused ELSE f[i]]
    BY <1>3 DEF Prepared, Wiped
  <2> QED
    BY <1>2, <1>3, <2>1
<1>4. CASE h % PER_SECTOR = 0 /\ f[h] = Unused
  <2>1. Prepared(f, h) = f
    BY <1>4 DEF Prepared
  <2>2. \A i \in Places(S) : SameSector(i, h) => f[i] = Unused
    BY <1>1, <1>4 DEF Ordered, ProbeIsEnough
  <2> QED
    BY <2>1, <2>2
<1>5. CASE h % PER_SECTOR # 0
  BY <1>5 DEF Prepared, Ordered, AheadIsBlank
<1> QED
  BY <1>3, <1>4, <1>5

\* An append that is in order.
LEMMA AppendOrdered ==
  ASSUME NEW S, RingAssumption(S), NEW f \in [Places(S) -> Keyed], NEW h, NEW n,
         Ordered(S, f, h, n), NEW e \in Keyed, e.kind = "valid", InOrder(S, f, h, e),
         NEW g, g = [Prepared(f, h) EXCEPT ![h] = e]
  PROVE  Ordered(S, g, Step(S, h), IF n < S * PER_SECTOR - PER_SECTOR THEN n + 1 ELSE n)
<1> DEFINE top == S * PER_SECTOR - PER_SECTOR
           next == Step(S, h)
           more == IF n < top THEN n + 1 ELSE n
<1>1. h \in Places(S) /\ h \in Nat /\ n \in 0..top /\ top \in Nat
  BY PlacesFacts DEF Ordered
<1>2. next \in Places(S) /\ more \in 0..top /\ more <= n + 1
  BY <1>1, SectorFacts
<1>3. /\ g[h] = e
      /\ \A i \in Places(S) \ {h} : g[i] = Prepared(f, h)[i]
  BY <1>1, PreparedFacts
<1>4. /\ \A i \in Places(S) \ {h} :
           g[i] = f[i] \/ (g[i] = Unused /\ h % PER_SECTOR = 0 /\ SameSector(i, h))
      /\ \A i \in Places(S) : h < i /\ SameSector(i, h) => g[i] = Unused
      /\ h % PER_SECTOR # 0 => \A i \in Places(S) \ {h} : g[i] = f[i]
  BY <1>1, <1>3, PreparedFacts, PlacesFacts
<1> HIDE DEF top, next, more
<1>5. \/ h = 0 /\ \A j \in Places(S) : ~IsValid(f, j)
      \/ IsLast(S, f, Steps(S, h, 1)) /\ (h # 0 => Steps(S, h, 1) = h - 1)
  BY <1>1, LastIsBehind DEF Ordered
<1>6. IsHead(S, g, next)
  <2>1. IsValid(g, h)
    BY <1>3 DEF IsValid
  <2>2. ASSUME NEW j \in Places(S), IsValid(g, j), j # h
        PROVE  NotNewer(g[j], e) /\ (j > h => ~NotNewer(e, g[j]))
    <3> DEFINE l == Steps(S, h, 1)
    <3>1. g[j] = f[j] /\ IsValid(f, j)
      BY <1>4, <2>2 DEF IsValid, Unused
    <3>2. IsLast(S, f, l) /\ (h # 0 => l = h - 1)
      BY <1>5, <3>1
    <3>3. f[l].kind = "valid" /\ f[l] \in Keyed /\ f[j] \in Keyed
      BY <3>2 DEF IsLast, IsValid
    <3>4. NotNewer(f[l], e) /\ (h = 0 => f[l] # e)
      BY <3>3 DEF InOrder
    <3>5. NotNewer(f[j], f[l]) /\ (j > l => ~NotNewer(f[l], f[j]))
      BY <3>1, <3>2 DEF IsLast
    <3> HIDE DEF l
    <3>6. NotNewer(f[j], e)
      BY <3>3, <3>4, <3>5 DEF NotNewer, Keyed
    <3>7. ASSUME j > h PROVE ~NotNewer(e, f[j])
      <4>1. CASE h # 0
        <5>1. ~NotNewer(f[l], f[j])
          BY <1>1, <3>2, <3>5, <3>7, <4>1, PlacesFacts
        <5> QED
          BY <3>3, <3>4, <5>1 DEF NotNewer, Keyed
      <4>2. CASE h = 0
        <5>1. f[l].boot # e.boot \/ f[l].ts # e.ts
          BY <3>3, <3>4, <4>2 DEF Keyed
        <5> QED
          BY <3>3, <3>4, <3>5, <5>1 DEF NotNewer, Keyed
      <4> QED
        BY <4>1, <4>2
    <3> QED
      BY <3>1, <3>6, <3>7
  <2>3. NotNewer(e, e) /\ ~(h > h)
    BY <1>1 DEF NotNewer, Keyed
  <2>4. IsLast(S, g, h)
    BY <1>1, <1>3, <2>1, <2>2, <2>3 DEF IsLast
  <2> QED
    BY <1>1, <2>4 DEF IsHead, next
<1>7. ProbeIsEnough(S, g)
  <2> SUFFICES ASSUME NEW k \in Places(S), NEW i \in Places(S), k % PER_SECTOR = 0,
                      SameSector(i, k), g[k] = Unused
               PROVE  g[i] = Unused
    BY DEF ProbeIsEnough
  <2>1. k # h
    BY <1>3 DEF Unused
  <2>2. CASE ~SameSector(k, h)
    <3>1. ~SameSector(i, h) /\ i # h
      BY <2>2 DEF SameSector
    <3>2. f[k] = Unused
      BY <1>4, <2>1, <2>2
    <3>3. f[i] = Unused
      BY <3>2 DEF Ordered, ProbeIsEnough
    <3> QED
      BY <1>4, <3>1, <3>3
  <2>3. CASE SameSector(k, h)
    <3>1. h % PER_SECTOR # 0
      BY <1>1, <2>1, <2>3, OneFirst
    <3>2. f[k] = Unused
      BY <1>4, <2>1, <3>1
    <3>3. h > 0 /\ SameSector(h - 1, h)
      BY <1>1, <3>1, SectorFacts
    <3>4. h - 1 \in Places(S) /\ IsValid(f, h - 1)
      BY <1>5, <3>3, <1>1 DEF IsLast
    <3>5. SameSector(h - 1, k)
      BY <2>3, <3>3 DEF SameSector
    <3>6. f[h - 1] = Unused
      BY <3>2, <3>4, <3>5 DEF Ordered, ProbeIsEnough
    <3> QED
      BY <3>4, <3>6 DEF IsValid, Unused
  <2> QED
    BY <2>2, <2>3
<1>8. AheadIsBlank(S, g, next)
  <2> SUFFICES ASSUME next % PER_SECTOR # 0, NEW i \in Places(S), next <= i, SameSector(i, next)
               PROVE  g[i] = Unused
    BY DEF AheadIsBlank
  <2>1. next > 0 /\ SameSector(next - 1, next)
    BY <1>2, SectorFacts
  <2>2. next = h + 1
    BY <1>1, <2>1, HeadFacts DEF next
  <2>3. SameSector(i, h) /\ h < i
    BY <1>1, <2>1, <2>2, PlacesFacts DEF SameSector
  <2> QED
    BY <1>4, <2>3
<1>9. BehindIsValid(S, g, next, more)
  <2> SUFFICES ASSUME NEW k \in 1..more PROVE IsValid(g, Steps(S, next, k))
    BY DEF BehindIsValid
  <2>1. CASE k = 1
    BY <1>1, <1>3, <2>1, HeadFacts DEF next, IsValid
  <2>2. CASE k # 1
    <3>1. k \in 2..(S * PER_SECTOR) /\ k - 1 \in 1..n /\ k - 1 \in 1..top
      BY <1>1, <1>2, <2>2, PlacesFacts DEF top
    <3> DEFINE p == Steps(S, h, k - 1)
    <3>2. Steps(S, next, k) = p
      BY <1>1, <3>1, HeadFacts DEF next
    <3>3. p # h /\ (h % PER_SECTOR = 0 => ~SameSector(p, h))
      BY <1>1, <3>1, HeadFacts DEF top
    <3>4. p \in Places(S)
      BY <1>1, <3>1, SectorFacts, PlacesFacts DEF top
    <3>5. IsValid(f, p)
      BY <3>1 DEF Ordered, BehindIsValid
    <3> HIDE DEF p
    <3>6. g[p] = f[p]
      BY <1>4, <3>3, <3>4
    <3> QED
      BY <3>2, <3>5, <3>6 DEF IsValid
  <2> QED
    BY <2>1, <2>2
<1> QED
  BY <1>2, <1>6, <1>7, <1>8, <1>9 DEF Ordered, next, more, top

-----------------------------------------------------------------------------
(* The scan of a boot and the reader of the last records. *)

LEMMA NewestAreBehind ==
  ASSUME NEW S, RingAssumption(S), NEW f, NEW h, NEW n, Ordered(S, f, h, n),
         NEW good, good = {k \in 1..(S * PER_SECTOR) : IsValid(f, Steps(S, h, k))}
  PROVE  {k \in good : Cardinality({j \in good : j < k}) < n} = 1..n
<1>1. n \in Nat /\ n <= S * PER_SECTOR /\ S * PER_SECTOR \in Nat
  BY PlacesFacts DEF Ordered
<1>2. 1..n \subseteq good /\ good \subseteq 1..(S * PER_SECTOR)
  BY <1>1 DEF Ordered, BehindIsValid
<1>3. ASSUME NEW k \in 1..n PROVE Cardinality({j \in good : j < k}) < n
  <2> DEFINE below == {j \in good : j < k}
  <2>1. below = 1..(k - 1)
    BY <1>1, <1>2
  <2>2. Cardinality(1..(k - 1)) = k - 1
    BY <1>1, FS_Interval
  <2> HIDE DEF below
  <2>3. Cardinality(below) < n
    BY <1>1, <2>1, <2>2
  <2> QED
    BY <2>3 DEF below
<1>4. ASSUME NEW k \in good, k \notin 1..n PROVE ~(Cardinality({j \in good : j < k}) < n)
  <2> DEFINE below == {j \in good : j < k}
  <2>1. k \in Nat /\ k > n
    BY <1>1, <1>2, <1>4
  <2>2. 1..n \subseteq below /\ below \subseteq 1..(S * PER_SECTOR)
    BY <1>1, <1>2, <2>1
  <2>3. IsFiniteSet(1..(S * PER_SECTOR)) /\ Cardinality(1..n) = n
    BY <1>1, FS_Interval
  <2> HIDE DEF below
  <2>4. IsFiniteSet(below)
    BY <2>2, <2>3, FS_Subset
  <2>5. Cardinality(1..n) <= Cardinality(below) /\ Cardinality(below) \in Nat
    BY <2>2, <2>4, FS_Subset, FS_CardinalityType
  <2>6. ~(Cardinality(below) < n)
    BY <1>1, <2>3, <2>5
  <2> QED
    BY <2>6 DEF below
<1> QED
  BY <1>2, <1>3, <1>4

\* The arithmetic of the two logs' own operators.
LEMMA RingIndex ==
  ASSUME NEW S, RingAssumption(S), NEW h \in Places(S)
  PROVE  /\ (h + 1) % (S * PER_SECTOR) = Step(S, h)
         /\ \A k \in 1..(S * PER_SECTOR) :
              (h + (S * PER_SECTOR) - k) % (S * PER_SECTOR) = Steps(S, h, k)
<1> DEFINE N == S * PER_SECTOR
<1>1. N \in Nat \ {0} /\ h \in 0..(N - 1)
  BY PlacesFacts DEF Places
<1>2. (h + 1) % N = Step(S, h)
  BY <1>1, ModNear DEF Step
<1>3. ASSUME NEW k \in 1..N PROVE (h + N - k) % N = Steps(S, h, k)
  <2>1. h + N - k \in Nat /\ h + N - k < 2 * N
    BY <1>1
  <2>2. IF k <= h THEN N <= h + N - k ELSE h + N - k < N
    BY <1>1
  <2>3. IF k <= h THEN (h + N - k) % N = h + N - k - N ELSE (h + N - k) % N = h + N - k
    BY <1>1, <2>1, <2>2, ModNear
  <2> QED
    BY <1>1, <2>3 DEF Steps
<1> QED
  BY <1>2, <1>3

LEMMA LastIsUnique ==
  ASSUME NEW S, RingAssumption(S), NEW f, NEW l, IsLast(S, f, l),
         NEW top, top = {i \in {j \in Places(S) : IsValid(f, j)} :
                           \A j \in {k \in Places(S) : IsValid(f, k)} : NotNewer(f[j], f[i])}
  PROVE  (CHOOSE x \in top : \A y \in top : x >= y) = l
<1>1. l \in top
  BY DEF IsLast
<1>2. \A y \in top : l >= y
  BY PlacesFacts DEF IsLast
<1>3. \A x \in top : (\A y \in top : x >= y) => x = l
  BY <1>1, <1>2, PlacesFacts
<1> QED
  BY <1>1, <1>2, <1>3

-----------------------------------------------------------------------------
(* The steps of an append, as the two logs make them. *)

Rec(b, t) == [kind |-> "valid", boot |-> b, ts |-> t]

LEMMA PreparedType ==
  ASSUME NEW S, NEW f \in [Places(S) -> Keyed], NEW h
  PROVE  Prepared(f, h) \in [Places(S) -> Keyed]
<1>1. Unused \in Keyed
  BY DEF Unused, Keyed
<1>2. CASE h % PER_SECTOR = 0 /\ f[h] # Unused
  <2>1. Prepared(f, h) = [i \in Places(S) |-> IF SameSector(i, h) THEN Unused ELSE f[i]]
    BY <1>2 DEF Prepared, Wiped
  <2> QED
    BY <1>1, <2>1
<1>3. CASE ~(h % PER_SECTOR = 0 /\ f[h] # Unused)
  BY <1>3 DEF Prepared
<1> QED
  BY <1>2, <1>3

\* What programming leaves in the slot of the head.
Burnt(f, h, e) == [f EXCEPT ![h] = IF @ \in {Unused, e} THEN e ELSE Spoilt]

LEMMA BurntType ==
  ASSUME NEW S, NEW f \in [Places(S) -> Keyed], NEW h, NEW e \in Keyed
  PROVE  Burnt(f, h, e) \in [Places(S) -> Keyed]
<1>1. Spoilt \in Keyed
  BY DEF Spoilt, Keyed
<1> QED
  BY <1>1 DEF Burnt

\* In an ordered ring a record gets into a blank slot.
LEMMA BurntOrdered ==
  ASSUME NEW S, RingAssumption(S), NEW f \in [Places(S) -> Keyed], NEW h, NEW n,
         Ordered(S, f, h, n), NEW e \in Keyed, e.kind = "valid", InOrder(S, f, h, e)
  PROVE  Ordered(S, Burnt(Prepared(f, h), h, e), Step(S, h),
                 IF n < S * PER_SECTOR - PER_SECTOR THEN n + 1 ELSE n)
<1>1. h \in Places(S)
  BY DEF Ordered
<1>2. Prepared(f, h)[h] = Unused
  BY <1>1, PreparedFacts, PlacesFacts DEF SameSector
<1>3. Prepared(f, h) \in [Places(S) -> Keyed]
  BY PreparedType
<1>4. Burnt(Prepared(f, h), h, e) = [Prepared(f, h) EXCEPT ![h] = e]
  BY <1>1, <1>2, <1>3 DEF Burnt
<1> QED
  BY <1>4, AppendOrdered

\* An erase that is not followed by a record keeps the order.
LEMMA PreparedOrdered ==
  ASSUME NEW S, RingAssumption(S), NEW f \in [Places(S) -> Keyed], NEW h, NEW n,
         Ordered(S, f, h, n)
  PROVE  Ordered(S, Prepared(f, h), h, n)
<1> DEFINE g == Prepared(f, h)
<1>1. CASE h % PER_SECTOR # 0
  BY <1>1, PreparedFacts
<1>2. CASE h % PER_SECTOR = 0
  <2>1. h \in Places(S)
    BY DEF Ordered
  <2>2. \A i \in Places(S) : ~SameSector(i, h) => g[i] = f[i]
    BY PreparedFacts
  <2>3. \A i \in Places(S) : SameSector(i, h) => g[i] = Unused
    BY <1>2, <2>1, PreparedFacts, SectorFacts
  <2>4. \A i \in Places(S) : SameSector(i, h) => ~IsValid(g, i)
    BY <2>3 DEF IsValid, Unused
  <2> HIDE DEF g
  <2>5. Ordered(S, g, h, n)
    BY <1>2, <2>2, <2>3, <2>4, EraseOrdered
  <2> QED
    BY <2>5 DEF g
<1> QED
  BY <1>1, <1>2

-----------------------------------------------------------------------------
(* The session log. *)

SessionTyped ==
  /\ se_ring \in [Places(SE_SECTORS) -> Keyed] /\ se_stamp \in Nat
  /\ se_up \in BOOLEAN /\ se_sound \in BOOLEAN

\* The ring is in order, and the head in RAM is where it says.
SessionGood ==
  \E p : Ordered(SE_SECTORS, se_ring, p, se_kept) /\ (se_up => se_head = p)

\* What SessionLog calls a place, a sector, a cell.
LEMMA SessionTerms ==
  /\ RingAssumption(SE_SECTORS)
  /\ SessionLog!TOTAL = SE_SECTORS * PER_SECTOR
  /\ SessionLog!Blank = Unused /\ SessionLog!Garbage = Spoilt
  /\ \A i, j : SessionLog!Sector(i) = SessionLog!Sector(j) <=> SameSector(i, j)
  /\ \A h \in Places(SE_SECTORS) : /\ SessionLog!After(h) = Step(SE_SECTORS, h)
                              /\ \A k \in 1..(SE_SECTORS * PER_SECTOR) :
                                   SessionLog!Back(h, k) = Steps(SE_SECTORS, h, k)
<1>1. RingAssumption(SE_SECTORS)
  BY PersistAssumption DEF RingAssumption
<1>2. SessionLog!TOTAL = SE_SECTORS * PER_SECTOR
  BY DEF SessionLog!TOTAL
<1>3. SessionLog!Blank = Unused /\ SessionLog!Garbage = Spoilt
  BY DEF SessionLog!Blank, SessionLog!Garbage, Unused, Spoilt
<1>4. \A i, j : SessionLog!Sector(i) = SessionLog!Sector(j) <=> SameSector(i, j)
  BY DEF SessionLog!Sector, SameSector
<1>5. \A h \in Places(SE_SECTORS) : /\ SessionLog!After(h) = Step(SE_SECTORS, h)
                               /\ \A k \in 1..(SE_SECTORS * PER_SECTOR) :
                                    SessionLog!Back(h, k) = Steps(SE_SECTORS, h, k)
  BY <1>1, <1>2, RingIndex DEF SessionLog!After, SessionLog!Back
<1> QED
  BY <1>1, <1>2, <1>3, <1>4, <1>5

\* The scan finds the head of an ordered ring.
LEMMA SessionScan ==
  ASSUME NEW f, NEW p, NEW n, Ordered(SE_SECTORS, f, p, n)
  PROVE  SessionLog!ScanHead(f) = p
<1> DEFINE valid == {i \in Places(SE_SECTORS) : IsValid(f, i)}
           top == {i \in valid : \A j \in valid : NotNewer(f[j], f[i])}
<1>1. RingAssumption(SE_SECTORS) /\ SessionLog!TOTAL = SE_SECTORS * PER_SECTOR
  BY SessionTerms
<1>2. {i \in 0..(SessionLog!TOTAL - 1) : SessionLog!classify_record(f, i) = "valid"} = valid
  BY <1>1 DEF SessionLog!classify_record, Places, IsValid
<1>3. SessionLog!Latest(f) = CHOOSE x \in top : \A y \in top : x >= y
  BY <1>2 DEF SessionLog!Latest, SessionLog!Max, SessionLog!AtMost, NotNewer
<1>4. CASE p = 0 /\ \A j \in Places(SE_SECTORS) : ~IsValid(f, j)
  BY <1>1, <1>4 DEF SessionLog!ScanHead, SessionLog!classify_record, Places, IsValid
<1>5. ASSUME NEW l, IsLast(SE_SECTORS, f, l), p = Step(SE_SECTORS, l)
      PROVE  SessionLog!ScanHead(f) = p
  <2>0. top = {i \in {j \in Places(SE_SECTORS) : IsValid(f, j)} :
                 \A j \in {k \in Places(SE_SECTORS) : IsValid(f, k)} : NotNewer(f[j], f[i])}
    OBVIOUS
  <2> HIDE DEF top
  <2>1. SessionLog!Latest(f) = l
    BY <1>1, <1>3, <1>5, <2>0, LastIsUnique
  <2>2. l \in Places(SE_SECTORS) /\ \E i \in 0..(SessionLog!TOTAL - 1) : SessionLog!classify_record(f, i) = "valid"
    BY <1>1, <1>5 DEF IsLast, SessionLog!classify_record, Places, IsValid
  <2>3. SessionLog!After(l) = Step(SE_SECTORS, l)
    BY <2>2, SessionTerms
  <2> QED
    BY <1>5, <2>1, <2>2, <2>3 DEF SessionLog!ScanHead
<1> QED
  BY <1>4, <1>5 DEF Ordered, IsHead

\* Where the order stands, the scan and the reader agree with the head in RAM.
LEMMA SessionFacts ==
  ASSUME SessionGood, se_up
  PROVE  SessionLog!ScanHead(se_ring) = se_head /\ SessionLog!Newest(se_kept) = 1..se_kept
<1>1. Ordered(SE_SECTORS, se_ring, se_head, se_kept)
  BY DEF SessionGood
<1>2. SessionLog!ScanHead(se_ring) = se_head
  BY <1>1, SessionScan
<1> DEFINE back == [k \in 1..SessionLog!TOTAL |-> se_ring[SessionLog!Back(se_head, k)]]
           good == {k \in 1..SessionLog!TOTAL : back[k].kind = "valid"}
<1>3. se_head \in Places(SE_SECTORS) /\ SessionLog!TOTAL = SE_SECTORS * PER_SECTOR
  BY <1>1, SessionTerms DEF Ordered
<1>4. \A k \in 1..(SE_SECTORS * PER_SECTOR) : back[k] = se_ring[Steps(SE_SECTORS, se_head, k)]
  BY <1>3, SessionTerms
<1>5. good = {k \in 1..(SE_SECTORS * PER_SECTOR) : IsValid(se_ring, Steps(SE_SECTORS, se_head, k))}
  BY <1>3, <1>4 DEF IsValid
<1>6. SessionLog!Newest(se_kept) = {k \in good : Cardinality({j \in good : j < k}) < se_kept}
  BY DEF SessionLog!Newest, SessionLog!Cardinality, Cardinality
<1> HIDE DEF good
<1>7. {k \in good : Cardinality({j \in good : j < k}) < se_kept} = 1..se_kept
  <2>1. RingAssumption(SE_SECTORS)
    BY SessionTerms
  <2> QED
    BY ONLY <1>1, <1>5, <2>1, NewestAreBehind, SMTT(60)
<1>8. SessionLog!Newest(se_kept) = 1..se_kept
  BY <1>6, <1>7
<1> QED
  BY <1>2, <1>8

\* What the three ways an append ends have in common.
LEMMA SessionPrepares ==
  ASSUME NEW t, SessionLog!Append(t) \/ SessionLog!AppendEraseFails \/ SessionLog!AppendProgramFails(t)
  PROVE  /\ se_up /\ se_up' = se_up /\ se_stamp' = se_stamp
         /\ (IF SessionLog!NeedsErase THEN SessionLog!Erased(se_ring) ELSE se_ring)
              = Prepared(se_ring, se_head)
         /\ \A f, e : SessionLog!Burn(f, se_head, e) = Burnt(f, se_head, e)
         /\ SessionLog!Entry(se_stamp, t) = Rec(se_stamp, t)
<1>1. se_up /\ se_up' = se_up /\ se_stamp' = se_stamp
  BY DEF SessionLog!Append, SessionLog!AppendEraseFails, SessionLog!AppendProgramFails
<1>2. (IF SessionLog!NeedsErase THEN SessionLog!Erased(se_ring) ELSE se_ring)
        = Prepared(se_ring, se_head)
  BY SessionTerms DEF SessionLog!NeedsErase, SessionLog!AtStart, SessionLog!Erased, Prepared, Wiped
<1>3. \A f, e : SessionLog!Burn(f, se_head, e) = Burnt(f, se_head, e)
  BY SessionTerms DEF SessionLog!Burn, Burnt
<1>4. SessionLog!Entry(se_stamp, t) = Rec(se_stamp, t)
  BY DEF SessionLog!Entry, Rec
<1> QED
  BY <1>1, <1>2, <1>3, <1>4

\* What an erase that fails leaves.
LEMMA SessionHalfErased ==
  ASSUME SessionTyped, SessionLog!AppendEraseFails
  PROVE  /\ se_head % PER_SECTOR = 0
         /\ se_ring' \in [Places(SE_SECTORS) -> Keyed]
         /\ \A i \in Places(SE_SECTORS) : ~SameSector(i, se_head) => se_ring'[i] = se_ring[i]
         /\ \A i \in Places(SE_SECTORS) : se_ring'[i] = se_ring[i] \/ ~IsValid(se_ring', i)
         /\ se_sound' /\ se_ring'[se_head] = Unused =>
              \A i \in Places(SE_SECTORS) : SameSector(i, se_head) => se_ring'[i] = Unused
<1>1. /\ SessionLog!NeedsErase /\ se_ring' \in SessionLog!HalfErased(se_ring)
      /\ se_sound' => ~SessionLog!HiddenLeftover(se_ring')
  BY DEF SessionLog!AppendEraseFails
<1>2. se_head % PER_SECTOR = 0 /\ se_ring[se_head] # Unused
  BY <1>1, SessionTerms DEF SessionLog!NeedsErase, SessionLog!AtStart
<1>3. /\ se_ring' \in [Places(SE_SECTORS) -> Keyed]
      /\ \A i \in Places(SE_SECTORS) : ~SameSector(i, se_head) => se_ring'[i] = se_ring[i]
      /\ \A i \in Places(SE_SECTORS) :
           se_ring'[i] = se_ring[i] \/ se_ring'[i] \in {Unused, Spoilt}
  <2>1. CASE se_ring' = se_ring
    BY <2>1 DEF SessionTyped
  <2>2. CASE se_ring' # se_ring
    <3> DEFINE here == SessionLog!SectorOf(SessionLog!Sector(se_head))
    <3>1. PICK c \in [here -> {Unused, Spoilt}] :
            se_ring' = [i \in Places(SE_SECTORS) |-> IF i \in here THEN c[i] ELSE se_ring[i]]
      BY <1>1, <2>2, SessionTerms DEF SessionLog!HalfErased, SessionTyped
    <3>2. \A i \in here : SameSector(i, se_head)
      BY SessionTerms DEF SessionLog!SectorOf
    <3>3. Unused \in Keyed /\ Spoilt \in Keyed
      BY DEF Unused, Spoilt, Keyed
    <3> HIDE DEF here
    <3> QED
      BY <3>1, <3>2, <3>3 DEF SessionTyped
  <2> QED
    BY <2>1, <2>2
<1>4. \A i \in Places(SE_SECTORS) : se_ring'[i] = se_ring[i] \/ ~IsValid(se_ring', i)
  BY <1>3 DEF IsValid, Unused, Spoilt
<1>5. ASSUME se_sound', se_ring'[se_head] = Unused
      PROVE  \A i \in Places(SE_SECTORS) : SameSector(i, se_head) => se_ring'[i] = Unused
  <2>1. se_ring' = SessionLog!Erased(se_ring')
    BY <1>1, <1>2, <1>5, SessionTerms DEF SessionLog!HiddenLeftover
  <2>2. SessionLog!Erased(se_ring') = [i \in Places(SE_SECTORS) |->
          IF SameSector(i, se_head) THEN Unused ELSE se_ring'[i]]
    BY <1>3, SessionTerms DEF SessionLog!Erased
  <2> QED
    BY <2>1, <2>2
<1> QED
  BY <1>2, <1>3, <1>4, <1>5

\* Every step of the log.
SessionMoves(b, t) ==
  \/ SessionLog!event_log_init(b) \/ SessionLog!LogReset
  \/ SessionLog!Append(t) \/ SessionLog!AppendEraseFails \/ SessionLog!AppendProgramFails(t)

LEMMA SessionTypeStep ==
  ASSUME SessionTyped, NEW b \in Nat, NEW t \in Nat, SessionMoves(b, t)
  PROVE  SessionTyped' /\ (se_sound' => se_sound)
<1> USE DEF SessionTyped
<1>1. CASE SessionLog!event_log_init(b)
  BY <1>1 DEF SessionLog!event_log_init
<1>2. CASE SessionLog!LogReset
  BY <1>2 DEF SessionLog!LogReset
<1> DEFINE e == Rec(se_stamp, t)
           f == Prepared(se_ring, se_head)
<1>3. e \in Keyed /\ Spoilt \in Keyed /\ f \in [Places(SE_SECTORS) -> Keyed]
  BY PreparedType DEF Rec, Keyed, Spoilt
<1> HIDE DEF e, f
<1>4. \A r \in Keyed : Burnt(f, se_head, r) \in [Places(SE_SECTORS) -> Keyed]
  BY <1>3, BurntType
<1>5. CASE SessionLog!Append(t)
  <2>1. se_ring' = Burnt(f, se_head, e) /\ se_up' = se_up /\ se_stamp' = se_stamp
    BY <1>5, SessionPrepares DEF SessionLog!Append, e, f
  <2>2. se_sound' \in BOOLEAN /\ (se_sound' => se_sound)
    BY <1>5 DEF SessionLog!Append
  <2> QED
    BY <1>3, <1>4, <2>1, <2>2
<1>6. CASE SessionLog!AppendEraseFails
  <2>1. se_sound' \in BOOLEAN /\ (se_sound' => se_sound) /\ UNCHANGED <<se_up, se_stamp>>
    BY <1>6 DEF SessionLog!AppendEraseFails
  <2> QED
    BY <1>6, <2>1, SessionHalfErased
<1>7. CASE SessionLog!AppendProgramFails(t)
  <2>1. /\ se_ring' \in {f, Burnt(f, se_head, e), Burnt(f, se_head, Spoilt)}
        /\ se_up' = se_up /\ se_stamp' = se_stamp
    BY <1>7, SessionPrepares, SessionTerms DEF SessionLog!AppendProgramFails, e, f
  <2>2. se_sound' \in BOOLEAN /\ (se_sound' => se_sound)
    BY <1>7 DEF SessionLog!AppendProgramFails
  <2> QED
    BY <1>3, <1>4, <2>1, <2>2
<1> QED
  BY <1>1, <1>2, <1>5, <1>6, <1>7 DEF SessionMoves

LEMMA SessionGoodStep ==
  ASSUME SessionTyped, SessionGood, se_sound', NEW b \in Nat, NEW t \in Nat, SessionMoves(b, t)
  PROVE  SessionGood'
<1>0. RingAssumption(SE_SECTORS) /\ se_ring \in [Places(SE_SECTORS) -> Keyed]
  BY SessionTerms DEF SessionTyped
<1>1. PICK p : Ordered(SE_SECTORS, se_ring, p, se_kept) /\ (se_up => se_head = p)
  BY DEF SessionGood
<1>2. CASE SessionLog!event_log_init(b)
  <2>1. se_head' = p /\ UNCHANGED <<se_ring, se_kept>>
    BY <1>1, <1>2, SessionScan DEF SessionLog!event_log_init
  <2> QED
    BY <1>1, <2>1 DEF SessionGood
<1>3. CASE SessionLog!LogReset
  BY <1>1, <1>3 DEF SessionLog!LogReset, SessionGood
<1>4. CASE SessionLog!Append(t)
  <2> DEFINE e == Rec(se_stamp, t)
  <2>1. se_up /\ p = se_head /\ se_head \in Places(SE_SECTORS)
    BY <1>1, <1>4, SessionPrepares DEF Ordered
  <2>2. se_ring' = Burnt(Prepared(se_ring, se_head), se_head, e)
    BY <1>4, SessionPrepares DEF SessionLog!Append
  <2>3. /\ se_head' = Step(SE_SECTORS, se_head)
        /\ se_kept' = IF se_kept < SE_SECTORS * PER_SECTOR - PER_SECTOR
                       THEN se_kept + 1 ELSE se_kept
    BY <1>4, <2>1, SessionTerms DEF SessionLog!Append
  <2>4. e \in Keyed /\ e.kind = "valid"
    BY DEF Rec, Keyed, SessionTyped
  <2>5. InOrder(SE_SECTORS, se_ring, se_head, e)
    <3>1. SessionLog!Back(se_head, 1) = Steps(SE_SECTORS, se_head, 1)
      BY <1>0, <2>1, SessionTerms, PlacesFacts
    <3>2. LET last == se_ring[SessionLog!Back(se_head, 1)]
          IN  last.kind = "valid" => SessionLog!Follows(last, e)
      BY <1>4, SessionPrepares DEF SessionLog!Append
    <3> QED
      BY <3>1, <3>2 DEF InOrder, SessionLog!Follows, SessionLog!AtMost, NotNewer
  <2> HIDE DEF e
  <2>6. Ordered(SE_SECTORS, se_ring', se_head', se_kept')
    BY <1>0, <1>1, <2>1, <2>2, <2>3, <2>4, <2>5, BurntOrdered
  <2> QED
    BY <2>6 DEF SessionGood
<1>5. CASE SessionLog!AppendEraseFails
  <2>1. p = se_head /\ UNCHANGED <<se_head, se_kept>>
    BY <1>1, <1>5 DEF SessionLog!AppendEraseFails
  <2>2. Ordered(SE_SECTORS, se_ring', se_head, se_kept)
    BY <1>0, <1>1, <1>5, <2>1, SessionHalfErased, EraseOrdered
  <2> QED
    BY <2>1, <2>2 DEF SessionGood
<1>6. CASE SessionLog!AppendProgramFails(t)
  <2>1. se_up /\ p = se_head /\ UNCHANGED <<se_head, se_kept>>
    BY <1>1, <1>6 DEF SessionLog!AppendProgramFails
  <2>2. se_ring' = Prepared(se_ring, se_head)
    <3> DEFINE f == IF SessionLog!NeedsErase THEN SessionLog!Erased(se_ring) ELSE se_ring
    <3>1. se_sound' = (se_sound /\ se_ring' = f)
      BY <1>6 DEF SessionLog!AppendProgramFails
    <3>2. f = Prepared(se_ring, se_head)
      BY <1>6, SessionPrepares
    <3> HIDE DEF f
    <3> QED
      BY <3>1, <3>2
  <2>3. Ordered(SE_SECTORS, se_ring', se_head, se_kept)
    BY <1>0, <1>1, <2>1, <2>2, PreparedOrdered
  <2> QED
    BY <2>1, <2>3 DEF SessionGood
<1> QED
  BY <1>2, <1>3, <1>4, <1>5, <1>6 DEF SessionMoves

-----------------------------------------------------------------------------
(* The event log. *)

EventTyped ==
  /\ ev_ring \in [Places(EV_SECTORS) -> Keyed] /\ ev_stamp \in Nat
  /\ ev_up \in BOOLEAN /\ ev_sound \in BOOLEAN

\* The ring is in order, and the head in RAM is where it says.
EventGood ==
  \E p : Ordered(EV_SECTORS, ev_ring, p, ev_kept) /\ (ev_up => ev_head = p)

\* What EventLog calls a place, a sector, a cell.
LEMMA EventTerms ==
  /\ RingAssumption(EV_SECTORS)
  /\ EventLog!TOTAL = EV_SECTORS * PER_SECTOR
  /\ EventLog!Blank = Unused /\ EventLog!Garbage = Spoilt
  /\ \A i, j : EventLog!Sector(i) = EventLog!Sector(j) <=> SameSector(i, j)
  /\ \A h \in Places(EV_SECTORS) : /\ EventLog!After(h) = Step(EV_SECTORS, h)
                              /\ \A k \in 1..(EV_SECTORS * PER_SECTOR) :
                                   EventLog!Back(h, k) = Steps(EV_SECTORS, h, k)
<1>1. RingAssumption(EV_SECTORS)
  BY PersistAssumption DEF RingAssumption
<1>2. EventLog!TOTAL = EV_SECTORS * PER_SECTOR
  BY DEF EventLog!TOTAL
<1>3. EventLog!Blank = Unused /\ EventLog!Garbage = Spoilt
  BY DEF EventLog!Blank, EventLog!Garbage, Unused, Spoilt
<1>4. \A i, j : EventLog!Sector(i) = EventLog!Sector(j) <=> SameSector(i, j)
  BY DEF EventLog!Sector, SameSector
<1>5. \A h \in Places(EV_SECTORS) : /\ EventLog!After(h) = Step(EV_SECTORS, h)
                               /\ \A k \in 1..(EV_SECTORS * PER_SECTOR) :
                                    EventLog!Back(h, k) = Steps(EV_SECTORS, h, k)
  BY <1>1, <1>2, RingIndex DEF EventLog!After, EventLog!Back
<1> QED
  BY <1>1, <1>2, <1>3, <1>4, <1>5

\* The scan finds the head of an ordered ring.
LEMMA EventScan ==
  ASSUME NEW f, NEW p, NEW n, Ordered(EV_SECTORS, f, p, n)
  PROVE  EventLog!ScanHead(f) = p
<1> DEFINE valid == {i \in Places(EV_SECTORS) : IsValid(f, i)}
           top == {i \in valid : \A j \in valid : NotNewer(f[j], f[i])}
<1>1. RingAssumption(EV_SECTORS) /\ EventLog!TOTAL = EV_SECTORS * PER_SECTOR
  BY EventTerms
<1>2. {i \in 0..(EventLog!TOTAL - 1) : EventLog!classify_record(f, i) = "valid"} = valid
  BY <1>1 DEF EventLog!classify_record, Places, IsValid
<1>3. EventLog!Latest(f) = CHOOSE x \in top : \A y \in top : x >= y
  BY <1>2 DEF EventLog!Latest, EventLog!Max, EventLog!AtMost, NotNewer
<1>4. CASE p = 0 /\ \A j \in Places(EV_SECTORS) : ~IsValid(f, j)
  BY <1>1, <1>4 DEF EventLog!ScanHead, EventLog!classify_record, Places, IsValid
<1>5. ASSUME NEW l, IsLast(EV_SECTORS, f, l), p = Step(EV_SECTORS, l)
      PROVE  EventLog!ScanHead(f) = p
  <2>0. top = {i \in {j \in Places(EV_SECTORS) : IsValid(f, j)} :
                 \A j \in {k \in Places(EV_SECTORS) : IsValid(f, k)} : NotNewer(f[j], f[i])}
    OBVIOUS
  <2> HIDE DEF top
  <2>1. EventLog!Latest(f) = l
    BY <1>1, <1>3, <1>5, <2>0, LastIsUnique
  <2>2. l \in Places(EV_SECTORS) /\ \E i \in 0..(EventLog!TOTAL - 1) : EventLog!classify_record(f, i) = "valid"
    BY <1>1, <1>5 DEF IsLast, EventLog!classify_record, Places, IsValid
  <2>3. EventLog!After(l) = Step(EV_SECTORS, l)
    BY <2>2, EventTerms
  <2> QED
    BY <1>5, <2>1, <2>2, <2>3 DEF EventLog!ScanHead
<1> QED
  BY <1>4, <1>5 DEF Ordered, IsHead

\* Where the order stands, the scan and the reader agree with the head in RAM.
LEMMA EventFacts ==
  ASSUME EventGood, ev_up
  PROVE  EventLog!ScanHead(ev_ring) = ev_head /\ EventLog!Newest(ev_kept) = 1..ev_kept
<1>1. Ordered(EV_SECTORS, ev_ring, ev_head, ev_kept)
  BY DEF EventGood
<1>2. EventLog!ScanHead(ev_ring) = ev_head
  BY <1>1, EventScan
<1> DEFINE back == [k \in 1..EventLog!TOTAL |-> ev_ring[EventLog!Back(ev_head, k)]]
           good == {k \in 1..EventLog!TOTAL : back[k].kind = "valid"}
<1>3. ev_head \in Places(EV_SECTORS) /\ EventLog!TOTAL = EV_SECTORS * PER_SECTOR
  BY <1>1, EventTerms DEF Ordered
<1>4. \A k \in 1..(EV_SECTORS * PER_SECTOR) : back[k] = ev_ring[Steps(EV_SECTORS, ev_head, k)]
  BY <1>3, EventTerms
<1>5. good = {k \in 1..(EV_SECTORS * PER_SECTOR) : IsValid(ev_ring, Steps(EV_SECTORS, ev_head, k))}
  BY <1>3, <1>4 DEF IsValid
<1>6. EventLog!Newest(ev_kept) = {k \in good : Cardinality({j \in good : j < k}) < ev_kept}
  BY DEF EventLog!Newest, EventLog!Cardinality, Cardinality
<1> HIDE DEF good
<1>7. {k \in good : Cardinality({j \in good : j < k}) < ev_kept} = 1..ev_kept
  <2>1. RingAssumption(EV_SECTORS)
    BY EventTerms
  <2> QED
    BY ONLY <1>1, <1>5, <2>1, NewestAreBehind, SMTT(60)
<1>8. EventLog!Newest(ev_kept) = 1..ev_kept
  BY <1>6, <1>7
<1> QED
  BY <1>2, <1>8

\* What the three ways an append ends have in common.
LEMMA EventPrepares ==
  ASSUME NEW t, EventLog!Append(t) \/ EventLog!AppendEraseFails \/ EventLog!AppendProgramFails(t)
  PROVE  /\ ev_up /\ ev_up' = ev_up /\ ev_stamp' = ev_stamp
         /\ (IF EventLog!NeedsErase THEN EventLog!Erased(ev_ring) ELSE ev_ring)
              = Prepared(ev_ring, ev_head)
         /\ \A f, e : EventLog!Burn(f, ev_head, e) = Burnt(f, ev_head, e)
         /\ EventLog!Entry(ev_stamp, t) = Rec(ev_stamp, t)
<1>1. ev_up /\ ev_up' = ev_up /\ ev_stamp' = ev_stamp
  BY DEF EventLog!Append, EventLog!AppendEraseFails, EventLog!AppendProgramFails
<1>2. (IF EventLog!NeedsErase THEN EventLog!Erased(ev_ring) ELSE ev_ring)
        = Prepared(ev_ring, ev_head)
  BY EventTerms DEF EventLog!NeedsErase, EventLog!AtStart, EventLog!Erased, Prepared, Wiped
<1>3. \A f, e : EventLog!Burn(f, ev_head, e) = Burnt(f, ev_head, e)
  BY EventTerms DEF EventLog!Burn, Burnt
<1>4. EventLog!Entry(ev_stamp, t) = Rec(ev_stamp, t)
  BY DEF EventLog!Entry, Rec
<1> QED
  BY <1>1, <1>2, <1>3, <1>4

\* What an erase that fails leaves.
LEMMA EventHalfErased ==
  ASSUME EventTyped, EventLog!AppendEraseFails
  PROVE  /\ ev_head % PER_SECTOR = 0
         /\ ev_ring' \in [Places(EV_SECTORS) -> Keyed]
         /\ \A i \in Places(EV_SECTORS) : ~SameSector(i, ev_head) => ev_ring'[i] = ev_ring[i]
         /\ \A i \in Places(EV_SECTORS) : ev_ring'[i] = ev_ring[i] \/ ~IsValid(ev_ring', i)
         /\ ev_sound' /\ ev_ring'[ev_head] = Unused =>
              \A i \in Places(EV_SECTORS) : SameSector(i, ev_head) => ev_ring'[i] = Unused
<1>1. /\ EventLog!NeedsErase /\ ev_ring' \in EventLog!HalfErased(ev_ring)
      /\ ev_sound' => ~EventLog!HiddenLeftover(ev_ring')
  BY DEF EventLog!AppendEraseFails
<1>2. ev_head % PER_SECTOR = 0 /\ ev_ring[ev_head] # Unused
  BY <1>1, EventTerms DEF EventLog!NeedsErase, EventLog!AtStart
<1>3. /\ ev_ring' \in [Places(EV_SECTORS) -> Keyed]
      /\ \A i \in Places(EV_SECTORS) : ~SameSector(i, ev_head) => ev_ring'[i] = ev_ring[i]
      /\ \A i \in Places(EV_SECTORS) :
           ev_ring'[i] = ev_ring[i] \/ ev_ring'[i] \in {Unused, Spoilt}
  <2>1. CASE ev_ring' = ev_ring
    BY <2>1 DEF EventTyped
  <2>2. CASE ev_ring' # ev_ring
    <3> DEFINE here == EventLog!SectorOf(EventLog!Sector(ev_head))
    <3>1. PICK c \in [here -> {Unused, Spoilt}] :
            ev_ring' = [i \in Places(EV_SECTORS) |-> IF i \in here THEN c[i] ELSE ev_ring[i]]
      BY <1>1, <2>2, EventTerms DEF EventLog!HalfErased, EventTyped
    <3>2. \A i \in here : SameSector(i, ev_head)
      BY EventTerms DEF EventLog!SectorOf
    <3>3. Unused \in Keyed /\ Spoilt \in Keyed
      BY DEF Unused, Spoilt, Keyed
    <3> HIDE DEF here
    <3> QED
      BY <3>1, <3>2, <3>3 DEF EventTyped
  <2> QED
    BY <2>1, <2>2
<1>4. \A i \in Places(EV_SECTORS) : ev_ring'[i] = ev_ring[i] \/ ~IsValid(ev_ring', i)
  BY <1>3 DEF IsValid, Unused, Spoilt
<1>5. ASSUME ev_sound', ev_ring'[ev_head] = Unused
      PROVE  \A i \in Places(EV_SECTORS) : SameSector(i, ev_head) => ev_ring'[i] = Unused
  <2>1. ev_ring' = EventLog!Erased(ev_ring')
    BY <1>1, <1>2, <1>5, EventTerms DEF EventLog!HiddenLeftover
  <2>2. EventLog!Erased(ev_ring') = [i \in Places(EV_SECTORS) |->
          IF SameSector(i, ev_head) THEN Unused ELSE ev_ring'[i]]
    BY <1>3, EventTerms DEF EventLog!Erased
  <2> QED
    BY <2>1, <2>2
<1> QED
  BY <1>2, <1>3, <1>4, <1>5

\* Every step of the log.
EventMoves(b, t) ==
  \/ EventLog!event_log_init(b) \/ EventLog!LogReset
  \/ EventLog!Append(t) \/ EventLog!AppendEraseFails \/ EventLog!AppendProgramFails(t)

LEMMA EventTypeStep ==
  ASSUME EventTyped, NEW b \in Nat, NEW t \in Nat, EventMoves(b, t)
  PROVE  EventTyped' /\ (ev_sound' => ev_sound)
<1> USE DEF EventTyped
<1>1. CASE EventLog!event_log_init(b)
  BY <1>1 DEF EventLog!event_log_init
<1>2. CASE EventLog!LogReset
  BY <1>2 DEF EventLog!LogReset
<1> DEFINE e == Rec(ev_stamp, t)
           f == Prepared(ev_ring, ev_head)
<1>3. e \in Keyed /\ Spoilt \in Keyed /\ f \in [Places(EV_SECTORS) -> Keyed]
  BY PreparedType DEF Rec, Keyed, Spoilt
<1> HIDE DEF e, f
<1>4. \A r \in Keyed : Burnt(f, ev_head, r) \in [Places(EV_SECTORS) -> Keyed]
  BY <1>3, BurntType
<1>5. CASE EventLog!Append(t)
  <2>1. ev_ring' = Burnt(f, ev_head, e) /\ ev_up' = ev_up /\ ev_stamp' = ev_stamp
    BY <1>5, EventPrepares DEF EventLog!Append, e, f
  <2>2. ev_sound' \in BOOLEAN /\ (ev_sound' => ev_sound)
    BY <1>5 DEF EventLog!Append
  <2> QED
    BY <1>3, <1>4, <2>1, <2>2
<1>6. CASE EventLog!AppendEraseFails
  <2>1. ev_sound' \in BOOLEAN /\ (ev_sound' => ev_sound) /\ UNCHANGED <<ev_up, ev_stamp>>
    BY <1>6 DEF EventLog!AppendEraseFails
  <2> QED
    BY <1>6, <2>1, EventHalfErased
<1>7. CASE EventLog!AppendProgramFails(t)
  <2>1. /\ ev_ring' \in {f, Burnt(f, ev_head, e), Burnt(f, ev_head, Spoilt)}
        /\ ev_up' = ev_up /\ ev_stamp' = ev_stamp
    BY <1>7, EventPrepares, EventTerms DEF EventLog!AppendProgramFails, e, f
  <2>2. ev_sound' \in BOOLEAN /\ (ev_sound' => ev_sound)
    BY <1>7 DEF EventLog!AppendProgramFails
  <2> QED
    BY <1>3, <1>4, <2>1, <2>2
<1> QED
  BY <1>1, <1>2, <1>5, <1>6, <1>7 DEF EventMoves

LEMMA EventGoodStep ==
  ASSUME EventTyped, EventGood, ev_sound', NEW b \in Nat, NEW t \in Nat, EventMoves(b, t)
  PROVE  EventGood'
<1>0. RingAssumption(EV_SECTORS) /\ ev_ring \in [Places(EV_SECTORS) -> Keyed]
  BY EventTerms DEF EventTyped
<1>1. PICK p : Ordered(EV_SECTORS, ev_ring, p, ev_kept) /\ (ev_up => ev_head = p)
  BY DEF EventGood
<1>2. CASE EventLog!event_log_init(b)
  <2>1. ev_head' = p /\ UNCHANGED <<ev_ring, ev_kept>>
    BY <1>1, <1>2, EventScan DEF EventLog!event_log_init
  <2> QED
    BY <1>1, <2>1 DEF EventGood
<1>3. CASE EventLog!LogReset
  BY <1>1, <1>3 DEF EventLog!LogReset, EventGood
<1>4. CASE EventLog!Append(t)
  <2> DEFINE e == Rec(ev_stamp, t)
  <2>1. ev_up /\ p = ev_head /\ ev_head \in Places(EV_SECTORS)
    BY <1>1, <1>4, EventPrepares DEF Ordered
  <2>2. ev_ring' = Burnt(Prepared(ev_ring, ev_head), ev_head, e)
    BY <1>4, EventPrepares DEF EventLog!Append
  <2>3. /\ ev_head' = Step(EV_SECTORS, ev_head)
        /\ ev_kept' = IF ev_kept < EV_SECTORS * PER_SECTOR - PER_SECTOR
                       THEN ev_kept + 1 ELSE ev_kept
    BY <1>4, <2>1, EventTerms DEF EventLog!Append
  <2>4. e \in Keyed /\ e.kind = "valid"
    BY DEF Rec, Keyed, EventTyped
  <2>5. InOrder(EV_SECTORS, ev_ring, ev_head, e)
    <3>1. EventLog!Back(ev_head, 1) = Steps(EV_SECTORS, ev_head, 1)
      BY <1>0, <2>1, EventTerms, PlacesFacts
    <3>2. LET last == ev_ring[EventLog!Back(ev_head, 1)]
          IN  last.kind = "valid" => EventLog!Follows(last, e)
      BY <1>4, EventPrepares DEF EventLog!Append
    <3> QED
      BY <3>1, <3>2 DEF InOrder, EventLog!Follows, EventLog!AtMost, NotNewer
  <2> HIDE DEF e
  <2>6. Ordered(EV_SECTORS, ev_ring', ev_head', ev_kept')
    BY <1>0, <1>1, <2>1, <2>2, <2>3, <2>4, <2>5, BurntOrdered
  <2> QED
    BY <2>6 DEF EventGood
<1>5. CASE EventLog!AppendEraseFails
  <2>1. p = ev_head /\ UNCHANGED <<ev_head, ev_kept>>
    BY <1>1, <1>5 DEF EventLog!AppendEraseFails
  <2>2. Ordered(EV_SECTORS, ev_ring', ev_head, ev_kept)
    BY <1>0, <1>1, <1>5, <2>1, EventHalfErased, EraseOrdered
  <2> QED
    BY <2>1, <2>2 DEF EventGood
<1>6. CASE EventLog!AppendProgramFails(t)
  <2>1. ev_up /\ p = ev_head /\ UNCHANGED <<ev_head, ev_kept>>
    BY <1>1, <1>6 DEF EventLog!AppendProgramFails
  <2>2. ev_ring' = Prepared(ev_ring, ev_head)
    <3> DEFINE f == IF EventLog!NeedsErase THEN EventLog!Erased(ev_ring) ELSE ev_ring
    <3>1. ev_sound' = (ev_sound /\ ev_ring' = f)
      BY <1>6 DEF EventLog!AppendProgramFails
    <3>2. f = Prepared(ev_ring, ev_head)
      BY <1>6, EventPrepares
    <3> HIDE DEF f
    <3> QED
      BY <3>1, <3>2
  <2>3. Ordered(EV_SECTORS, ev_ring', ev_head, ev_kept)
    BY <1>0, <1>1, <2>1, <2>2, PreparedOrdered
  <2> QED
    BY <2>1, <2>3 DEF EventGood
<1> QED
  BY <1>2, <1>3, <1>4, <1>5, <1>6 DEF EventMoves

-----------------------------------------------------------------------------
(* The card list inside the event log, and the two logs together. *)

\* Sector by sector, what a store of the card list may do: nothing, lay a record over the
\* first slots, or leave the sector blank.
Relaid(S, f, g) ==
  \A k \in Places(S) : k % PER_SECTOR = 0 =>
    \/ \A i \in Places(S) : SameSector(i, k) => g[i] = f[i]
    \/ g[k] = Spoilt /\ \A i \in Places(S) : SameSector(i, k) => g[i] \in {Unused, Spoilt}
    \/ \A i \in Places(S) : SameSector(i, k) => g[i] = Unused

\* Where it costs the log no record, the order stands: the head lies in a sector with a
\* record, or at the start of one.
LEMMA RelaidOrdered ==
  ASSUME NEW S, RingAssumption(S), NEW f, NEW g, NEW h, NEW n, Ordered(S, f, h, n),
         Relaid(S, f, g), \A i \in Places(S) : IsValid(f, i) => g[i] = f[i]
  PROVE  Ordered(S, g, h, n)
<1>1. h \in Places(S)
  BY DEF Ordered
<1>2. \A i \in Places(S) : g[i] = f[i] \/ g[i] \in {Unused, Spoilt}
  <2> TAKE i \in Places(S)
  <2>1. PICK k \in Places(S) : k % PER_SECTOR = 0 /\ SameSector(k, i)
    BY SectorFacts
  <2>2. SameSector(i, k)
    BY <2>1 DEF SameSector
  <2> QED
    BY <2>1, <2>2 DEF Relaid
<1>3. \A i \in Places(S) : IF IsValid(f, i) THEN g[i] = f[i] ELSE ~IsValid(g, i)
  BY <1>2 DEF IsValid, Unused, Spoilt
<1>4. ProbeIsEnough(S, g)
  <2> SUFFICES ASSUME NEW k \in Places(S), NEW i \in Places(S), k % PER_SECTOR = 0,
                      SameSector(i, k), g[k] = Unused
               PROVE  g[i] = Unused
    BY DEF ProbeIsEnough
  <2>1. Unused # Spoilt /\ SameSector(k, k)
    BY DEF Unused, Spoilt, SameSector
  <2>2. \/ g[k] = f[k] /\ g[i] = f[i]
        \/ g[i] = Unused
    BY <2>1 DEF Relaid
  <2>3. f[k] = Unused => f[i] = Unused
    BY DEF Ordered, ProbeIsEnough
  <2> QED
    BY <2>2, <2>3
<1>5. AheadIsBlank(S, g, h)
  <2> SUFFICES ASSUME h % PER_SECTOR # 0, NEW i \in Places(S), h <= i, SameSector(i, h)
               PROVE  g[i] = Unused
    BY DEF AheadIsBlank
  <2>1. h > 0 /\ SameSector(h - 1, h)
    BY <1>1, SectorFacts
  <2>2. IsLast(S, f, h - 1)
    BY <1>1, <2>1, LastIsBehind DEF Ordered
  <2>3. h - 1 \in Places(S) /\ IsValid(f, h - 1) /\ g[h - 1] = f[h - 1]
    BY <2>2 DEF IsLast
  <2>4. PICK k \in Places(S) : k % PER_SECTOR = 0 /\ SameSector(k, h)
    BY <1>1, SectorFacts
  <2>5. SameSector(i, k) /\ SameSector(h - 1, k)
    BY <2>1, <2>4 DEF SameSector
  <2>6. g[h - 1] \notin {Unused, Spoilt}
    BY <2>3 DEF IsValid, Unused, Spoilt
  <2>7. g[i] = f[i]
    BY <2>3, <2>4, <2>5, <2>6 DEF Relaid
  <2> QED
    BY <2>7 DEF Ordered, AheadIsBlank
<1> QED
  BY <1>3, <1>4, <1>5, TouchedOrdered

LEMMA RelaidTwice ==
  ASSUME NEW S, RingAssumption(S), NEW f, NEW g, NEW r, Relaid(S, f, g), Relaid(S, g, r)
  PROVE  Relaid(S, f, r)
<1> SUFFICES ASSUME NEW k \in Places(S), k % PER_SECTOR = 0
             PROVE  \/ \A i \in Places(S) : SameSector(i, k) => r[i] = f[i]
                    \/ r[k] = Spoilt /\ \A i \in Places(S) :
                                          SameSector(i, k) => r[i] \in {Unused, Spoilt}
                    \/ \A i \in Places(S) : SameSector(i, k) => r[i] = Unused
  BY DEF Relaid
<1>1. \/ \A i \in Places(S) : SameSector(i, k) => r[i] = g[i]
      \/ r[k] = Spoilt /\ \A i \in Places(S) : SameSector(i, k) => r[i] \in {Unused, Spoilt}
      \/ \A i \in Places(S) : SameSector(i, k) => r[i] = Unused
  BY DEF Relaid
<1>2. \/ \A i \in Places(S) : SameSector(i, k) => g[i] = f[i]
      \/ g[k] = Spoilt /\ \A i \in Places(S) : SameSector(i, k) => g[i] \in {Unused, Spoilt}
      \/ \A i \in Places(S) : SameSector(i, k) => g[i] = Unused
  BY DEF Relaid
<1>3. SameSector(k, k)
  BY DEF SameSector
<1> QED
  BY <1>1, <1>2, <1>3

\* What a store of the list leaves in its sectors.
LEMMA ListIsLaid ==
  ASSUME NEW f \in [Places(EV_SECTORS) -> Keyed], NEW s
  PROVE  /\ WithList(f, s, "record") \in [Places(EV_SECTORS) -> Keyed]
         /\ WithList(f, s, "blank") \in [Places(EV_SECTORS) -> Keyed]
         /\ Relaid(EV_SECTORS, f, WithList(f, s, "record"))
         /\ Relaid(EV_SECTORS, f, WithList(f, s, "blank"))
<1> DEFINE g == WithList(f, s, "record")
           b == WithList(f, s, "blank")
           cells == ListCells(s)
<1>1. Unused \in Keyed /\ Spoilt \in Keyed
  BY DEF Unused, Spoilt, Keyed
<1>2. /\ g = [i \in Places(EV_SECTORS) |-> IF i \div PER_SECTOR # s THEN f[i]
                                           ELSE IF i \in cells THEN Spoilt ELSE Unused]
      /\ b = [i \in Places(EV_SECTORS) |-> IF i \div PER_SECTOR # s THEN f[i] ELSE Unused]
  BY EventTerms DEF WithList, EventLog!Sector
<1>3. \A k \in Places(EV_SECTORS) : k % PER_SECTOR = 0 /\ k \div PER_SECTOR = s => k \in cells
  BY EventTerms, PersistAssumption DEF ListCells, EventLog!SectorOf, EventLog!Sector, Places
<1> HIDE DEF g, b, cells
<1>4. g \in [Places(EV_SECTORS) -> Keyed] /\ b \in [Places(EV_SECTORS) -> Keyed]
  BY <1>1, <1>2
<1>5. Relaid(EV_SECTORS, f, g)
  <2> SUFFICES ASSUME NEW k \in Places(EV_SECTORS), k % PER_SECTOR = 0
               PROVE  \/ \A i \in Places(EV_SECTORS) : SameSector(i, k) => g[i] = f[i]
                      \/ g[k] = Spoilt /\ \A i \in Places(EV_SECTORS) :
                                            SameSector(i, k) => g[i] \in {Unused, Spoilt}
    BY DEF Relaid
  <2> QED
    BY <1>2, <1>3 DEF SameSector
<1>6. Relaid(EV_SECTORS, f, b)
  BY <1>2 DEF Relaid, SameSector
<1> QED
  BY <1>4, <1>5, <1>6 DEF g, b

LEMMA ListKeepsOrder ==
  ASSUME EventTyped, overlapped \in BOOLEAN, listAt \in 0..2, NEW o, ListHitsLog(o)
  PROVE  /\ EventTyped' /\ listAt' \in 0..2 /\ ev_sound' = ev_sound
         /\ EventGood /\ ~overlapped' => EventGood'
<1> DEFINE to == IF listAt = 1 THEN 2 ELSE 1
           one == WithList(ev_ring, to, "record")
           two == WithList(one, listAt, "blank")
           bare == WithList(ev_ring, to, "blank")
           S == EV_SECTORS
<1>1. UNCHANGED <<ev_head, ev_up, ev_stamp, ev_kept, ev_sound>> /\ listAt' \in 0..2
  BY DEF ListHitsLog
<1>2. ev_ring' \in {ev_ring, one, two, bare}
  BY DEF ListHitsLog
<1>3. RingAssumption(S) /\ ev_ring \in [Places(S) -> Keyed]
  BY EventTerms DEF EventTyped
<1>4. /\ one \in [Places(S) -> Keyed] /\ Relaid(S, ev_ring, one)
      /\ bare \in [Places(S) -> Keyed] /\ Relaid(S, ev_ring, bare)
  BY <1>3, ListIsLaid
<1>5. two \in [Places(S) -> Keyed] /\ Relaid(S, one, two)
  BY <1>4, ListIsLaid
<1> HIDE DEF one, two, bare
<1>6. Relaid(S, ev_ring, two)
  BY <1>3, <1>4, <1>5, RelaidTwice
<1>7. Relaid(S, ev_ring, ev_ring)
  BY DEF Relaid
<1>8. ev_ring' \in [Places(S) -> Keyed] /\ Relaid(S, ev_ring, ev_ring')
  BY <1>2, <1>3, <1>4, <1>5, <1>6, <1>7
<1>9. ~overlapped' => \A i \in DOMAIN ev_ring : IsValid(ev_ring, i) => ev_ring'[i] = ev_ring[i]
  BY DEF ListHitsLog, IsValid
<1>10. ASSUME EventGood, ~overlapped' PROVE EventGood'
  <2>1. PICK p : Ordered(S, ev_ring, p, ev_kept) /\ (ev_up => ev_head = p)
    BY <1>10 DEF EventGood
  <2>2. Ordered(S, ev_ring', p, ev_kept)
    BY <1>3, <1>8, <1>9, <1>10, <2>1, RelaidOrdered
  <2> QED
    BY <1>1, <2>1, <2>2 DEF EventGood
<1> QED
  BY <1>1, <1>8, <1>10 DEF EventTyped

\* A chip out of the factory, or full of something else.
LEMMA FreshOrdered ==
  ASSUME NEW S, RingAssumption(S), NEW c \in {Unused, Spoilt}, NEW f,
         f = [i \in Places(S) |-> c]
  PROVE  f \in [Places(S) -> Keyed] /\ Ordered(S, f, 0, 0)
<1>1. c \in Keyed /\ c.kind # "valid"
  BY DEF Unused, Spoilt, Keyed
<1>2. 0 \in Places(S) /\ 0 % PER_SECTOR = 0 /\ 0 \in 0..(S * PER_SECTOR - PER_SECTOR)
  BY PlacesFacts DEF Places
<1>3. IsHead(S, f, 0)
  BY <1>1 DEF IsHead, IsValid
<1>4. BehindIsValid(S, f, 0, 0)
  BY DEF BehindIsValid
<1>5. ProbeIsEnough(S, f) /\ AheadIsBlank(S, f, 0)
  BY <1>2 DEF ProbeIsEnough, AheadIsBlank
<1> QED
  BY <1>1, <1>2, <1>3, <1>4, <1>5 DEF Ordered

\* What the two logs keep, next to the records: the rings are in order as long as nothing
\* has disturbed them.
LogsInv ==
  /\ RecordsInv
  /\ bc \in Nat /\ listAt \in 0..2
  /\ SessionTyped /\ EventTyped
  /\ se_sound => SessionGood
  /\ ev_sound /\ ~overlapped => EventGood

LEMMA LogsInitInv == PersistInit => LogsInv
<1> SUFFICES ASSUME PersistInit PROVE LogsInv
  OBVIOUS
<1>1. RecordsInv
  BY RecordsInitInv
<1>2. PICK c \in {Unused, Spoilt} : se_ring = [i \in Places(SE_SECTORS) |-> c]
  BY SessionTerms DEF PersistInit, SessionLog!LogInit, Places
<1>3. PICK d \in {Unused, Spoilt} : ev_ring = [i \in Places(EV_SECTORS) |-> d]
  BY EventTerms DEF PersistInit, EventLog!LogInit, Places
<1>4. /\ se_head = 0 /\ se_up = FALSE /\ se_stamp = 0 /\ se_kept = 0 /\ se_sound = TRUE
      /\ ev_head = 0 /\ ev_up = FALSE /\ ev_stamp = 0 /\ ev_kept = 0 /\ ev_sound = TRUE
      /\ bc = 0 /\ listAt = 0
  BY DEF PersistInit, SessionLog!LogInit, EventLog!LogInit
<1>5. se_ring \in [Places(SE_SECTORS) -> Keyed] /\ Ordered(SE_SECTORS, se_ring, 0, 0)
  BY <1>2, SessionTerms, FreshOrdered
<1>6. ev_ring \in [Places(EV_SECTORS) -> Keyed] /\ Ordered(EV_SECTORS, ev_ring, 0, 0)
  BY <1>3, EventTerms, FreshOrdered
<1>7. SessionTyped /\ SessionGood
  BY <1>4, <1>5 DEF SessionTyped, SessionGood
<1>8. EventTyped /\ EventGood
  BY <1>4, <1>6 DEF EventTyped, EventGood
<1> QED
  BY <1>1, <1>4, <1>7, <1>8 DEF LogsInv

LEMMA StampIsNat ==
  ASSUME RecordsOK, NEW ok \in BOOLEAN
  PROVE  BootStamp(ok) \in Nat
<1>1. NextCount \in Nat
  BY RecordsAssumption DEF RecordsOK, NextCount
<1> QED
  BY <1>1, RecordsAssumption DEF BootStamp

LEMMA SessionLogStep ==
  ASSUME SessionTyped, se_sound => SessionGood, NEW b \in Nat, NEW t \in Nat, SessionMoves(b, t)
  PROVE  SessionTyped' /\ (se_sound' => SessionGood')
<1>1. SessionTyped' /\ (se_sound' => se_sound)
  BY SessionTypeStep
<1>2. ASSUME se_sound' PROVE SessionGood'
  BY <1>1, <1>2, SessionGoodStep
<1> QED
  BY <1>1, <1>2

LEMMA EventLogStep ==
  ASSUME EventTyped, NEW b \in Nat, NEW t \in Nat, EventMoves(b, t)
  PROVE  EventTyped' /\ ((ev_sound => EventGood) /\ ev_sound' => EventGood')
<1>1. EventTyped' /\ (ev_sound' => ev_sound)
  BY EventTypeStep
<1>2. ASSUME ev_sound => EventGood, ev_sound' PROVE EventGood'
  BY <1>1, <1>2, EventGoodStep
<1> QED
  BY <1>1, <1>2

\* Steps that leave the rings alone.
LEMMA LogsUntouched ==
  ASSUME LogsInv, RecordsInv', bc' \in Nat, UNCHANGED <<ev, se, seat>>
  PROVE  LogsInv'
<1>1. SessionTyped' /\ EventTyped' /\ listAt' \in 0..2
  BY DEF LogsInv, ev, se, seat, SessionTyped, EventTyped
<1>2. (SessionGood' <=> SessionGood) /\ (EventGood' <=> EventGood)
  BY DEF ev, se, SessionGood, EventGood
<1> QED
  BY <1>1, <1>2 DEF LogsInv, ev, se, seat

LEMMA ListStepsInv ==
  ASSUME LogsInv, RecordsInv', NEW o, ListHitsLog(o),
         UNCHANGED <<bc, se>>
  PROVE  LogsInv'
<1> USE DEF LogsInv
<1>1. overlapped \in BOOLEAN /\ (~overlapped' => ~overlapped)
  BY ListHits DEF RecordsInv
<1>2. /\ EventTyped' /\ listAt' \in 0..2 /\ ev_sound' = ev_sound
      /\ EventGood /\ ~overlapped' => EventGood'
  BY <1>1, ListKeepsOrder
<1>3. SessionTyped' /\ (se_sound' => SessionGood')
  BY DEF se, SessionTyped, SessionGood
<1> QED
  BY <1>1, <1>2, <1>3

\* The boot and the resets.
LEMMA LogsBootInv ==
  LogsInv /\ RecordsInv' /\ (\/ Begin \/ W25qInitFails \/ BootCount \/ BootConfigLoad
                             \/ CalibrationLoad \/ AuthlistLoad \/ LogsInit \/ CrashState
                             \/ Reset) => LogsInv'
<1> SUFFICES ASSUME LogsInv, RecordsInv',
                    \/ Begin \/ W25qInitFails \/ BootCount \/ BootConfigLoad
                    \/ CalibrationLoad \/ AuthlistLoad \/ LogsInit \/ CrashState \/ Reset
             PROVE  LogsInv'
  OBVIOUS
<1>0. bc \in Nat /\ RecordsOK /\ 0 \in Nat
  BY DEF LogsInv, RecordsInv
<1>1. CASE Begin \/ W25qInitFails \/ BootConfigLoad \/ CalibrationLoad \/ CrashState
  <2>1. UNCHANGED <<bc, ev, se, seat>>
    BY <1>1 DEF Begin, W25qInitFails, BootConfigLoad, CalibrationLoad, CrashState
  <2> QED
    BY <1>0, <2>1, LogsUntouched
<1>2. CASE BootCount
  <2>1. PICK ok \in BOOLEAN : bc' = BootStamp(ok)
    BY <1>2 DEF BootCount
  <2>2. bc' \in Nat /\ UNCHANGED <<ev, se, seat>>
    BY <1>0, <1>2, <2>1, StampIsNat DEF BootCount
  <2> QED
    BY <2>2, LogsUntouched
<1>3. CASE AuthlistLoad
  <2>1. UNCHANGED <<bc, se>>
    BY <1>3 DEF AuthlistLoad
  <2>2. PICK o : ListHitsLog(o) \/ UNCHANGED <<ev, seat>>
    BY <1>3 DEF AuthlistLoad
  <2> QED
    BY <1>0, <2>1, <2>2, ListStepsInv, LogsUntouched
<1>4. ASSUME SessionMoves(bc, 0), EventMoves(bc, 0), UNCHANGED seat, bc' \in Nat PROVE LogsInv'
  <2>1. SessionTyped' /\ (se_sound' => SessionGood')
    BY <1>0, <1>4, SessionLogStep DEF LogsInv
  <2>2. EventTyped' /\ ((ev_sound => EventGood) /\ ev_sound' => EventGood')
    BY <1>0, <1>4, EventLogStep DEF LogsInv
  <2>3. ev_sound' => ev_sound
    BY <1>0, <1>4, EventTypeStep DEF LogsInv
  <2> QED
    BY <1>4, <2>1, <2>2, <2>3 DEF LogsInv, seat
<1>5. CASE LogsInit
  <2>1. SessionMoves(bc, 0) /\ EventMoves(bc, 0)
    BY <1>5 DEF LogsInit, SessionMoves, EventMoves
  <2>2. UNCHANGED seat /\ bc' \in Nat
    BY <1>0, <1>5 DEF LogsInit
  <2> QED
    BY <1>4, <2>1, <2>2
<1>6. CASE Reset
  <2>1. SessionMoves(bc, 0) /\ EventMoves(bc, 0)
    BY <1>6 DEF Reset, SessionMoves, EventMoves
  <2>2. UNCHANGED seat /\ bc' \in Nat
    BY <1>0, <1>6 DEF Reset
  <2> QED
    BY <1>4, <2>1, <2>2
<1> QED
  BY <1>1, <1>2, <1>3, <1>5, <1>6

\* The queue and its handlers.
LEMMA LogsRequestsInv ==
  LogsInv /\ RecordsInv' /\ ((\E r \in Requests : Post(r)) \/ HandleEvent \/ HandleSession \/ Handle
                             \/ StoreReturns) => LogsInv'
<1> SUFFICES ASSUME LogsInv, RecordsInv',
                    \/ \E r \in Requests : Post(r)
                    \/ HandleEvent \/ HandleSession \/ Handle \/ StoreReturns
             PROVE  LogsInv'
  OBVIOUS
<1>0. bc \in Nat /\ RecordsOK /\ QueueOK /\ overlapped \in BOOLEAN
  BY DEF LogsInv, RecordsInv
<1>1. ASSUME NEW r \in Requests, Post(r) PROVE LogsInv'
  <2>1. UNCHANGED <<bc, ev, se, seat>>
    BY <1>1 DEF Post, bootVars
  <2> QED
    BY <1>0, <2>1, LogsUntouched
<1>2. CASE HandleSession
  <2>1. UNCHANGED <<bc, ev, seat>> /\ Arg \in Nat
    BY <1>0, <1>2, RestIsRequests, PersistAssumption DEF HandleSession, Taken, bootVars, Arg
  <2>2. CASE UNCHANGED se
    BY <1>0, <2>1, <2>2, LogsUntouched
  <2>3. CASE SessionMoves(bc, Arg)
    <3>1. SessionTyped' /\ (se_sound' => SessionGood')
      BY <1>0, <2>1, <2>3, SessionLogStep DEF LogsInv
    <3>2. EventTyped' /\ (EventGood' <=> EventGood)
      BY <2>1 DEF ev, LogsInv, EventTyped, EventGood
    <3> QED
      BY <1>0, <2>1, <3>1, <3>2 DEF LogsInv, ev, seat
  <2> QED
    BY <1>2, <2>2, <2>3 DEF HandleSession, SessionMoves
<1>3. CASE HandleEvent
  <2>1. UNCHANGED <<bc, se>> /\ Arg \in Nat
    BY <1>0, <1>3, RestIsRequests, PersistAssumption DEF HandleEvent, Taken, bootVars, Arg
  <2>2. CASE UNCHANGED <<ev, seat>>
    BY <1>0, <2>1, <2>2, LogsUntouched
  <2>3. ASSUME EventMoves(bc, Arg), NEW ok \in BOOLEAN, LogHitsList(ok) PROVE LogsInv'
    <3>1. EventTyped' /\ ((ev_sound => EventGood) /\ ev_sound' => EventGood')
      BY <1>0, <2>1, <2>3, EventLogStep DEF LogsInv
    <3>2. ev_sound' => ev_sound
      BY <1>0, <2>1, <2>3, EventTypeStep DEF LogsInv
    <3>3. overlapped' \in BOOLEAN /\ (~overlapped' => ~overlapped)
      BY <1>0, <2>3, LogHits
    <3>4. listAt' \in 0..2
      BY <2>3 DEF LogHitsList, LogsInv
    <3>5. SessionTyped' /\ (SessionGood' <=> SessionGood)
      BY <2>1 DEF se, LogsInv, SessionTyped, SessionGood
    <3> QED
      BY <1>0, <2>1, <3>1, <3>2, <3>3, <3>4, <3>5 DEF LogsInv, se
  <2> QED
    BY <1>3, <2>2, <2>3 DEF HandleEvent, EventMoves
<1>4. CASE Handle
  <2>1. UNCHANGED <<bc, ev, se, seat>>
    BY <1>4 DEF Handle, HandleAlive, HandleAmps, HandleAuth, HandlePolicy, HandleCalibration,
                HandleBl0939, HandleAdd, HandleRemove, HandleClear, Taken, bootVars
  <2> QED
    BY <1>0, <2>1, LogsUntouched
<1>5. CASE StoreReturns
  <2>1. UNCHANGED <<bc, se>>
    BY <1>5 DEF StoreReturns, bootVars
  <2>2. PICK o : ListHitsLog(o) \/ UNCHANGED <<ev, seat>>
    BY <1>5 DEF StoreReturns
  <2> QED
    BY <1>0, <2>1, <2>2, ListStepsInv, LogsUntouched
<1> QED
  BY <1>1, <1>2, <1>3, <1>4, <1>5

LEMMA LogsStep == LogsInv /\ [PersistNext]_persistVars => LogsInv'
<1> SUFFICES ASSUME LogsInv, [PersistNext]_persistVars PROVE LogsInv'
  OBVIOUS
<1>1. RecordsInv'
  BY RecordsStep DEF LogsInv
<1>2. CASE UNCHANGED persistVars
  <2>1. UNCHANGED <<bc, ev, se, seat>>
    BY <1>2 DEF persistVars, bootVars
  <2> QED
    BY <1>1, <2>1, LogsUntouched DEF LogsInv
<1> QED
  BY <1>1, <1>2, LogsBootInv, LogsRequestsInv DEF PersistNext

(***************************************************************************)
(* The logs, whatever the geometry of their rings and the card list that   *)
(* shares sectors with the event log: the cells before the head hold       *)
(* records in order, the newest right before it, the rest of its sector is *)
(* blank, and so is every sector whose first slot is.                      *)
(***************************************************************************)
THEOREM LogsInvariant == PersistSpec => []LogsInv
BY LogsInitInv, LogsStep, PTL DEF PersistSpec

\* The scan of event_log_init finds the head that was in RAM, through resets, failed erases
\* and wrapped rings, as long as nothing has disturbed the order.
THEOREM RestartsFindTheHead == PersistSpec => []LogsFindHead
<1>1. ASSUME LogsInv PROVE LogsFindHead
  <2>1. SessionLog!RestartFindsHead
    BY <1>1, SessionFacts DEF LogsInv, SessionLog!RestartFindsHead
  <2>2. ~overlapped => EventLog!RestartFindsHead
    BY <1>1, EventFacts DEF LogsInv, EventLog!RestartFindsHead
  <2> QED
    BY <2>1, <2>2 DEF LogsFindHead
<1> QED
  BY <1>1, LogsInvariant, PTL

\* event_log_read_nth returns the records last appended, all but a sector of the ring: the
\* erase for a new one takes the oldest.
THEOREM RecentRecordsStay == PersistSpec => []LogsKeepRecent
<1>1. ASSUME LogsInv PROVE LogsKeepRecent
  <2>1. SessionLog!KeepsRecent
    BY <1>1, SessionFacts DEF LogsInv, SessionLog!KeepsRecent
  <2>2. ~overlapped => EventLog!KeepsRecent
    BY <1>1, EventFacts DEF LogsInv, EventLog!KeepsRecent
  <2> QED
    BY <2>1, <2>2 DEF LogsKeepRecent
<1> QED
  BY <1>1, LogsInvariant, PTL
=============================================================================
