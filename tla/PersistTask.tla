---------------------------- MODULE PersistTask ----------------------------
(***************************************************************************)
(* The persist task over its records and logs (tasks/persist_task.c,       *)
(* main.c): the order of the boot, the request queue that the other tasks  *)
(* post to without waiting, one handler per request and the store it waits *)
(* for, and resets and loss of power between all of them.  The OTA handlers and the      *)
(* commands of a store are in Ota and PingPong.                            *)
(***************************************************************************)
EXTENDS Records, Sequences, FiniteSetsExt

CONSTANTS
  PERSIST_QUEUE_DEPTH,   \* 8
  EV_SECTORS, SE_SECTORS, PER_SECTOR, Stamps, Times,   \* the two logs
  LIST_SLOTS,            \* log records the bytes of a stored list cover (4)
  Requests,              \* <<type, argument>>
  Mixes,                 \* sets of request types that occur together, each with the
                         \* calibration records earlier firmware may have left and a
                         \* bound on the boots
  MAX_FAILS              \* bound on the commands that fail

VARIABLES
  pc,      \* "off", a stage of the boot, or "run"
  bc,      \* what boot_count_increment returned, as the logs get it
  cause,   \* what the reset-cause flags tell, "none" once crash_state has read them
  queue,   \* s_queue
  mix,     \* the request types of this behaviour
  ev_ring, ev_head, ev_up, ev_stamp, ev_kept, ev_sound,   \* event_log
  se_ring, se_head, se_up, se_stamp, se_kept, se_sound,   \* session_log
  listAt,      \* the event log sector that holds the valid list record, 0 for none
  overlapped,  \* history: the event log and the card list have hit each other
  crashes,     \* history: watchdog resets in a row without an alive marker
  counted,     \* history: every change of the crash state has been stored
  boots,       \* boots left, for the bound
  fails        \* failed commands so far, for the bound

ev == <<ev_ring, ev_head, ev_up, ev_stamp, ev_kept, ev_sound>>
se == <<se_ring, se_head, se_up, se_stamp, se_kept, se_sound>>
seat == <<listAt, overlapped>>
bootVars == <<pc, bc, cause, mix, boots>>
MayFail(fail) == fails' = (IF fail THEN fails + 1 ELSE fails) /\ fails' <= MAX_FAILS
crashVars == <<crashes, counted>>
persistVars == <<recordVars, bootVars, fails, queue, ev, se, seat, crashVars>>

EventLog == INSTANCE RingLog WITH SECTORS <- EV_SECTORS, ring <- ev_ring, head <- ev_head,
  up <- ev_up, stamp <- ev_stamp, kept <- ev_kept, sound <- ev_sound
SessionLog == INSTANCE RingLog WITH SECTORS <- SE_SECTORS, ring <- se_ring, head <- se_head,
  up <- se_up, stamp <- se_stamp, kept <- se_kept, sound <- se_sound

ASSUME PersistAssumption ==
  /\ EV_SECTORS \in Nat /\ EV_SECTORS > 2 /\ SE_SECTORS \in Nat /\ SE_SECTORS > 1
  /\ PER_SECTOR \in Nat \ {0} /\ LIST_SLOTS \in 1..PER_SECTOR /\ Times \subseteq Nat
  /\ PERSIST_QUEUE_DEPTH \in Nat \ {0} /\ \A m \in Mixes : m[3] \in Nat
  /\ \A r \in Requests : /\ r[1] \in {"event", "session"} => r[2] \in Times
                         /\ r[1] = "add" => r[2] \in Uids \cup {0}

PersistInit ==
  /\ EventLog!LogInit /\ SessionLog!LogInit
  /\ pc = "off" /\ bc = 0 /\ cause = "power_on" /\ queue = <<>>
  /\ \E m \in Mixes : mix = m[1] /\ RecordsInit(m[2]) /\ boots = m[3]
  /\ listAt = 0 /\ overlapped = FALSE
  /\ crashes = 0 /\ counted = TRUE /\ fails = 0

-----------------------------------------------------------------------------
(* The two slots of the card list, 0x005000 and 0x006000, are sectors 1 and 2 of the *)
(* event log, which starts at 0x004000.                                              *)

ListCells(s) == {i \in EventLog!SectorOf(s) : i % PER_SECTOR < LIST_SLOTS}

\* The ring after sector s got the list's record, whole or torn, or was erased for it.
WithList(f, s, how) ==
  [i \in DOMAIN f |->
     IF EventLog!Sector(i) # s THEN f[i]
     ELSE IF how = "record" /\ i \in ListCells(s) THEN EventLog!Garbage ELSE EventLog!Blank]

\* A store of the list moves its record to the other slot and erases the first.  One that
\* fails with the old record in flash may have erased or spoilt the other slot, one that
\* fails with the new one may not have erased the first.
ListHitsLog(o) ==
  LET to   == IF listAt = 1 THEN 2 ELSE 1
      laid == WithList(ev_ring, to, "record")
      left == IF listAt = 0 THEN laid ELSE WithList(laid, listAt, "blank")
  IN  /\ \/ o = "ok"  /\ ev_ring' = left
         \/ o = "new" /\ ev_ring' \in {laid, left}
         \/ o = "old" /\ ev_ring' \in {ev_ring, WithList(ev_ring, to, "blank"), laid}
      /\ listAt' = IF o = "old" THEN listAt ELSE to
      /\ overlapped' = (overlapped \/ \E i \in DOMAIN ev_ring :
                           ev_ring[i].kind = "valid" /\ ev_ring'[i] # ev_ring[i])
      /\ UNCHANGED <<ev_head, ev_up, ev_stamp, ev_kept, ev_sound>>

\* An append touches the slot at the head, and its sector if it has to erase it; one
\* that fails may have touched nothing.
LogHitsList(ok) ==
  LET touched == {ev_head} \cup
        (IF EventLog!NeedsErase THEN EventLog!SectorOf(EventLog!Sector(ev_head)) ELSE {})
      meets == listAt # 0 /\ touched \cap ListCells(listAt) # {}
  IN  \E hit \in IF ok THEN {meets} ELSE {FALSE, meets} :
      /\ listAt' = IF hit THEN 0 ELSE listAt
      /\ overlapped' = (overlapped \/ hit)
      /\ flash' = IF hit THEN [flash EXCEPT !.list = None] ELSE flash
      /\ UNCHANGED <<ram, isr, safe_fail, storing, intact>>

-----------------------------------------------------------------------------
(* main, up to the scheduler. *)

Begin ==
  /\ pc = "off" /\ pc' = "count" /\ MayFail(FALSE) /\ boots > 0 /\ boots' = boots - 1
  /\ UNCHANGED <<recordVars, bc, cause, queue, mix, ev, se, seat, crashVars>>

\* w25q_init fails: nothing is loaded, the logs refuse every append, the tasks start.
W25qInitFails ==
  /\ pc = "count" /\ pc' = "run" /\ MayFail(TRUE)
  /\ intact' = FALSE /\ counted' = FALSE
  /\ UNCHANGED <<flash, ram, isr, safe_fail, storing, bc, cause, queue, mix, boots, ev, se, seat, crashes>>

BootCount ==
  /\ pc = "count" /\ pc' = "config"
  /\ \E ok \in BOOLEAN : boot_count_increment(ok) /\ MayFail(~ok) /\ bc' = BootStamp(ok)
  /\ UNCHANGED <<cause, queue, mix, boots, ev, se, seat, crashVars>>

BootConfigLoad ==
  /\ pc = "config" /\ pc' = "cal"
  /\ \E o \in Outcomes : boot_config_load(o) /\ MayFail(o # "ok")
  /\ UNCHANGED <<bc, cause, queue, mix, boots, ev, se, seat, crashVars>>

CalibrationLoad ==
  /\ pc = "cal" /\ pc' = "list"
  /\ \E o \in Outcomes : calibration_load(o) /\ MayFail(o # "ok")
  /\ UNCHANGED <<bc, cause, queue, mix, boots, ev, se, seat, crashVars>>

AuthlistLoad ==
  /\ pc = "list" /\ pc' = "logs"
  /\ \E o \in Outcomes :
       /\ rfid_authlist_load(o) /\ MayFail(o # "ok")
       /\ IF flash.list = None THEN ListHitsLog(o) ELSE UNCHANGED <<ev, seat>>
  /\ UNCHANGED <<bc, cause, queue, mix, boots, se, crashVars>>

\* event_log_init and session_log_init, then the stamps.
LogsInit ==
  /\ pc = "logs" /\ pc' = "crash" /\ MayFail(FALSE)
  /\ EventLog!event_log_init(bc) /\ SessionLog!event_log_init(bc)
  /\ UNCHANGED <<recordVars, bc, cause, queue, mix, boots, seat, crashVars>>

\* crash_state_boot_increment reads and clears the flags before anything else.
CrashState ==
  /\ pc = "crash" /\ pc' = "run" /\ cause' = "none"
  /\ \E o \in Outcomes :
       /\ crash_state_boot_increment(cause, o) /\ MayFail(o # "ok")
       /\ counted' = (counted /\ o = "ok")
  /\ UNCHANGED <<bc, queue, mix, boots, ev, se, seat, crashes>>

\* Mutant: the flags of an earlier reset are lost.
FlagsAfter_Overwritten(c) == c

\* The flags stay set until they are read, and a watchdog's wins; a power-on clears them.
FlagsAfter(c) == IF c # "power_on" /\ WasCrash(cause) THEN cause ELSE c

\* The history of the watchdog resets in a row: a power-on ends it, another restart only
\* if it was the running unit's.
CrashesAfter(c) ==
  CASE c = "watchdog" -> IF crashes < COUNT_MAX THEN crashes + 1 ELSE crashes
    [] c = "power_on" -> 0
    [] c = "pin"      -> IF pc = "run" THEN 0 ELSE crashes

\* A watchdog reset, which needs the safety task, a pin or software reset, or a loss of
\* power, also in the middle of a store: it leaves the old record where it has not ended.
Reset ==
  /\ pc # "off" /\ pc' = "off" /\ bc' = 0 /\ queue' = <<>>
  /\ boots > 0 /\ MayFail(FALSE)
  /\ \E c \in {"power_on", "pin"} \cup (IF pc = "run" THEN {"watchdog"} ELSE {}) :
       cause' = FlagsAfter(c) /\ crashes' = CrashesAfter(c)
  /\ ForgetRam /\ EventLog!LogReset /\ SessionLog!LogReset
  /\ UNCHANGED <<flash, mix, boots, seat, counted>>

-----------------------------------------------------------------------------
(* The queue. *)

\* post: a full queue drops the request.
post(r) == queue' = IF Len(queue) < PERSIST_QUEUE_DEPTH THEN Append(queue, r) ELSE queue

\* The safety, comms and io tasks: each persist_post function copies its arguments.
Post(r) ==
  /\ pc = "run" /\ r[1] \in mix
  /\ post(r) /\ MayFail(FALSE)
  /\ UNCHANGED <<recordVars, bootVars, ev, se, seat, crashVars>>

\* The persist task takes the next request when the store of the last one has ended.
Taken(type) ==
  /\ pc = "run" /\ storing = Idle /\ queue # <<>> /\ Head(queue)[1] = type
  /\ queue' = Tail(queue) /\ UNCHANGED bootVars
Arg == Head(queue)[2]

\* PERSIST_REQ_EVENT and PERSIST_REQ_SESSION; -1 without event_log_init.
HandleEvent ==
  /\ Taken("event") /\ UNCHANGED <<se, crashVars>>
  /\ \/ ~ev_up /\ MayFail(FALSE) /\ UNCHANGED <<ev, seat, recordVars>>
     \/ EventLog!Append(Arg) /\ MayFail(FALSE) /\ LogHitsList(TRUE)
     \/ /\ EventLog!AppendEraseFails \/ EventLog!AppendProgramFails(Arg)
        /\ MayFail(TRUE) /\ LogHitsList(FALSE)
HandleSession ==
  /\ Taken("session") /\ UNCHANGED <<recordVars, ev, seat, crashVars>>
  /\ \/ ~se_up /\ MayFail(FALSE) /\ UNCHANGED se
     \/ SessionLog!Append(Arg) /\ MayFail(FALSE)
     \/ (SessionLog!AppendEraseFails \/ SessionLog!AppendProgramFails(Arg)) /\ MayFail(TRUE)

\* PERSIST_REQ_CRASH_STATE_RESET, posted by io_task after 60 s.
HandleAlive == Taken("alive") /\ crash_state_reset_alive

\* The setters of boot_config, calibration and the card list.
HandleAmps == Taken("amps") /\ SetConfig([ram.config EXCEPT !.amps = Arg])
HandleAuth == Taken("auth") /\ SetConfig([ram.config EXCEPT !.auth = IF Arg = 0 THEN 0 ELSE 1])
HandlePolicy ==
  /\ Taken("policy")
  /\ IF Arg > 1 THEN UNCHANGED recordVars ELSE SetConfig([ram.config EXCEPT !.policy = Arg])
HandleCalibration == Taken("cp") /\ calibration_set_cp(Arg)
HandleBl0939      == Taken("bl0939") /\ calibration_set_bl0939(Arg, 1)
HandleAdd    == Taken("add") /\ rfid_authlist_add(Arg)
HandleRemove == Taken("remove") /\ rfid_authlist_remove(Arg)
HandleClear  == Taken("clear") /\ rfid_authlist_clear

Handle ==
  /\ \/ HandleAlive \/ HandleAmps \/ HandleAuth \/ HandlePolicy \/ HandleCalibration
     \/ HandleBl0939 \/ HandleAdd \/ HandleRemove \/ HandleClear
  /\ MayFail(FALSE) /\ UNCHANGED <<ev, se, seat, crashVars>>

\* The store a handler waits for returns.  An alive marker that is stored ends a row of
\* crashes.
StoreReturns ==
  /\ pc = "run" /\ UNCHANGED <<queue, bootVars, se>>
  /\ \E o \in Outcomes :
       /\ StoreEnds(o) /\ MayFail(o # "ok")
       /\ IF storing.rec = "list" THEN ListHitsLog(o) ELSE UNCHANGED <<ev, seat>>
       /\ IF storing.rec = "crash"
          THEN /\ crashes' = IF o = "ok" THEN 0 ELSE crashes
               /\ counted' = (counted /\ o = "ok")
          ELSE UNCHANGED crashVars

PersistNext ==
  \/ Begin \/ W25qInitFails \/ BootCount \/ BootConfigLoad \/ CalibrationLoad \/ AuthlistLoad
  \/ LogsInit \/ CrashState \/ Reset
  \/ \E r \in Requests : Post(r)
  \/ HandleEvent \/ HandleSession \/ Handle \/ StoreReturns

PersistSpec == PersistInit /\ [][PersistNext]_persistVars

-----------------------------------------------------------------------------
Stages == <<"count", "config", "cal", "list", "logs", "crash", "run">>
Rank(p) == CHOOSE i \in DOMAIN Stages : Stages[i] = p
\* The records a boot has loaded when it is at its present stage.
Loaded == IF pc = "off" THEN {}
          ELSE {n \in Names : Rank(pc) > Rank(n)}

\* Until the event log runs into the card list, a card the charger accepts is one it
\* accepts after a restart, but for the card whose store is under way.
ListIsDurable == ~overlapped => AcceptedIsDurable

\* Until then, and as long as no store of this boot has failed, what the tasks and the
\* pilot interrupt use is what a restart would load, but for the record being stored.
InForceIsDurable == ~overlapped => InForceIsStored(Loaded)

\* RestartFindsHead for both logs, for the event log until it runs into the card list.
LogsFindHead ==
  SessionLog!RestartFindsHead /\ (~overlapped => EventLog!RestartFindsHead)

\* KeepsRecent for both.
LogsKeepRecent == SessionLog!KeepsRecent /\ (~overlapped => EventLog!KeepsRecent)

\* The charger refuses to charge exactly after CRASH_LOOP_THRESHOLD watchdog resets in a
\* row without an alive marker or a deliberate restart in between, if every change of the
\* crash state could be stored: resets in the middle of a boot, before or after the flags
\* are read, and lost requests neither add a crash nor hide one.
CrashLoopCaught ==
  pc = "run" /\ counted => (safe_fail <=> crashes >= CRASH_LOOP_THRESHOLD)

-----------------------------------------------------------------------------
\* "bytes [8] u8 count (0..28)", "1 if newly added": a list that was stored is there until
\* it is changed.  The event log erases it.
ListSurvives == pc = "run" /\ intact /\ storing = Idle => ram.list = flash.list
=============================================================================
