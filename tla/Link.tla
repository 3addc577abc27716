-------------------------------- MODULE Link --------------------------------
(***************************************************************************)
(* The charger and its Wi-Fi module over the serial line, frame by frame:  *)
(* the command handlers of tasks/comms_task.c, what persist_task and       *)
(* safety_task answer, and the module's mirror of the charger in           *)
(* openevcharger_tlv.cpp with the entities the user operates.  Frames are  *)
(* lost; Tlv has the bytes, OtaPush the update frames.                     *)
(***************************************************************************)
EXTENDS Integers, SequencesExt

CONSTANTS
  Amps,          \* settings the user chooses from; some exceed COMMS_HW_AMPS_MAX
  Cards,         \* UIDs
  QUEUE_DEPTH,   \* PERSIST_QUEUE_DEPTH
  INBOX_DEPTH,   \* SAFETY_INBOX_DEPTH
  RFID_AUTHLIST_MAX,
  LINK_POLLS,    \* link_timeout_ms_ in polls
  LIFETIME_DIV,  \* polls to a refresh of the lifetime total
  LINE_MAX,      \* bound: a replug window ends, and users and vehicles act, while each line holds at
                 \* most so many frames; these not in the seconds before the module's first report
  Mixes          \* bound: the operations and happenings of a behaviour, and how many of them and
                 \* of mishaps there are; one frame more is lost, and only that after a start of
                 \* the module

ASSUME LinkAssumption ==
  /\ Amps \subseteq 0..255 /\ {QUEUE_DEPTH, INBOX_DEPTH, RFID_AUTHLIST_MAX, LINK_POLLS, LIFETIME_DIV} \subseteq Nat \ {0}

VARIABLES
  cfg,         \* boot_config in force: amps, require, policy
  cards,       \* the card list
  evse,        \* the published snapshot: mode, vehicle and fault
  authorized,  \* s_session_authorized
  learning,    \* s_rfid_learn_ticks > 0
  window,      \* s_replug_window_ticks > 0
  kwh,         \* the sessions in the session log
  clock,       \* system_time: 0 is not set
  persist_q,   \* persist_task's queue
  inbox,       \* s_safety_inbox
  to_mcu, to_fc,   \* frames on the line
  fc,          \* the module: its mirror and its entities
  polls,       \* lifetime_div
  moves,       \* for the bound: the mix, and how many are left
  clean        \* history: nothing was lost, dropped, restarted, and no store failed

charger == <<cfg, cards, evse, authorized, learning, window, kwh, clock>>
queues  == <<persist_q, inbox>>
linkVars == <<charger, queues, to_mcu, to_fc, fc, polls, moves, clean>>

Frame(cmd, arg) == [cmd |-> cmd, arg |-> arg]
Plain(cmd) == Frame(cmd, 0)
COMMS_HW_AMPS_MAX == 48
GFCI_POLICIES == {0, 1}

\* system_state_snapshot: a report carries the stored amps and the state of the moment.
Snapshot == [evse |-> evse, amps |-> cfg.amps]

\* setup() after the wait for the device id.
SetupFrames ==
  << Plain("GET_DEVICE_ID"), Plain("GET_BUILD_INFO"), Plain("GET_STATE"), Plain("GET_LIFETIME_KWH"),
     Plain("RFID_GET_LIST"), Plain("GET_RFID_CONFIG"), Plain("GET_GFCI_POLICY") >>

NoReport == [evse |-> [mode |-> "BOOT", car |-> FALSE, fault |-> FALSE], amps |-> 0]

\* One more move.
Moves == moves.left > 0 /\ moves' = [moves EXCEPT !.left = @ - 1]

\* The module's members as a reset leaves them; age counts polls since a reply.
FcReset ==
  [mac |-> FALSE, build |-> FALSE, report |-> NoReport, age |-> LINK_POLLS, lifetime |-> 0,
   count |-> 0, require |-> FALSE, authorized |-> FALSE, policy |-> 0, clock |-> 0,
   present |-> FALSE, number |-> 0, switch |-> FALSE, select |-> 0]

LineQuiet == Len(to_mcu) <= LINE_MAX /\ Len(to_fc) <= LINE_MAX
LineRoom == LineQuiet /\ fc.report # NoReport
link_up == fc.age < LINK_POLLS

LinkInit ==
  /\ cfg = [amps |-> 0, require |-> FALSE, policy |-> 0] /\ cards \in SUBSET Cards
  /\ evse \in [mode : {"READY"}, car : BOOLEAN, fault : {FALSE}]
  /\ authorized = FALSE /\ learning = FALSE /\ window = FALSE /\ kwh = 0 /\ clock = 0
  /\ persist_q = <<>> /\ inbox = <<>> /\ to_fc = <<>>
  /\ polls = 0
  /\ \/ to_mcu = SetupFrames /\ fc = FcReset /\ moves = [what |-> {}, left |-> 0]
     \/ to_mcu = <<>> /\ moves \in Mixes
        /\ fc = [FcReset EXCEPT !.mac = TRUE, !.build = TRUE, !.report = Snapshot, !.age = 0,
                                !.count = Cardinality(cards)]
  /\ clean = TRUE

-----------------------------------------------------------------------------
(* The charger's comms_task. *)

\* Both queues are posted to without waiting: what finds one full is dropped.
PostAll(rs) ==
  IF Len(persist_q) + Len(rs) <= QUEUE_DEPTH
  THEN persist_q' = persist_q \o rs /\ UNCHANGED clean
  ELSE persist_q' = persist_q \o SubSeq(rs, 1, QUEUE_DEPTH - Len(persist_q)) /\ clean' = FALSE
PostPersist(r) ==
  IF Len(persist_q) < QUEUE_DEPTH THEN persist_q' = Append(persist_q, r) /\ UNCHANGED clean
                                  ELSE UNCHANGED persist_q /\ clean' = FALSE
PostSafety(r) ==
  IF Len(inbox) < INBOX_DEPTH THEN inbox' = Append(inbox, r) /\ UNCHANGED clean
                              ELSE UNCHANGED inbox /\ clean' = FALSE

\* comms_publish_event
Publish(frames) == to_fc' = to_fc \o frames

\* Answered by comms_task itself.
Replies == {"PING", "GET_STATE", "GET_BUILD_INFO", "GET_DEVICE_ID", "GET_TIME", "SET_TIME"}
Reply(f) ==
  CASE f.cmd = "PING"           -> Plain("PING_ACK")
    [] f.cmd = "GET_STATE"      -> Frame("STATE_REPORT", Snapshot)
    [] f.cmd = "GET_BUILD_INFO" -> Plain("BUILD_INFO")
    [] f.cmd = "GET_DEVICE_ID"  -> Plain("DEVICE_ID")
    [] f.cmd = "GET_TIME"       -> Frame("TIME", clock)
    [] f.cmd = "SET_TIME"       -> Frame("TIME", f.arg)

handle_reply(f) ==
  /\ f.cmd \in Replies /\ Publish(<<Reply(f)>>)
  /\ clock' = IF f.cmd = "SET_TIME" THEN f.arg ELSE clock
  /\ UNCHANGED <<cfg, cards, evse, authorized, learning, window, kwh, queues, clean>>

\* Passed on to safety_task.
ToSafety == {"CLEAR_FAULT", "REQUEST_STOP", "REQUEST_START_RESUME", "RFID_LEARN_NEXT", "GET_RFID_CONFIG",
             "GET_GFCI_POLICY", "SIMULATE_REPLUG", "RUN_GFCI_CAL_TEST"}
handle_to_safety(f) ==
  f.cmd \in ToSafety /\ PostSafety(f.cmd) /\ UNCHANGED <<charger, persist_q, to_fc>>

\* Passed on to persist_task.
ToPersist == {"GET_FAULT_LOG", "GET_LIFETIME_KWH", "WRITE_BL0939_CAL", "RFID_REMOVE_UID", "RFID_CLEAR_LIST",
              "RFID_GET_LIST", "SET_REQUIRE_RFID_AUTH", "SET_GFCI_POLICY"}
handle_to_persist(f) ==
  f.cmd \in ToPersist /\ PostPersist(f) /\ UNCHANGED <<charger, inbox, to_fc>>

\* handle_set_advertised_amps: one that equals the cached setting is not queued.
handle_set_advertised_amps(f) ==
  /\ f.cmd = "SET_ADVERTISED_AMPS"
  /\ LET amps == Min({f.arg, COMMS_HW_AMPS_MAX}) IN
     IF amps = cfg.amps THEN UNCHANGED <<persist_q, clean>>
                        ELSE PostPersist(Frame("SET_ADVERTISED_AMPS", amps))
  /\ UNCHANGED <<charger, inbox, to_fc>>

\* handle_write_calibration: the argument says whether anchor and slope are usable.
handle_write_calibration(f) ==
  /\ f.cmd = "WRITE_CALIBRATION"
  /\ IF f.arg THEN PostPersist(f) ELSE UNCHANGED <<persist_q, clean>>
  /\ UNCHANGED <<charger, inbox, to_fc>>

\* handle_set_led_override, handle_buzzer_beep: see Panel.
handle_panel(f) ==
  f.cmd \in {"SET_LED_OVERRIDE", "BUZZER_BEEP"} /\ UNCHANGED <<charger, queues, to_fc, clean>>

\* A reset of the charger: what is stored stays, BOOT_COMPLETE is published.
Restart ==
  /\ evse' = [evse EXCEPT !.mode = "READY", !.fault = FALSE]
  /\ authorized' = FALSE /\ learning' = FALSE /\ window' = FALSE /\ persist_q' = <<>> /\ inbox' = <<>>
  /\ Publish(<<Plain("BOOT_COMPLETE")>>) /\ clean' = FALSE
  /\ UNCHANGED <<cfg, cards, kwh, clock>>

handle_restart(f) == f.cmd = "RESTART" /\ Restart

CommsDispatch ==
  /\ to_mcu # <<>> /\ to_mcu' = Tail(to_mcu)
  /\ LET f == Head(to_mcu) IN
     \/ handle_reply(f) \/ handle_to_safety(f) \/ handle_to_persist(f) \/ handle_set_advertised_amps(f)
     \/ handle_write_calibration(f) \/ handle_panel(f) \/ handle_restart(f)
  /\ UNCHANGED <<fc, polls, moves>>

-----------------------------------------------------------------------------
(* persist_task and safety_task at the other end of their queues. *)

PersistServed == persist_q # <<>> /\ persist_q' = Tail(persist_q) /\ UNCHANGED <<to_mcu, fc, polls>>

\* A setter changes the setting in force before it stores it, and a store that fails leaves
\* it changed; one that changes nothing stores nothing.  RFID_CONFIG is asked for unless the
\* store failed, GFCI_POLICY in any case.
PersistSetting ==
  /\ PersistServed
  /\ LET r == Head(persist_q)
         field == CASE r.cmd = "SET_ADVERTISED_AMPS" -> "amps" [] r.cmd = "SET_REQUIRE_RFID_AUTH" -> "require"
                    [] r.cmd = "SET_GFCI_POLICY" -> "policy" [] OTHER -> "none"
         asked == CASE field = "require" -> "GET_RFID_CONFIG" [] field = "policy" -> "GET_GFCI_POLICY" [] OTHER -> "none"
     IN  /\ field # "none" /\ cfg' = [cfg EXCEPT ![field] = r.arg]
         /\ \/ /\ UNCHANGED moves
               /\ IF field = "amps" THEN UNCHANGED <<inbox, clean>> ELSE PostSafety(asked)
            \/ /\ cfg[field] # r.arg /\ Moves /\ clean' = FALSE
               /\ inbox' = IF field = "policy" /\ Len(inbox) < INBOX_DEPTH THEN Append(inbox, asked) ELSE inbox
  /\ UNCHANGED <<cards, evse, authorized, learning, window, kwh, clock, to_fc>>

\* The list and the logs, and the writes that answer nothing.
PersistRecord ==
  /\ PersistServed
  /\ LET r == Head(persist_q) IN
     /\ r.cmd \notin {"SET_ADVERTISED_AMPS", "SET_REQUIRE_RFID_AUTH", "SET_GFCI_POLICY"}
     /\ cards' = CASE r.cmd = "ADD" -> cards \cup {r.arg}
                   [] r.cmd = "RFID_REMOVE_UID" -> cards \ {r.arg}
                   [] r.cmd = "RFID_CLEAR_LIST" -> {}
                   [] OTHER -> cards
     /\ kwh' = IF r.cmd = "SESSION" THEN kwh + 1 ELSE kwh
     /\ Publish(CASE r.cmd = "GET_LIFETIME_KWH" -> <<Frame("LIFETIME_KWH", kwh)>>
                  [] r.cmd = "RFID_GET_LIST" -> <<Frame("RFID_LIST_END", Cardinality(cards))>>
                  [] r.cmd = "GET_FAULT_LOG" -> <<Plain("FAULT_LOG_END")>>
                  [] OTHER -> <<>>)
  /\ UNCHANGED <<cfg, evse, authorized, learning, window, clock, inbox, moves, clean>>

RfidConfig(auth) == Frame("RFID_CONFIG", [require |-> cfg.require, authorized |-> auth])

\* evse_transition: a session begins with CHARGING and ends with it.
Transition(mode) ==
  /\ evse' = [evse EXCEPT !.mode = mode]
  /\ Publish(IF evse.mode # "CHARGING" /\ mode = "CHARGING" THEN <<Plain("SESSION_BEGAN")>>
             ELSE IF evse.mode = "CHARGING" /\ mode # "CHARGING" THEN <<Plain("SESSION_ENDED")>> ELSE <<>>)
  /\ IF evse.mode = "CHARGING" /\ mode # "CHARGING" THEN PostPersist(Plain("SESSION"))
                                                  ELSE UNCHANGED <<persist_q, clean>>

\* process_request; a mode that a request does not apply to stays.  SIMULATE_REPLUG needs a
\* plug, and is refused too once the pilot shows the F of an earlier one.
SafetyServe ==
  /\ inbox # <<>> /\ inbox' = Tail(inbox)
  /\ LET r == Head(inbox)
         quiet == UNCHANGED <<evse, persist_q, clean>>
         ignored == quiet /\ UNCHANGED <<window, to_fc>>
     IN  /\ learning' = (learning \/ r = "RFID_LEARN_NEXT")
         /\ CASE r = "GET_RFID_CONFIG" -> quiet /\ UNCHANGED window /\ Publish(<<RfidConfig(authorized)>>)
              [] r = "GET_GFCI_POLICY" -> quiet /\ UNCHANGED window /\ Publish(<<Frame("GFCI_POLICY", cfg.policy)>>)
              [] r = "CLEAR_FAULT" /\ evse.fault ->
                   /\ evse' = [evse EXCEPT !.fault = FALSE, !.mode = "READY"] /\ UNCHANGED <<window, persist_q, clean>>
                   /\ Publish(<<Plain("FAULT_CLEARED")>>)
              [] r = "REQUEST_STOP" /\ evse.mode \in {"READY", "CHARGING"} -> Transition("USER_PAUSED") /\ UNCHANGED window
              [] r = "REQUEST_START_RESUME" /\ evse.mode = "USER_PAUSED" -> Transition("READY") /\ UNCHANGED window
              [] r = "SIMULATE_REPLUG" /\ evse.car /\ evse.mode \in {"READY", "CHARGING", "USER_PAUSED"} ->
                   (Transition("USER_PAUSED") /\ window' = TRUE) \/ (window /\ ignored)
              [] OTHER -> ignored
  /\ UNCHANGED <<cfg, cards, authorized, kwh, clock, to_mcu, fc, polls, moves>>

\* The window ends: what it paused is READY again.  The pilot showed the driven F, and its
\* restarted classifier shows the vehicle anew.  The window is 3 s, time for the line to drain.
ReplugEnds ==
  /\ LineQuiet /\ window /\ window' = FALSE
  /\ evse' = [evse EXCEPT !.mode = IF @ = "USER_PAUSED" THEN "READY" ELSE @]
  /\ Publish(<<Plain("STATE_CHANGED"), Plain("STATE_CHANGED")>>)
  /\ UNCHANGED <<cfg, cards, authorized, learning, kwh, clock, queues, to_mcu, fc, polls, moves, clean>>

-----------------------------------------------------------------------------
(* What happens at the charger. *)

Happens(what) ==
  /\ LineRoom /\ what \in moves.what /\ Moves
  /\ UNCHANGED <<cfg, cards, kwh, clock, to_mcu, fc, polls>>

\* The pilot shows the vehicle unless a replug window drives it.
VehicleCharges ==
  /\ Happens("charge") /\ ~window /\ evse.mode = "READY" /\ ~evse.fault /\ (authorized \/ ~cfg.require)
  /\ evse' = [evse EXCEPT !.mode = "CHARGING", !.car = TRUE]
  /\ Publish(<<Plain("STATE_CHANGED"), Plain("SESSION_BEGAN")>>)
  /\ UNCHANGED <<authorized, learning, window, queues, clean>>

Unplug ==
  /\ Happens("unplug") /\ ~window /\ evse.car
  /\ evse' = [evse EXCEPT !.car = FALSE, !.mode = IF evse.fault THEN "FAULT" ELSE "READY"]
  /\ UNCHANGED <<authorized, learning, window, inbox>>
  /\ Publish(<<Plain("STATE_CHANGED")>> \o (IF evse.mode = "CHARGING" THEN <<Plain("SESSION_ENDED")>> ELSE <<>>))
  /\ IF evse.mode = "CHARGING" THEN PostPersist(Plain("SESSION")) ELSE UNCHANGED <<persist_q, clean>>

\* A mutant: the authorization ends without a word to the module.
UnpluggedEndsAuth_Silent ==
  /\ authorized /\ ~evse.car /\ evse.mode # "FAULT" /\ authorized' = FALSE
  /\ UNCHANGED <<cfg, cards, evse, learning, window, kwh, clock, queues, to_mcu, to_fc, fc, polls, moves, clean>>

\* update_evse_from_j1772 in state A, which FAULT keeps from running.
UnpluggedEndsAuth ==
  /\ authorized /\ ~evse.car /\ evse.mode # "FAULT"
  /\ authorized' = FALSE /\ Publish(<<RfidConfig(FALSE)>>)
  /\ UNCHANGED <<cfg, cards, evse, learning, window, kwh, clock, queues, to_mcu, fc, polls, moves, clean>>

\* The fault's record is posted and the fault published before the session ends with it.
FaultRaised ==
  /\ Happens("fault") /\ ~evse.fault
  /\ evse' = [evse EXCEPT !.fault = TRUE, !.mode = "FAULT"] /\ UNCHANGED <<authorized, learning, window, inbox>>
  /\ Publish(<<Plain("FAULT_RAISED")>> \o (IF evse.mode = "CHARGING" THEN <<Plain("SESSION_ENDED")>> ELSE <<>>))
  /\ PostAll(<<Plain("EVENT")>> \o (IF evse.mode = "CHARGING" THEN <<Plain("SESSION")>> ELSE <<>>))

\* The card reader's part of the tick.  A card to learn is posted before LEARNED is
\* published; a listed one authorizes, stops what runs and lets go what is paused.
LearnCard(uid) ==
  /\ learning' = FALSE /\ UNCHANGED <<authorized, inbox>>
  /\ IF Cardinality(cards) >= RFID_AUTHLIST_MAX THEN UNCHANGED <<persist_q, clean>>
                                               ELSE PostPersist(Frame("ADD", uid))
  /\ Publish(<<Plain("RFID_SWIPE"), Frame("RFID_AUTH_RESULT",
               IF Cardinality(cards) >= RFID_AUTHLIST_MAX THEN "list full" ELSE "learned")>>)
ListedCard ==
  /\ authorized' = TRUE /\ UNCHANGED <<learning, persist_q>>
  /\ CASE evse.mode = "CHARGING"    -> PostSafety("REQUEST_STOP")
       [] evse.mode = "USER_PAUSED" -> PostSafety("REQUEST_START_RESUME")
       [] OTHER                     -> UNCHANGED <<inbox, clean>>
  /\ Publish(<<Plain("RFID_SWIPE")>> \o (IF authorized THEN <<>> ELSE <<RfidConfig(TRUE)>>)
             \o <<Frame("RFID_AUTH_RESULT", "matched")>>)
RejectedCard ==
  /\ UNCHANGED <<authorized, learning, queues, clean>>
  /\ Publish(<<Plain("RFID_SWIPE"), Frame("RFID_AUTH_RESULT", "rejected")>>)
Swipe(uid) ==
  /\ Happens("swipe") /\ UNCHANGED <<evse, window>>
  /\ IF learning THEN LearnCard(uid) ELSE IF uid \in cards THEN ListedCard ELSE RejectedCard

LearnTimesOut == Happens("timeout") /\ learning /\ learning' = FALSE /\ UNCHANGED <<evse, authorized, window, queues, to_fc, clean>>

\* Watchdog, brown-out.
McuReset ==
  /\ "reset" \in moves.what /\ Moves /\ Restart
  /\ UNCHANGED <<to_mcu, fc, polls>>

-----------------------------------------------------------------------------
(* The module. *)

\* Frames that count as a sign of life (last_state_ms_).
Alive == {"PING_ACK", "STATE_CHANGED", "STATE_REPORT", "DEVICE_ID", "BUILD_INFO", "LIFETIME_KWH", "TIME"}

OnReport(m, f) == [m EXCEPT !.report = f.arg, !.number = f.arg.amps]
OnInfo(m, f) ==
  CASE f.cmd = "DEVICE_ID" -> [m EXCEPT !.mac = TRUE]
    [] f.cmd = "BUILD_INFO" -> [m EXCEPT !.build = TRUE]
    [] f.cmd = "LIFETIME_KWH" -> [m EXCEPT !.lifetime = f.arg]
    [] f.cmd = "TIME" -> [m EXCEPT !.clock = f.arg]
OnRfid(m, f) ==
  CASE f.cmd = "RFID_CONFIG" -> [m EXCEPT !.require = f.arg.require, !.switch = f.arg.require,
                                          !.authorized = f.arg.authorized]
    [] f.cmd = "RFID_LIST_END" -> [m EXCEPT !.count = f.arg]
    [] f.cmd = "RFID_SWIPE" -> [m EXCEPT !.present = TRUE]
OnPolicy(m, f) == [m EXCEPT !.policy = f.arg, !.select = f.arg]

\* dispatch_frame_: what a frame changes in the module ...
Mirror(f) ==
  LET m == IF f.cmd \in Alive THEN [fc EXCEPT !.age = 0] ELSE fc IN
  CASE f.cmd = "STATE_REPORT" -> OnReport(m, f)
    [] f.cmd \in {"DEVICE_ID", "BUILD_INFO", "LIFETIME_KWH", "TIME"} -> OnInfo(m, f)
    [] f.cmd \in {"RFID_CONFIG", "RFID_LIST_END", "RFID_SWIPE"} -> OnRfid(m, f)
    [] f.cmd = "GFCI_POLICY" -> OnPolicy(m, f)
    [] OTHER -> m

\* ... and what the module asks for because of it.
Pulls(f) ==
  CASE f.cmd \in {"STATE_CHANGED", "FAULT_RAISED", "FAULT_CLEARED", "SESSION_BEGAN"} -> <<Plain("GET_STATE")>>
    [] f.cmd = "SESSION_ENDED" -> <<Plain("GET_LIFETIME_KWH")>>
    [] f.cmd = "BOOT_COMPLETE" -> <<Plain("GET_STATE"), Plain("GET_BUILD_INFO"), Plain("GET_LIFETIME_KWH")>>
    [] f.cmd = "RFID_AUTH_RESULT" /\ f.arg = "learned" -> <<Plain("RFID_GET_LIST")>>
    [] OTHER -> <<>>

FcDispatch ==
  /\ to_fc # <<>> /\ to_fc' = Tail(to_fc)
  /\ fc' = Mirror(Head(to_fc)) /\ to_mcu' = to_mcu \o Pulls(Head(to_fc))
  /\ UNCHANGED <<charger, queues, polls, moves, clean>>

\* A mutant of loop(): the module relies on the charger's events.
FcLoop_NoPoll ==
  /\ to_mcu = <<>> /\ to_fc = <<>>
  /\ polls' = (polls + 1) % LIFETIME_DIV
  /\ fc' = [fc EXCEPT !.age = Min({LINK_POLLS, @ + 1})]
  /\ to_mcu' = (IF fc.mac THEN <<>> ELSE <<Plain("GET_DEVICE_ID")>>) \o <<Plain("PING")>>
  /\ UNCHANGED <<charger, queues, to_fc, moves, clean>>

\* loop(): every 5 s GET_STATE, each LIFETIME_DIV-th time the lifetime total too, and
\* GET_DEVICE_ID until it is answered.  5 s is longer than the line needs to drain.
FcLoop ==
  /\ to_mcu = <<>> /\ to_fc = <<>>
  /\ polls' = (polls + 1) % LIFETIME_DIV
  /\ fc' = [fc EXCEPT !.age = Min({LINK_POLLS, @ + 1})]
  /\ to_mcu' = (IF fc.mac THEN <<>> ELSE <<Plain("GET_DEVICE_ID")>>) \o <<Plain("GET_STATE")>>
               \o (IF polls' = 0 THEN <<Plain("GET_LIFETIME_KWH")>> ELSE <<>>)
  /\ UNCHANGED <<charger, queues, to_fc, moves, clean>>

\* The user's operations: the frames each sends and the entity it sets optimistically.
Operations ==
  {[name |-> n, frames |-> <<Plain(n)>>] :
     n \in {"PING", "GET_STATE", "GET_BUILD_INFO", "GET_FAULT_LOG", "GET_LIFETIME_KWH", "BUZZER_BEEP", "SET_LED_OVERRIDE",
            "WRITE_BL0939_CAL", "RFID_LEARN_NEXT", "RFID_GET_LIST", "GET_TIME", "RESTART", "SIMULATE_REPLUG",
            "RUN_GFCI_CAL_TEST", "CLEAR_FAULT"}}
  \cup {[name |-> n, frames |-> <<Plain(n), Plain("GET_STATE")>>] : n \in {"REQUEST_STOP", "REQUEST_START_RESUME"}}
  \cup {[name |-> "RFID_CLEAR_LIST", frames |-> <<Plain("RFID_CLEAR_LIST"), Plain("RFID_GET_LIST")>>]}
  \cup {[name |-> "RFID_REMOVE_UID", frames |-> <<Frame("RFID_REMOVE_UID", u), Plain("RFID_GET_LIST")>>] : u \in Cards}
  \cup {[name |-> "SET_TIME", frames |-> <<Frame("SET_TIME", t)>>] : t \in 0..1}
  \cup {[name |-> "WRITE_CALIBRATION", frames |-> <<Frame("WRITE_CALIBRATION", ok)>>] : ok \in BOOLEAN}
  \cup {[name |-> "number", frames |-> <<Frame("SET_ADVERTISED_AMPS", a), Plain("GET_STATE")>>] : a \in Amps}
  \cup {[name |-> "switch", frames |-> <<Frame("SET_REQUIRE_RFID_AUTH", b)>>] : b \in BOOLEAN}
  \cup {[name |-> "select", frames |-> <<Frame("SET_GFCI_POLICY", p)>>] : p \in GFCI_POLICIES}

Operate(op) ==
  /\ LineRoom /\ op.name \in moves.what /\ Moves
  /\ to_mcu' = to_mcu \o op.frames
  /\ fc' = IF op.name \in {"number", "switch", "select"} THEN [fc EXCEPT ![op.name] = op.frames[1].arg] ELSE fc
  /\ UNCHANGED <<charger, queues, to_fc, polls, clean>>

FcReboot ==
  /\ "fc reset" \in moves.what /\ LineRoom /\ moves.left > 0 /\ moves' = [moves EXCEPT !.left = 0]
  /\ fc' = FcReset /\ to_mcu' = to_mcu \o SetupFrames /\ to_fc' = <<>> /\ polls' = 0
  /\ clean' = (clean /\ to_fc = <<>>)
  /\ UNCHANGED <<charger, queues>>

\* A frame is lost: noise, an overrun, a 50 ms wait for s_tx_mutex in vain.
Lose ==
  /\ moves.left >= 0 /\ moves' = [moves EXCEPT !.left = @ - 1] /\ clean' = FALSE
  /\ \/ to_mcu # <<>> /\ to_mcu' = Tail(to_mcu) /\ UNCHANGED to_fc
     \/ to_fc # <<>> /\ to_fc' = Tail(to_fc) /\ UNCHANGED to_mcu
  /\ UNCHANGED <<charger, queues, fc, polls>>

LinkNext ==
  \/ CommsDispatch \/ PersistSetting \/ PersistRecord \/ SafetyServe \/ ReplugEnds
  \/ VehicleCharges \/ Unplug \/ UnpluggedEndsAuth \/ FaultRaised \/ (\E u \in Cards : Swipe(u)) \/ LearnTimesOut \/ McuReset
  \/ FcDispatch \/ FcLoop \/ (\E op \in Operations : Operate(op)) \/ FcReboot \/ Lose

\* The tasks and loop() run forever.
LinkFairness ==
  /\ WF_linkVars(CommsDispatch) /\ WF_linkVars(PersistSetting \/ PersistRecord) /\ WF_linkVars(SafetyServe)
  /\ WF_linkVars(FcDispatch) /\ WF_linkVars(FcLoop)

LinkSpec == LinkInit /\ [][LinkNext]_linkVars /\ LinkFairness

-----------------------------------------------------------------------------
\* When the line and the queues are empty and nothing went wrong on the way, the module's
\* mirror and the entities equal what is in force: every change the charger makes is
\* followed by the event or the answer that carries it, in an order that leaves the last
\* value standing, whoever made the change and however requests overlapped.
QuietMirror ==
  (clean /\ to_mcu = <<>> /\ to_fc = <<>> /\ persist_q = <<>> /\ inbox = <<>>) =>
    /\ fc.require = cfg.require /\ fc.switch = cfg.require /\ fc.authorized = authorized
    /\ fc.policy = cfg.policy /\ fc.select = cfg.policy
    /\ fc.count = Cardinality(cards) /\ fc.lifetime = kwh

\* Through lost frames, dropped requests and resets of either end the module comes to
\* show the charger's state and stays with it: the link is up, the address is set.
MirrorCatchesUp == <>[](fc.report = Snapshot /\ link_up /\ fc.mac)
=============================================================================
