# TLA+ models of the OpenEVCharger firmware

These modules model the charger firmware of the Rippleon ROC001 board (GD32F205), the
component on its Wi-Fi module, and the companion process of the Eluminocity charger. TLC
checks them on small instances; TLAPS proves the theorems listed below for every value of
the constants. File names below are relative to the repository's `src/` directory, those
that start with `boards/` to the repository.

## The system

| Part | State it keeps | Operations | Talks to |
| --- | --- | --- | --- |
| safety task (`tasks/safety_task.c`) | EVSE state, fault set, classifier, session, derate, replug window, authorization, streaks | boot self-tests, 20 ms tick, inbox requests | drives contactor and pilot; posts events to persist and comms; publishes a snapshot |
| fault set, classifier, GFCI policy, over-temperature (`core/`) | plain records stepped by the safety task | raise, clear, step | called by the safety task only |
| record store (`persist/pingpong.c`, `drivers/w25q.c`) | two flash sectors per record | load, store | called by the owners of the records |
| records (`persist/boot_config.c`, `calibration.c`, `rfid_authlist.c`, `crash_state.c`, `boot_count.c`) | RAM copy and flash record each | load at boot, setters | written by the persist task, read live by the others |
| logs (`persist/event_log.c`, `session_log.c`) | ring of flash sectors, head in RAM | scan, append | written by the persist task |
| persist task (`tasks/persist_task.c`) | request queue, OTA session | one handler per request | flash; answers through the serial line and the safety inbox |
| comms task (`tasks/comms_task.c`, `proto/tlv.c`, `hal/gd32f205/uart5.c`) | receive ring, accumulator, transmit mutex | one handler per command | safety inbox, persist queue, Wi-Fi module |
| Wi-Fi module (`boards/rippleon-roc001/fc41d/components/openevcharger_tlv/`) | mirror of the charger, entities, a firmware upload | one handler per event, polling, user commands | the serial line, Home Assistant, an HTTP server |
| IO task (`tasks/io_task.c`, `ui/`) | debounce, LED scheme, buzzer pattern | poll | reads the snapshot, posts to the safety inbox and the persist queue |
| card reader (`hal/gd32f205/rfid.c`, `core/rfid.c`) | ring and re-framing buffer, latched card | feed, keepalive | drained by the safety task |
| GFCI monitor (`hal/gd32f205/gfci.c`) | handshake window, pulse phase | self-test, refresh task | its sense pin is an input of the safety task |
| firmware update (`persist/ota_stage.c`, `hal/gd32f205/flash.c`, `main.c`) | staged image, pending flag, bank 0 | begin, chunk, commit, abort, apply | boot_config's pending flag |
| Eluminocity companion (`boards/eluminocity-ch21130/companion/src/`) | previous state, MQTT client, configuration | main loop, commands, web requests | shared memory of the stock daemons, MQTT broker, browser |

The safety task has the highest priority. The others run while it sleeps, while a GFCI
self-test runs inside it, and while it waits for the transmit mutex when it publishes
from the inbox and RFID stages. It reads the configuration live, without a lock.

What is hard here: detectors that trip after the relay stage of the same tick; several
requests handled in one batch before the relay and pilot stages see any of them; the
firmware's own pilot drive read back through a debounce; a policy byte, an authorization
flag and a calibration that change under a running detector; resets in the middle of
everything; flash commands that fail or are cut off by a loss of power; logs whose head
only a scan finds; a line that loses bytes between two receivers that resynchronise
differently; a mirror fed by answers and events that overtake requests; a firmware
upload in which each end may restart; a bridge whose broker, link and shared memory
change between any two blocks of its loop.

## Modules

| Module | Models | Notes |
| --- | --- | --- |
| `Faults` | `core/fault.c` | the active set and `first`; latched ids are below `FAULT_FIRST_SELF_CLEARING` |
| `J1772` | `core/j1772.c` | band classification of millivolts, N-of-N debounce, `INVALID` after init |
| `GfciPolicy` | `core/gfci_policy.h` | debounce, WARN and FAULT policies, raise-once flag |
| `OverTemp` | `core/over_temp.h` | raw NTC counts, population guard, persistence and hysteresis |
| `SafetyTask` | `tasks/safety_task.c` and what the other tasks do to it | the core module |
| `PauseHistory` | - | adds a history variable to `SafetyTask`: the user stopped the charge and nothing has released it |
| `AtomicRecord` | - | abstract: what a persisted record promises its owner |
| `PingPong` | `persist/pingpong.c`, `drivers/w25q.c` | one step per flash command; implements `AtomicRecord` |
| `BootConfig` | `persist/boot_config.c` | RAM copy and setters over `PingPong` |
| `RingLog` | `persist/event_log.c`, `session_log.c` | the ring of a log; instantiated twice |
| `Records` | the five records and their setters | stores by the outcomes `AtomicRecord` allows |
| `PersistTask` | `tasks/persist_task.c`, the loads of `main.c` | composes `Records` and two `RingLog`s: queue, boots, failures, the flash map's overlap |
| `Ota` | `tasks/persist_task.c` (OTA handlers), `persist/ota_stage.c`, `main.c`, `hal/gd32f205/flash.c` | update session, stage region, pending record, apply |
| `Panel` | `tasks/io_task.c`, `ui/`, `tasks/fc41d_flash_helper.c` | poll loop with a snapshot copied word by word, buttons, buzzer, lamp, alive marker |
| `GfciMonitor` | `hal/gd32f205/gfci.c` | self-test and refresh task against the chip, in clock units |
| `CardReader` | `hal/gd32f205/rfid.c`, `core/rfid.c`, the drain of the safety task | byte by byte |
| `Tlv` | `proto/tlv.c`, `hal/gd32f205/uart5.c`, receive loops of both ends | byte by byte, three sending tasks, two receivers |
| `FrameLine` | - | abstract: what the line promises of whole frames, lost ones allowed; implemented by `Tlv` |
| `Link` | `tasks/comms_task.c`, answers of the other tasks, the module's dispatch, polling and entities | frame by frame |
| `OtaPush` | upload state machine of `openevcharger_tlv.cpp` against the OTA handlers | frame by frame |
| `DeltaBridge` | companion `main.c`, `mqtt_adapter.c`, `mqtt_client.c`, `commands.c`, `config.c`, `web.c` | one step per block of the loop |
| `MCSafetyTask`, `MCPauseHistory`, `MCOta`, `MCPersistTask`, `MCDevices`, `MCLink`, `MCDeltaBridge` | - | constant values and compositions for TLC |
| `SafetyTaskProofs`, `SafetyInterlockProofs` | - | theorems about `SafetyTask`, `PauseHistory` and the modules they use |
| `PersistProofs`, `SerialProofs` | - | theorems about `Records`, `RingLog` and `PersistTask`; `Tlv` and `CardReader` |
| `OtaProofs`, `LinkProofs`, `DeviceProofs`, `BridgeProofs` | - | theorems about `Ota`; `OtaPush` and `Link`; `PingPong`, `BootConfig`, `Panel` and `GfciMonitor`; `DeltaBridge` |

**SafetyTask.** `pc` is the place in `safety_task_run`. Each stage of the tick is one
action that does all the stage does; the order of the stages is the order of the calls
in the loop, so a detector after `apply_relay_state` is after it in the model too.
`evse_transition` is the operator of that name: session, derate, contactor, force-open
latch and pilot change in it and nowhere else, except for the relay and pilot stages.
The inbox is a bounded queue drained by at most four requests per tick; a full inbox
drops the request. `RUN_GFCI_CAL_TEST` has a stage of its own (`cal`) because the loop
stands still in it while other tasks run. Physical inputs (pilot millivolts, NTC counts,
PE2, ADC rails, meter readings, cards) are chosen from constant sets. Three of them follow
the outputs: the sensed pilot reads band E while F is driven and trails the drive by up
to `CP_LAG` ticks; a meter reads current only while the contactor is closed or for
`RESIDUAL_POLLS` polls after it opened; and a reset opens everything. Amps are numbers,
and the limits of the current detectors are computed in milliamperes as in the code.
Energy, time stamps, PWM duty, log texts and the wording of events are left out. Of the
event records only the session's `fault_count` is kept. Detectors that the shipped build
compiles out (protective earth and CC checks, relay read-back) are not modelled.

**PingPong, BootConfig.** A sector holds a record whose CRC matches, or it is `Invalid`:
blank, half erased or half programmed are the same to `read_and_validate`. A CRC that
matches by chance is not modelled. A command that fails, or during which power goes,
leaves the sector as it was or as it would be (`MayLeave`). The program command may
report success and leave garbage; the verify-read decides. An erase that reports success
has erased. The counter wraps at `COUNTER_MOD`, 2^32 in the code. The setters change the
RAM copy first and store it then, and return 0 without a store when nothing would change.

**Records, RingLog, PersistTask.** A setter is two steps, because the tasks of a higher
priority use its RAM copy while the persist task waits for the flash: the change of the RAM
copy (`Changed`, with `storing` naming the store), and the return of the store
(`StoreEnds`) with the outcomes `AtomicRecord` leaves: done, or failed with either record
in flash. A reset may come in between. The stores of the boot are single steps, since no
task runs yet. `intact` says whether the chip was found and no store of this boot failed;
what RAM promises about flash is promised under it. The reset flags stay set until a boot
reads them (`FlagsAfter`); a store of the list that fails before it programs may have
erased its sector, and the log's record in it, all the same (`ListHitsLog`). A log slot is blank, garbage or a record with boot count and tick;
`kept` and `sound` are history: how many records were appended in a row, and whether the
order the scan relies on has held (larger boot counts, no failed program, no overlap).
`PersistTask` has the order of the boot, the queue with its limit, one action per request,
and resets and power loss between and inside requests. The event log's first sectors
contain both slots of the card list (`listAt`); `overlapped` records that they met.

**Ota.** `sess` and `running` are `s_ota`, `ram` and `durable` the update's fields of the
boot_config record, `stage` the W25Q region, `bank0` the internal flash. Each handler is
one action with its refusals in the order of the code's tests. BEGIN, CHUNK, COMMIT and
ABORT come with any token, offset and payload at any time, so a lost, repeated, delayed
or reordered message is just another choice. An erase may stop at any sector, a write
after any cell, and a cell may be spoilt without the command saying so, because
`ota_stage_write` reads nothing back. Programming clears bits: a cell that is neither
blank nor already right becomes garbage. CRC32 is injective in the model. A store of the
record leaves what `StoreIsAtomic` proves of it. From the reset on, `mode` follows the
boot: load the record, the tests of `flash_apply_pending_ota_image`, the RAM copy (a read
may go wrong) and its CRC, then the overwrite page by page and word by word. `Boot` needs
`whole`: the code that runs it is in bank 0. The model has
`OPENEVCHARGER_OTA_APPLY_ENABLED` at 1, the build's default (`cmake/options.cmake:60`).

**OtaPush.** The upload as the two ends see it: frames of the push in one direction,
acknowledgements in the other, each lost, delayed past the module's 8 s timeout, or
dropped by a restart. The charger's side is the handlers of `Ota` with the stage as a
sequence of chunks. `pushes` stands for `millis()` as a source of session ids: two pushes
never share one.

**Panel.** The safety task preempts the IO task, so the snapshot it copies may be torn
between the words before and after `session_wh`; the IO task preempts the comms task, so a
remote beep is seen half started. `disturbed` is history; so are `recent`, the window of
the last readings, and `let_go`, whether one of another band has filled it since the top
button did: they state a press without the count and the candidate of `buttons_poll`. The flash helper is
an action of the same module because it shares PC9 and runs instead of the comms task.

**GfciMonitor.** Both tasks and the chip advance on one clock. The chip answers a CAL edge
after a delay from `Delays` for a time from `Widths`, or not at all. `mixed` is history:
self-test and refresh task were at work together and the refresh task has not had a pulse
to itself since.

**CardReader, Tlv.** Bytes are classes: what the parsers compare, and the rest. A byte may
be lost or spoilt. In `Tlv` the CRC is the bytes it covers, three tasks take turns on the
transmitter under its mutex, and a frame is dropped when the mutex is not had in time. The
charger's receiver takes two kinds of step: `CommsPoll` fills the accumulator from the
ring, `CommsParse` is one round of the inner loop, a frame taken or a byte dropped.
`OnlySentFrames` is a refinement: `FrameLine` sees a frame as its bytes from LEN on (the
module does not look at the second start byte again), and the step that dispatches one is
`Deliver`, all others but sending stutter.

**Link.** One record per end: the charger's settings, card list, session and clock with
the persist queue and the inbox between its tasks; the module's mirror and entities.
Commands, answers and events are the frames of the code, in the code's order: a fault
queues its event record and publishes FAULT_RAISED, then the transition it causes publishes
SESSION_ENDED and queues the session record. A setting changes in RAM before its store and
keeps its value if that fails. `window` is an open replug window; its end publishes the
state twice (PAUSED to READY). `clean` says that nothing was lost, dropped, restarted or
failed to store since the start.

**DeltaBridge.** A step is one of the numbered blocks of `main`; the network takes
`TX_AHEAD` messages before a send waits, and delivers packets in halves so that a read
ends inside one. A link dies at any point; what was sent but not received is lost. The
broker's session, its retained values and the stock daemons are external. `do_restart`
replaces the process, which inherits the listening socket: its own bind succeeds only if
the file names another port.

## Runs

| Run | Specification | Properties | Shows |
| --- | --- | --- | --- |
| `core` | `Spec` | `TypeOK`, `ContactorInterlock`, `FaultLatchCoherent`, `SafeFailOpen`, `GroundFaultStops`, `FaultEndIsCounted`, `GfciNeedsReset` | contactor, latch, fault set, session and GFCI flag agree under pilot states A, C, E, ground faults with a changing policy, pause, resume, replug, learn, publish, clear, crash loops, soft and watchdog resets |
| `pilot` | `FairSpec` | `NoSpuriousPilotFault`, `ReplugEnds` | the driven F never trips the missing-pilot detector (debounce 3, persistence 3 as in the code), and replug windows end |
| `load` | `FairSpec` | `NoSpuriousWeld`, `DerateSticky`, `CoolingEnds`, `OverdrawStops` | a load that bleeds off is no weld, an overdraw is cut off through derating, the derate is kept for the session, COOLING_DOWN ends unless CLEAR_FAULT has named its fault, and only that can take the fault away |
| `user` | `HeldSpec` | `PauseHolds`, `CloseNeedsDwellAndAuth` | cards, learn mode, buttons, heat, replugs, remote stop and resume: a stop holds until something releases it, closing needs dwell and authorization |
| `records` | `PersistSpec` | `ListIsDurable`, `InForceIsDurable`, `LogsFindHead`, `LogsKeepRecent`, `CrashLoopCaught` | what the charger accepts and uses survives a restart, but for what is being stored; a restart finds the logs' heads and their newest records; repeated crash boots are caught |
| `devices` | `DevicesSpec` | `AlarmHolds`, `PressesCount`, `HandshakeMasked`, `GroundFaultSeen`, `SwipesAreCards`, `ReaderConverges`, `AtomicStore`, `StoredIsDurable` | alarm and buttons with torn snapshots, the handshake window, the reader's parser after disturbed bytes, settings over the two-slot store |
| `link` | `LinkRunSpec` | `OnlySentFrames`, `IntactFrameKept`, `QuietMirror`, `MirrorCatchesUp`, `DoneIsArmed` | the byte level implements `FrameLine` under lost and spoilt bytes, and no intact frame is lost; the mirror, the upload |
| `bridge` | `BridgeSpec` | `StreamAligned`, `PrevIsPublished`, `BrokerCatchesUp` | no piece of an old connection reaches the parser; what the bridge takes as published is; the dashboard converges |
| `ota` | `OtaFairSpec` | `UploadMatchesStage`, `OnlyAcceptedImage`, `CommittedImageStands`, `BootSettles` | only verified images are started, a committed one stands until the next BEGIN, no endless re-apply |
| `ota_torn`, `hot_charge`, `overlap` | - | one each | expected violations, see below |

**Compositions.** Tasks that share state are composed in one module: `SafetyTask` has what
the other tasks do to it, `PersistTask` the records and logs with their queue, `Link` the
charger's tasks and the module. Components that share no state (`MCDevices`,
`MCLink`) are put into one run with a constant choice of the part that moves: the
interleavings of independent parts would add states and no behaviour. In the same way
`MCPersistTask` and `MCLink` choose in the initial state a mix of requests and happenings,
`MCDeltaBridge` a budget of them; each mix holds the kinds that act on the same state.

**Bounds.** Persistence counts, windows and depths are constants, set to the smallest
value at which the counter both counts and saturates (2, in places 1 or 3): the code
compares them only with 0 and with their limit, and the interplay that depends on their
ratio is kept (`pilot` uses the code's 3/3; settle window and bleed-off are both 3 polls
in `load`, as the code's window is chosen to cover the bleed-off). An inbox of depth 1
still gives batches: other tasks run during the drain and can post behind each handled
request. Each run exercises the inputs its question needs and fixes the others, which is
why there are four of them over the safety task. `load` leaves out USER_RESUME: a pause
and a resume in one batch start a new session, with the derate reset, without the
contactor opening, and repeated at will they keep an overdraw going. The record counter of `devices` wraps at 4.
`records` has logs of three and two sectors of two records, which wrap within a behaviour,
at most three or four boots, and one failing command. `ota` has a stage of two sectors, an
image that fits and takes two pages of bank 0, one that crosses a sector and is larger
than the apply path copies, one larger than the stage, an empty one, and chunks of one and
two cells, right and wrong. `devices` debounces buttons over three polls, polls every 500 ms
(the code every 20) so that the alarm patterns stay short, and one of its cards has a UID
with the byte AA. `link` has two frames and two disturbed bytes with
payloads that contain a frame's start, uploads of one to three chunks with three mishaps,
and its conversations start with up to three operations and events from one mix; a
vehicle is there from the start only in the mix of resume and replug. A replug window ends
while the line holds at most `LINE_MAX` frames: it lasts 3 s, time for the line to drain.
`bridge` has a receive buffer of two packets, so that a burst of three commands fills it.

**Fairness.** `FairSpec` adds weak fairness of the safety loop: the scheduler always runs
the highest-priority task when it is ready, and its sleeps end. Nothing is assumed of the
user or the vehicle. `CoolingEnds` assumes in its own formula that the fitted sensors stay
cool. `OtaFairSpec` has weak fairness of the steps of the boot and the apply path, which
one processor executes with nothing else running; `BootSettles` assumes in its formula
that power losses end. `GfciFairness` and `ReaderFairness` say that timer, loop and UART
run forever, `LinkFairness` that the tasks and the module's `loop()` do, `PushFairness`
the same of `loop()` alone: the charger may stay silent. `BridgeFairness` has weak
fairness of the loop, strong fairness of a connection attempt and of a tick that looks at
the link, since both are repeated for ever; a dead link is noticed by the keepalive.

**Deadlock** is checked in every run but `link`, where a behaviour ends when the bounded
frames, pushes and operations are used up and everything has been delivered.

## Proofs

Assumptions: `SafetyAssumption`, `DebounceAssumption`, `OtPersistAssumption`,
`GfciPersistAssumption` (ranges of the constants), `StoreAssumption`, `OtaAssumption`
(flash geometry; what a client sends is never a blank cell), `OtaPushAssumption` (an image
is not empty), `GfciAssumption` (the bench's timing: a handshake ends with the tail at the
latest), `PanelAssumption` (a published snapshot shows FAULT exactly with a latched fault,
which is `FaultLatchCoherent` of the safety task), `ConfigAssumption` (a setter's result is
a record of the store), `RecordsAssumption` and `PersistAssumption` (the value for "no
record" is neither a number nor a card list; rings of at least one record a sector; the
arguments of requests), `BridgeAssumption` (types of the budgets), `ReaderAssumption` (a UID
has four bytes, a frame is cut at numbers), `TlvAssumption` (a payload fits and holds no
CRC). The last one with the CRC that is the bytes it covers is an abstraction: a CRC is
taken to match nothing but the bytes it was computed over. TLC evaluates them.
Three theorems have hypotheses on the inputs, given with them below.

- `TypeCorrect`: `Spec => []TypeOK`. The interesting part is the derate: a ramp step only
  happens above the floor, so base minus derate stays at least 6 A and the derate at most
  42 A, although the configured amps may change at any time (`AmpsRange`).
- `InterlockInvariant`: the inductive invariant `Interlock`. `ContactorInterlock` alone is
  not inductive: that a trip after the relay stage leaves the contactor open needs
  `FaultLatchCoherent` at every stage, and that in turn needs that contactor, latch and
  session change together with the state, and that a latched fault is raised exactly when
  a step goes to FAULT. The lemmas say this once for raising, clearing and leaving alone;
  then there is one step per action. `SafeFailOpen` needs the stage: between the inbox,
  where the crash-loop fault can be cleared, and `check_safe_fail`, where it is raised
  again, the contactor is open because FAULT was only just left. From it:
  `ContactorSafe`, `FaultIsLatched`, `SessionFollowsState`, `CrashLoopStaysOpen`,
  `GfciFlagAgrees`, and `GfciLatched` (no step but a reset removes FAULT_GFCI).
- `ClosesByDwellAndAuth`, `FaultEndsAreCounted`, `GroundFaultOpens`, `DerateIsSticky`
  (the second part of `SafetyInterlockProofs`). Every step is one of `Moves`: it raises a latched fault, or it
  enters neither FAULT nor, outside `update_evse_from_j1772`, CHARGING. With it the second
  invariant says that CHARGING means a closed contactor except between the decision and
  the relay stage of the same tick, and that what was decided then (dwell complete,
  authorized where required) still holds when the relay closes. A ground fault needs that
  the raise-once flag is set exactly when the detector has acted in this episode, for each
  policy, since the policy byte may change in between. The derate only grows while a
  session is open: only the end of a session resets it.
- `DrivenFNeverTrips`: `Spec => []NoSpuriousPilotFault` for a vehicle that never shows band
  E and `CP_LAG + 1 < J1772_DEBOUNCE_N` (3 samples and one tick in the firmware). While F is
  driven the detector does not count. Both exits from the drive start the classifier over,
  so `Forgotten` says: at most one reading of E in the tick in which the drive ends, and
  then one for each tick of lag, never enough to commit the band.
- `BleedOffIsNoWeld`: `Spec => []NoSpuriousWeld` under `BleedsOff` (a calibrated meter that
  answers, an open contactor that draws nothing once the load has bled off, and
  `RESIDUAL_POLLS <= BL0939_WELD_SETTLE_POLLS`). The detector sees an opening only if a poll
  has seen the contactor closed, but only such a poll leaves a residual: `ResidualCovered`
  counts both down together. Without the first condition it is false: what is closed while
  the meter is not calibrated and opens when it is has no settle window.
- `PausesHold`: `HeldSpec => []PauseHolds`, for any inputs. `held` ends with what the user
  asks for (resume, replug, unplugging, clearing a fault, a restart) and with the two
  things that take a pause away unasked: COOLING_DOWN, and the end of a replug window (see
  below). The invariant says that a held stop means USER_PAUSED or FAULT,
  and no boot.
- `StoreInvariant` and `StoreIsAtomic` (`DeviceProofs`): `StoreSpec => AtomicStore`, a refinement. The
  commit point is the program command, or, when the counter has just wrapped, the erase of
  the prior slot; the invariant states what both sectors hold at each command.
- `ConfigInvariant`, `ConfigIsAtomic`, `AcknowledgedIsDurable`: the settings record over that
  store. While a store runs, what it writes is the RAM copy, and nothing is acknowledged:
  the only way from a running store to `ack = "ok"` is its verified end, after which both
  agree in every field, those an earlier failed setter left in RAM included.
- `RecordsInvariant`, and from it `AcceptedCardsAreDurable`, `WhatIsInForceIsDurable` and
  `CrashLoopIsCaught`. `RecordsInv` follows the stages of the boot: which records have been
  loaded, and that `intact` after a load means RAM and flash agree field by field. A setter
  either stores what it put in RAM, or clears `intact`, or (an added card) takes it back.
  For the crash state the invariant relates the stored count to the history `crashes` at
  each stage between the reset and the comparison. While a store runs, the record it names
  is left out: `AcceptedCardsAreDurable` excepts its one card, and `StoreEnds` puts either
  the flash or the list right in the step that ends it.
- `LogsInvariant`, and from it `RestartsFindTheHead` and `RecentRecordsStay`, for every
  number of sectors and records a sector. That the scan finds the head is not inductive:
  `LogsInv` says how the ring is laid out. The record before the head is the newest, the
  rest of the head's sector is blank, a sector whose first slot is blank is blank
  throughout, and the `kept` slots behind the head hold records in order. A wrap, an erase
  that fails half way and a record that opens a sector keep this, or end `sound`. The store
  of the card list goes through the same sectors one by one and costs the event log
  nothing until `overlapped`.
- `OtaInvariant`: `OnlyAcceptedImage` says nothing while bank 0 is being rewritten, so the
  invariant (`ApplyProgress`) follows the image from COMMIT on: every record that can be
  pending, in RAM or flash, names a verified image; past the last test the RAM copy is that
  image; and the words before `pos` are already in bank 0. It holds although a BEGIN may
  erase the stage under a pending record, because the apply path reads the CRC again.
  `OtaTypeCorrect`, `OnlyAcceptedImages` and `UploadIsStaged` follow; `CommittedStands`
  because a chunk after a complete upload fails the offset or the size test.
- `DoneMeansArmed` (`LinkProofs`): `PushSpec => []DoneIsArmed`. No frame carries a
  session id that is still to be given out (`IdsInv`), so frames of older pushes are told
  apart whatever became of them. `LiveInv` follows the newest push: the COMMIT is the last
  frame of its push and leaves the queue empty when it is served, so after a positive
  answer nothing can undo what the answer says: the image is armed with the stage intact,
  or a boot has copied it.
- `MirrorInvariant` and `MirrorIsRight` (`LinkProofs`): `LinkSpec => []QuietMirror`, for any
  queue depths and any overlap of requests. `QuietMirror` speaks only of an empty line, so
  the invariant says for each of the four answers what an occupied one owes: the question is
  still to be answered, or the last frame of that kind on the line, or, without one, the
  mirror, has the value in force (`LastWord`). A switch the user has moved is covered by its
  own SET until the answer to it is published. For list and total the order counts too
  (`Followed`): a change that is still queued has the question behind it, or an event or a
  question that is still to come will put one there.
- `AlarmIsKept`, `PressesAreCounted` (`DeviceProofs`): an undisturbed copy is what is
  published; the edges of the copied fault bits are where the buzzer changes. The candidate
  and the count say how much of the end of the window is one reading; the latch of a held
  button falls with the first window of another, which is `let_go`.
- `HandshakeIsMasked` (`DeviceProofs`): a handshake under way ends within the pulse and tail it belongs to
  (`InWindow`), and within a test by the phase that waits for it (`InTest`), so that none
  is left when the safety task looks again.
- `BridgeInvariant`, and from it `StreamStaysAligned` and `PublishedIsRetained`, for every
  buffer, number of topics and budget. `StreamAligned` is inductive with the types: the
  parser cuts an even prefix, the network appends whole packets, a death of the link drops
  both. `PrevIsPublished` is not, since `prev` is written before the messages are on their
  way: `Known` says, from the end of a connection's full first publication on, that the
  last message under way on each topic, or, if there is none, the retained value, says what
  `prev` says, with the block that is being executed taken into account. The invariant
  leaves the memory of the stock daemons untyped; nothing depends on what they write.
- `OnlySentFramesHolds` (`SerialProofs`): `TlvSpec => OnlySentFrames`, a refinement of
  `FrameLine`, for any payloads, senders, ring length and losses, at either receiver.
  `LineInv` is about the bytes that wait, in the ring and the buffer together: every CRC
  among them is that of a frame that has left its sender, their numbers grow from one to the
  next, and all are beyond the frames already dispatched (`CrcsTrue`, `OutTrue`). A receiver
  takes a region that ends with the CRC of its own bytes, so the region is that frame from
  LEN on, whatever garbage it was found behind; both resynchronisations only take bytes off
  the front, which the invariant does not mind (`Reads`).
- `IntactFrameKeptHolds`: `TlvSpec => []IntactFrameKept`. `FramesInv` adds that a frame none
  of whose bytes was hit stands among the waiting bytes without a gap, up to what its sender
  still has. A round of the loop cannot cut into it: dropping a byte at its start would need
  `tlv_parse` to reject a frame or a beginning of one, and a region taken before it that
  reached into it would end with a CRC, which a frame has only at its end. On the way,
  `PollKeeps` shows that the branch of `comms_task.c:580` (a full accumulator and nothing to
  parse) is never taken, as its comment says: an accumulator of `FRAME_MAX` bytes always
  parses to a frame or to an error.
- `CardsAreReportedOnce`: `ReaderSpec => []SwipesAreCards`. The frames have no checksum, so
  the invariant (`ReaderInv`) keeps an account. Every byte from the last one consumed to
  the wire is marked with the frame it was sent in, its place in it, and the number of
  bytes hit so far; what `try_parse_one` takes for a frame is the frame it was sent as, or
  a byte in it was hit. `Paid` says that the swipes, and one more if what is latched is not
  the last frame's card, are at most the cards put down so far and two per byte hit that
  has been consumed: one hit may show a wrong card and, with the next frame, the right one
  again. Ring and wire together hold at most one frame, so the ring's 64 bytes never drop one.

No invariant or action property of a passing run is left to the model checker alone. Only
model-checked are the eight liveness properties (`ReplugEnds`, `CoolingEnds`,
`OverdrawStops`, `BootSettles`, `ReaderConverges`, `GroundFaultSeen`, `MirrorCatchesUp`,
`BrokerCatchesUp`), which rest on fairness and are out of the prover's reach.

## What the code does and its comments do not say

Three have runs that expect the violation (findings in `PROJECT.json`):

- `hot_charge`: SIMULATE_REPLUG leaves COOLING_DOWN while hot, and the unit charges with
  FAULT_OVER_TEMP active (`safety_task.c:1044`; comment at 790-792).
- `ota_torn`: a power loss during the overwrite of bank 0 leaves nothing that could apply
  the staged image again (`hal/gd32f205/flash.c:201`; comment at 339-340).
- `overlap`: the event log's ring covers both slots of the card list and erases it
  (`event_log.h:7`; `rfid_authlist.h:7-8`, 32).

Seen while modelling, without a run. Safety task:

- CLEAR_FAULT after a failed GFCI self-test goes straight to READY, and the unit charges
  without a passed test (`safety_task.c:979`; comment at 973-976).
- CLEAR_FAULT(16) during COOLING_DOWN removes the fault whose clear edge is the only exit:
  a cooled unit stays there for good (`safety_task.c:1807-1819`; `safety_task.h:25`, "Has no
  effect on self-clearing faults"). `CoolingEnds` excepts it and says that nothing else does.
- SIMULATE_REPLUG and USER_RESUME in one batch close the contactor inside the replug
  window (`safety_task.c:1010-1018`, 830; comments at 67-69 and 484-487).
- USER_PAUSE, USER_RESUME, RUN_GFCI_CAL_TEST in one batch start the calibration test with
  the contactor closed (comment at 1074, "no contactor involvement").
- A vehicle unplugged during COOLING_DOWN keeps its authorization (early return at
  796-800; comment at 801-803, "regardless of which non-fault state").
- A pause is lost through COOLING_DOWN, which ends in READY (1817-1819), and one that stands
  when a replug window ends becomes READY with it (1956-1960), so that the charge starts
  again with the gun held in (comment at 812-814, "keeps the pause sticky"). `PauseHolds`
  counts both as releases.
- CMD_RESTART in a session loses its session record.
- CMD_RESTART clears FAULT_GFCI (`core/fault.h:12-13`, "cleared only by power-cycle").
- `first_raised` may name a self-clearing fault that did not lead to FAULT.
- A hard trip and a soft ramp in one poll leave a derate to the next session (1737-1740).
- At the 6 A floor a draw between 6.3 and 7.2 A is never cut off (1650). The meter's
  `valid` flag is never cleared (2209), and energy integrates the last power reading also
  when that poll's read failed.
- A full inbox drops the request (`safety_task.h:20-22`).

Records and update:

- A setter whose store failed returns 0 when it is retried with the same value, and the
  flash keeps the old record (`boot_config.c:72`; `boot_config.h:47-48`). The calibration
  setters do the same, and a later setter stores what the failed one left.
- A card removed, or a list cleared, by a store that failed is back after a restart.
- A card is accepted from the moment it is in the RAM list, before and during its store; if
  the store fails the session it started goes on (`rfid_authlist.c:90-94`).
- A watchdog reset whose flag no boot has read yet hides the pin reset after it
  (`reset_cause.c:16-30`); a power-on clears the flags.
- When the flash chip is not found the records stay zero, and a later setter stores the
  zeros; a calibration slope of zero divides by zero in the ADC interrupt.
- A boot count that cannot be read stamps 65535, and the records of later boots look older
  to the log's scan. The scan looks only at the first record of a sector for garbage.
- The alive marker is dropped when the persist queue is full, and is not posted again.
- `pingpong.h:8-9`, "At rest exactly one slot is CRC-valid": after a power loss before the
  prior slot is erased, or a return of -6, two are, until the next store.
- The lifetime energy sums only the sessions the ring still holds.
- An image of more than 64 KB is accepted by BEGIN, acknowledged by COMMIT and dropped at
  the next boot (`flash.c:263`; `ota_stage.h:17-19` sizes the region for 512 KB images).
- `hal/flash.h:44`, "Clears the pending-OTA flag and triggers a system reset": the
  overwrite resets with the flag set, and the next boot clears it (`flash.c:336-338`).
- ABORT after COMMIT leaves the image pending, although `ota_stage.h:69-71` gives
  `ota_stage_clear_pending` the purpose "to abort a staged image".
- A COMMIT answered PERSIST_FAIL may still take effect: the RAM copy has the pending flag,
  and the next setter of another field stores it; its retry is answered OK without a write.
- `main.c:152` calls the apply path "Default OFF"; `cmake/options.cmake:60` has it on.

Panel, reader, ground fault monitor:

- CMD_BUZZER_BEEP replaces the alarm pattern for good (`ui/buzzer.h`, "until cleared"); an
  edge lost in a torn snapshot never starts or stops it.
- FAULT_GFCI raised while another latched fault sounds keeps the other fault's pattern.
- The remote colour hides the red flash (`led_patterns.c:183`; comment at 190).
- A press of PC9 in the same poll hides one of the top button.
- A UID with the byte AA can stop the parser for good after one lost byte, although the
  comment at `core/rfid.c:32-33` says garbage cannot: `rfid_feed` drops one
  byte per call (`rfid.c:17-25`, 91) and its 16 bytes, "generous" in `rfid.h`, hold less
  than two frames. `ReaderConverges` promises nothing for such a card once a byte was
  disturbed; without disturbance it holds for it too.
- A calibration test at run time that overlaps a refresh leaves one handshake unmasked.
- The self-test takes a ground fault in its polled phases for the handshake.

Serial line, module, upload:

- `comms_task.c:137` compares with the amps in force while an older SET is still queued:
  the later command is dropped (comment at 128-133, "Idempotent"). A GET_STATE behind a
  SET reports the old amps.
- BOOT_COMPLETE does not ask again for authorization, policy or list, so the module's
  `session_authorized` stays TRUE over a reset of the charger. A failed store of
  REQUIRE_RFID_AUTH publishes nothing, although the value it leaves in RAM is in force; a card may be reported LEARNED although its record
  could not be queued.
- A sender that waits 50 ms for the mutex drops its frame. A line fault costs the module
  up to two intact frames, and after a resynchronisation it takes a frame whose second
  start byte was spoilt.
- The upload repeats nothing but a chunk after OFFSET_MISMATCH: a lost COMMITTED, or an
  abort after COMMIT, reports FAILED although the image is armed.

Companion:

- A reconnect republishes no `last_uid` (`mqtt_adapter.c` 485-487 says it does), and
  `connected` is not reset when the link is lost.
- A rejected configuration POST leaves its earlier keys in the live configuration, and a
  later accepted one writes them (`web.c:542-543`). The file is truncated before it is
  written: after a power loss all settings are the defaults, the web page off.
- A burst that fills the 1024-byte buffer with complete packets drops the link and them.
- An error disconnect sends DISCONNECT, so the will is not published and the charger stays
  online on the dashboard. Commands received together with the close are dropped.
- A change below the epsilon is remembered without being published: a slow drift never is.
- After a restart from the web page the page is gone: the listening socket is inherited
  through `execv`, and the bind of the new process fails (`web.c:1135`, 1149), unless the
  file names another port.
- Turning `write_enable` off leaves the retained discovery of the controls.

## Not modelled

- PWM and LED arithmetic, drivers and register access; the BL0939 protocol and the energy
  sum; ADC scans beyond their classes; wall clock arithmetic. They decide nothing the
  properties are about.
- The ESPHome set-up in Python and YAML, number formatting and the MAC override; the text
  of the companion's pages, topics and packets.
- The Eluminocity personalities that replace stock daemons (meter, adc, led): single
  loops that copy registers to fixed offsets, without protocol state; the companion's own
  card reader.
- The Nexcyber port, which is stubs and bench code; the stack watch, which is
  diagnostics; vendored libraries.
- The real duration of a GFCI self-test (seconds with every detector stopped) is a stage,
  not a time, in `SafetyTask`; a chance match of a CRC.

## What could follow

- `GfciMonitor` composed with `SafetyTask`, with the loop stopped for the test's duration.
- `Link` and `OtaPush` over an instance of `FrameLine` for each direction, in place of
  their own queues of frames.
