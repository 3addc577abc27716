--------------------------------- MODULE Ota --------------------------------
(***************************************************************************)
(* Firmware update: the persist task's OTA handlers (tasks/persist_task.c) *)
(* over the stage region (persist/ota_stage.c), and the boot that copies a *)
(* committed image into bank 0 (main.c, hal/gd32f205/flash.c).  Flash is   *)
(* an array of cells.  CRC32 is taken to be injective: the CRC of n cells  *)
(* is their contents.  The boot_config record is used through what         *)
(* AtomicRecord promises of its store: a store leaves the old or the new   *)
(* record, and the new one when it returns 0.                              *)
(***************************************************************************)
EXTENDS Naturals, Sequences

CONSTANTS
  Data,                      \* contents a client may send
  Blank, Garbage,            \* an erased cell, a badly programmed one
  OTA_STAGE_REGION_SIZE,     \* cells in the stage region
  W25Q_SECTOR_SIZE,          \* cells per erase sector of the stage
  BANK0_SIZE,                \* cells in bank 0
  FLASH_PAGE_SIZE,           \* cells per erase page of bank 0
  FLASH_OTA_APPLY_MAX_SIZE,  \* largest image the apply path copies
  SessionIds, Announced,     \* BEGIN arguments: tokens; <<size, crc>> pairs
  Chunks,                    \* CHUNK payloads, sequences of Data
  Factory                    \* <<size, crc>> of the image programmed by SWD

Cell == Data \cup {Blank, Garbage}
Addresses(n) == 0..(n - 1)

\* crc32, ota_crc_*, ota_stage_compute_crc: over the first n cells of f.
crc32(f, n) == [i \in Addresses(n) |-> f[i]]

ASSUME OtaAssumption ==
  /\ Blank \notin Data /\ Garbage \notin Data /\ Blank # Garbage
  /\ OTA_STAGE_REGION_SIZE \in Nat \ {0} /\ BANK0_SIZE \in Nat \ {0}
  /\ W25Q_SECTOR_SIZE \in Nat \ {0} /\ FLASH_PAGE_SIZE \in Nat \ {0}
  /\ FLASH_OTA_APPLY_MAX_SIZE \in Nat
  /\ FLASH_OTA_APPLY_MAX_SIZE <= BANK0_SIZE
  /\ FLASH_OTA_APPLY_MAX_SIZE <= OTA_STAGE_REGION_SIZE
  /\ SessionIds \subseteq Nat /\ Chunks \subseteq Seq(Data) \ {<<>>}
  /\ \A a \in Announced : a[1] \in Nat
  /\ Factory[1] \in 1..BANK0_SIZE /\ Factory[2] \in [Addresses(Factory[1]) -> Data]

VARIABLES
  stage,     \* the W25Q stage region
  sess,      \* s_ota: token (0: none), announced size and CRC, next_offset
  running,   \* what the running CRC has been fed
  reply,     \* status of the last acknowledgement
  ram,       \* s_cfg: pending flag, staged size and CRC
  durable,   \* the record a boot loads
  bank0,     \* internal flash, where the firmware runs from
  whole,     \* no overwrite of bank 0 has been left half way
  buf,       \* the apply path's RAM copy
  pos,       \* next page or word of the overwrite
  mode,      \* where the unit is, from reset to the running tasks
  accepted   \* history: the factory image and those COMMIT has verified

session  == <<sess, running>>
bootVars == <<bank0, whole, buf, pos, mode>>
otaVars  == <<stage, sess, running, reply, ram, durable, bootVars, accepted>>

Nothing       == [i \in {} |-> Blank]
NoSession     == [id |-> 0, size |-> 0, crc |-> Nothing, next |-> 0]
NotPending    == [pending |-> 0, size |-> 0, crc |-> Nothing]
Pending(n, c) == [pending |-> 1, size |-> n, crc |-> c]

Crcs          == {a[2] : a \in Announced} \cup {Nothing}
PendingRecord == [pending : 0..1, size : 0..OTA_STAGE_REGION_SIZE, crc : Crcs]

\* Round n up to a multiple of unit.
AlignUp(n, unit) == ((n + unit - 1) \div unit) * unit

OtaInit ==
  /\ stage = [i \in Addresses(OTA_STAGE_REGION_SIZE) |-> Blank]
  /\ sess = NoSession /\ running = <<>> /\ reply = "none"
  /\ ram = NotPending /\ durable = NotPending
  /\ bank0 = [i \in Addresses(BANK0_SIZE) |-> IF i < Factory[1] THEN Factory[2][i] ELSE Blank]
  /\ whole = TRUE /\ buf = Nothing /\ pos = 0 /\ mode = "reset"
  /\ accepted = {Factory}

-----------------------------------------------------------------------------
\* boot_config_set_pending_ota(r) returning 0, at once when r is already there.
SetPendingOk(r) ==
  /\ ram' = r
  /\ durable' = IF ram = r THEN durable ELSE r

\* The same returning an error: the RAM copy has changed, the flash may have.
SetPendingFails(r) ==
  /\ ram # r /\ ram' = r
  /\ durable' \in {durable, r}

\* Another setter of boot_config stores the whole record, these fields included.
StoreConfig ==
  /\ mode = "run" /\ ram # durable
  /\ durable' = ram
  /\ UNCHANGED <<stage, session, reply, ram, bootVars, accepted>>

-----------------------------------------------------------------------------
\* ota_session_reset.
ota_session_reset == sess' = NoSession /\ running' = <<>>

\* ota_stage_begin: sectors covering n cells; stopped at sector k it leaves r there.
Erased(n) ==
  [i \in DOMAIN stage |-> IF i < AlignUp(n, W25Q_SECTOR_SIZE) THEN Blank ELSE stage[i]]
EraseStopped(n) ==
  {[i \in DOMAIN stage |->
      IF i < k * W25Q_SECTOR_SIZE THEN Blank
      ELSE IF i < (k + 1) * W25Q_SECTOR_SIZE /\ torn THEN Garbage ELSE stage[i]] :
   k \in 0..((AlignUp(n, W25Q_SECTOR_SIZE) \div W25Q_SECTOR_SIZE) - 1), torn \in BOOLEAN}

\* Mutant: BEGIN keeps the offset and CRC of the session it preempts.
handle_ota_begin_KeepOffset(id, size, crc) ==
  /\ mode = "run" /\ id # 0 /\ size \in 1..OTA_STAGE_REGION_SIZE
  /\ stage' = Erased(size)
  /\ sess' = [id |-> id, size |-> size, crc |-> crc, next |-> sess.next]
  /\ reply' = "OK" /\ UNCHANGED <<running, ram, durable, bootVars, accepted>>

\* handle_ota_begin: a second BEGIN preempts; a failed erase leaves no session.
handle_ota_begin(id, size, crc) ==
  /\ mode = "run"
  /\ \/ /\ id = 0 \/ size = 0
        /\ reply' = "INVALID_PAYLOAD" /\ UNCHANGED <<stage, session>>
     \/ /\ id # 0 /\ size > OTA_STAGE_REGION_SIZE
        /\ reply' = "TOO_LARGE" /\ UNCHANGED <<stage, session>>
     \/ /\ id # 0 /\ size \in 1..OTA_STAGE_REGION_SIZE
        /\ \/ /\ stage' = Erased(size)
              /\ sess' = [id |-> id, size |-> size, crc |-> crc, next |-> 0]
              /\ running' = <<>> /\ reply' = "OK"
           \/ /\ stage' \in EraseStopped(size)
              /\ ota_session_reset /\ reply' = "ERASE_FAIL"
  /\ UNCHANGED <<ram, durable, bootVars, accepted>>

\* Programming only clears bits: over anything but a blank cell or the same
\* contents it leaves something else.
ProgramCell(old, new) == IF old \in {Blank, new} THEN new ELSE Garbage

\* Cells a command gets wrong without saying so: at most one at a time.
AtMostOne == {{}} \cup {{i} : i \in DOMAIN stage}

\* ota_stage_write after n cells of data at offset.  Nothing is read back, so
\* cells in bad may be spoilt.
Written(offset, data, n, bad) ==
  [i \in DOMAIN stage |->
     IF i \in offset..(offset + n - 1)
     THEN IF i \in bad THEN Garbage ELSE ProgramCell(stage[i], data[i - offset + 1])
     ELSE stage[i]]

\* Mutant: the offset of a chunk is not compared.
ChunkVerdict_AnyOffset(id, offset, data) ==
  IF sess.id = 0 THEN "NO_SESSION"
  ELSE IF id # sess.id THEN "SESSION_INVALID"
  ELSE IF offset + Len(data) > sess.size THEN "OVERSIZE" ELSE "OK"

\* Why CHUNK is refused, in the order of the tests; "OK" if it is not.
ChunkVerdict(id, offset, data) ==
  IF sess.id = 0 THEN "NO_SESSION"
  ELSE IF id # sess.id THEN "SESSION_INVALID"
  ELSE IF offset # sess.next THEN "OFFSET_MISMATCH"
  ELSE IF offset + Len(data) > sess.size THEN "OVERSIZE" ELSE "OK"

\* handle_ota_chunk: a failed write leaves the session where it was, to be retried
\* over what the write has left.
handle_ota_chunk(id, offset, data) ==
  /\ mode = "run"
  /\ \/ /\ ChunkVerdict(id, offset, data) # "OK"
        /\ reply' = ChunkVerdict(id, offset, data) /\ UNCHANGED <<stage, session>>
     \/ /\ ChunkVerdict(id, offset, data) = "OK"
        /\ \E n \in 0..Len(data), bad \in AtMostOne :
             stage' = Written(offset, data, n, bad)
        /\ reply' = "WRITE_ERROR" /\ UNCHANGED session
     \/ /\ ChunkVerdict(id, offset, data) = "OK"
        /\ \E bad \in AtMostOne : stage' = Written(offset, data, Len(data), bad)
        /\ running' = running \o data
        /\ sess' = [sess EXCEPT !.next = offset + Len(data)]
        /\ reply' = "OK"
  /\ UNCHANGED <<ram, durable, bootVars, accepted>>

\* Why COMMIT is refused; the CRC is read back from the stage.
CommitVerdict(id) ==
  IF sess.id = 0 THEN "NO_SESSION"
  ELSE IF id # sess.id THEN "SESSION_INVALID"
  ELSE IF sess.next # sess.size THEN "OFFSET_MISMATCH"
  ELSE IF crc32(stage, sess.size) # sess.crc THEN "CRC_MISMATCH" ELSE "OK"

\* handle_ota_commit: the session stays open, so that COMMIT may be repeated.
handle_ota_commit(id) ==
  /\ mode = "run"
  /\ \/ /\ CommitVerdict(id) # "OK"
        /\ reply' = CommitVerdict(id) /\ UNCHANGED <<ram, durable, accepted>>
     \/ /\ CommitVerdict(id) = "OK"
        /\ accepted' = accepted \cup {<<sess.size, sess.crc>>}
        /\ \/ SetPendingOk(Pending(sess.size, sess.crc)) /\ reply' = "OK"
           \/ SetPendingFails(Pending(sess.size, sess.crc)) /\ reply' = "PERSIST_FAIL"
  /\ UNCHANGED <<stage, session, bootVars>>

\* handle_ota_abort: a stale token changes nothing; the pending flag stays.
handle_ota_abort(id) ==
  /\ mode = "run" /\ reply' = "ABORTED"
  /\ IF sess.id # 0 /\ id = sess.id THEN ota_session_reset ELSE UNCHANGED session
  /\ UNCHANGED <<stage, ram, durable, bootVars, accepted>>

-----------------------------------------------------------------------------
\* Power goes, or the operator cycles it: RAM is lost, both flashes are not.
Reset ==
  /\ ota_session_reset /\ reply' = "none"
  /\ ram' = NotPending /\ buf' = Nothing /\ pos' = 0 /\ mode' = "reset"

PowerLoss ==
  /\ Reset
  /\ UNCHANGED <<stage, durable, bank0, whole, accepted>>

\* main up to boot_config_load.  This code is in bank 0: with a half written
\* image there it does not run.
Boot ==
  /\ mode = "reset" /\ whole
  /\ mode' = "boot" /\ ram' = durable
  /\ UNCHANGED <<stage, session, reply, durable, bank0, whole, buf, pos, accepted>>

\* Mutant: the image that is running is not compared with the staged one.
ApplyVerdict_NoRunning ==
  IF ram.pending = 0 THEN "not pending"
  ELSE IF ram.size = 0 \/ ram.size > FLASH_OTA_APPLY_MAX_SIZE THEN "out of range"
  ELSE IF crc32(stage, ram.size) # ram.crc THEN "drift" ELSE "apply"

\* Why the staged image is not applied, in the order of the tests.
ApplyVerdict ==
  IF ram.pending = 0 THEN "not pending"
  ELSE IF ram.size = 0 \/ ram.size > FLASH_OTA_APPLY_MAX_SIZE THEN "out of range"
  ELSE IF crc32(bank0, ram.size) = ram.crc THEN "already running"
  ELSE IF crc32(stage, ram.size) # ram.crc THEN "drift" ELSE "apply"

\* The flag is cleared, whether or not that can be stored, and the tasks start.
ClearAndRun ==
  /\ mode' = "run" /\ buf' = Nothing
  /\ SetPendingOk(NotPending) \/ SetPendingFails(NotPending)
  /\ UNCHANGED <<stage, session, reply, bank0, whole, pos, accepted>>

\* main and flash_apply_pending_ota_image up to the RAM copy; a read of the copy
\* may go wrong.
CheckPending ==
  /\ mode = "boot"
  /\ \/ ApplyVerdict # "apply" /\ ClearAndRun
     \/ /\ ApplyVerdict = "apply" /\ mode' = "copied"
        /\ \E bad \in AtMostOne :
             buf' = [i \in Addresses(ram.size) |-> IF i \in bad THEN Garbage ELSE stage[i]]
        /\ UNCHANGED <<stage, session, reply, ram, durable, bank0, whole, pos, accepted>>

\* Mutant: the RAM copy is written without its CRC check.
CheckCopy_Blind ==
  /\ mode = "copied"
  /\ mode' = "erase" /\ pos' = 0
  /\ UNCHANGED <<stage, session, reply, ram, durable, bank0, whole, buf, accepted>>

\* The RAM copy is checked; from here on there is no way back.
CheckCopy ==
  /\ mode = "copied"
  /\ \/ crc32(buf, ram.size) # ram.crc /\ ClearAndRun
     \/ /\ crc32(buf, ram.size) = ram.crc
        /\ mode' = "erase" /\ pos' = 0
        /\ UNCHANGED <<stage, session, reply, ram, durable, bank0, whole, buf, accepted>>

\* flash_erase_page_ram, page after page.
ErasePage ==
  /\ mode = "erase" /\ whole' = FALSE
  /\ bank0' = [i \in DOMAIN bank0 |->
                 IF i \in pos..(pos + FLASH_PAGE_SIZE - 1) THEN Blank ELSE bank0[i]]
  /\ IF pos + FLASH_PAGE_SIZE < ram.size
     THEN pos' = pos + FLASH_PAGE_SIZE /\ UNCHANGED mode
     ELSE pos' = 0 /\ mode' = "program"
  /\ UNCHANGED <<stage, session, reply, ram, durable, buf, accepted>>

\* flash_program_word_ram, which reads every word back; after the last one the
\* unit resets itself with the pending flag still set.
ProgramWord ==
  /\ mode = "program"
  /\ bank0' = [bank0 EXCEPT ![pos] = buf[pos]]
  /\ IF pos + 1 < ram.size
     THEN /\ pos' = pos + 1
          /\ UNCHANGED <<session, reply, ram, whole, buf, mode>>
     ELSE Reset /\ whole' = TRUE
  /\ UNCHANGED <<stage, durable, accepted>>

\* The FMC reports an error: the page or word is left in any state, and the unit
\* halts.  Unlocking it may fail too, with bank 0 untouched.
FlashFault ==
  /\ mode \in {"erase", "program"} /\ mode' = "halted"
  /\ \/ mode = "erase" /\ pos = 0 /\ UNCHANGED <<bank0, whole>>
     \/ \E c \in {Blank, Garbage} : bank0' = [bank0 EXCEPT ![pos] = c] /\ whole' = FALSE
  /\ UNCHANGED <<stage, session, reply, ram, durable, buf, pos, accepted>>

-----------------------------------------------------------------------------
OtaNext ==
  \/ \E id \in SessionIds, a \in Announced : handle_ota_begin(id, a[1], a[2])
  \/ \E id \in SessionIds, o \in 0..OTA_STAGE_REGION_SIZE, d \in Chunks :
       handle_ota_chunk(id, o, d)
  \/ \E id \in SessionIds : handle_ota_commit(id)
  \/ \E id \in SessionIds : handle_ota_abort(id)
  \/ StoreConfig
  \/ PowerLoss
  \/ Boot
  \/ CheckPending
  \/ CheckCopy
  \/ ErasePage
  \/ ProgramWord
  \/ FlashFault

OtaSpec == OtaInit /\ [][OtaNext]_otaVars

\* The processor keeps executing the boot and the apply path.
OtaFairSpec ==
  /\ OtaSpec
  /\ WF_otaVars(Boot) /\ WF_otaVars(CheckPending) /\ WF_otaVars(CheckCopy)
  /\ WF_otaVars(ErasePage) /\ WF_otaVars(ProgramWord)

-----------------------------------------------------------------------------
\* Flash cells, session, record and overwrite position are in range: no chunk
\* the handler accepts goes past the announced size, no word past the image.
OtaTypeOK ==
  /\ stage \in [Addresses(OTA_STAGE_REGION_SIZE) -> Cell]
  /\ bank0 \in [Addresses(BANK0_SIZE) -> Cell] /\ whole \in BOOLEAN
  /\ sess \in [id : SessionIds \cup {0}, size : 0..OTA_STAGE_REGION_SIZE, crc : Crcs,
               next : 0..OTA_STAGE_REGION_SIZE]
  /\ sess.next <= sess.size /\ running \in Seq(Data)
  /\ ram \in PendingRecord /\ durable \in PendingRecord
  /\ mode \in {"reset", "boot", "copied", "erase", "program", "halted", "run"}
  /\ mode \in {"erase", "program"} =>
       pos \in 0..(ram.size - 1) /\ ram.size <= FLASH_OTA_APPLY_MAX_SIZE

\* Whatever chunks are lost, repeated, reordered or left over from a preempted
\* session, and however often a failed write is retried: the cells before
\* next_offset hold what the acknowledged running CRC covers, or are spoilt,
\* which the CRC read back at COMMIT finds.
UploadMatchesStage ==
  /\ Len(running) = sess.next
  /\ \A i \in Addresses(sess.next) : stage[i] \in {running[i + 1], Garbage}

StageHolds(r) == r.pending = 1 /\ crc32(stage, r.size) = r.crc

\* After COMMIT the staged image stands although the session stays open: only
\* a new BEGIN, or chunks that follow one, change what the pending record names.
CommittedImageStands ==
  [][StageHolds(ram) /\ sess.next = sess.size /\ ram' = ram
       => StageHolds(ram)' \/ sess'.next = 0]_otaVars

\* The unit never starts anything but the factory image or an image that COMMIT
\* has verified: not one erased or half replaced by a later BEGIN, not a bad
\* read of the stage, not a half written bank.
OnlyAcceptedImage ==
  whole => \E a \in accepted : crc32(bank0, a[1]) = a[2]

\* Once power stays on, a boot of a whole image gets to the running tasks, halts
\* with a flash fault, or has had its overwrite cut off: the reset that ends an
\* apply with the pending flag still set does not lead to apply after apply.
BootSettles ==
  <>[][~PowerLoss]_otaVars =>
    ((mode = "reset" /\ whole) ~>
       (mode \in {"run", "halted"} \/ (mode = "reset" /\ ~whole)))

-----------------------------------------------------------------------------
\* "Half-written images at power-loss are caught by the same CRC check (mismatch
\* -> re-apply from W25Q)": an overwrite that has begun ends with a whole image,
\* if not in the halt that a flash fault leads to.
HalfWrittenIsReapplied ==
  (mode \in {"erase", "program"} /\ ~whole) ~> (whole \/ mode = "halted")
=============================================================================
