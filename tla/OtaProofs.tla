------------------------------ MODULE OtaProofs -----------------------------
(* Proofs about Ota, for every geometry of the flashes, image and chunk set. *)
EXTENDS Ota, TLAPS

\* What the overwrite rests on.  Every record that can be pending names an
\* image COMMIT has verified; past the last check the RAM copy is that image;
\* and the words before pos are already in bank 0.
ApplyProgress ==
  /\ ram.pending = 1 => <<ram.size, ram.crc>> \in accepted
  /\ durable.pending = 1 => <<durable.size, durable.crc>> \in accepted
  /\ mode \in {"copied", "erase", "program"} =>
       /\ ram.pending = 1 /\ ram.size \in 1..FLASH_OTA_APPLY_MAX_SIZE
       /\ buf \in [Addresses(ram.size) -> Cell]
  /\ mode \in {"erase", "program"} => crc32(buf, ram.size) = ram.crc
  /\ mode = "program" => ~whole /\ \A i \in Addresses(pos) : bank0[i] = buf[i]

OtaInv == OtaTypeOK /\ ApplyProgress /\ OnlyAcceptedImage /\ UploadMatchesStage

\* The initial state: the factory image, nothing pending, no session.
LEMMA OtaInitInv == OtaInit => OtaInv
<1> SUFFICES ASSUME OtaInit PROVE OtaInv OBVIOUS
<1>1. OtaTypeOK
  BY OtaAssumption DEF OtaInit, OtaTypeOK, Addresses, Cell, NoSession, NotPending,
     PendingRecord, Crcs
<1>2. ApplyProgress
  BY DEF OtaInit, ApplyProgress, NotPending
<1>3. crc32(bank0, Factory[1]) = Factory[2]
  <2> DEFINE n == Factory[1]  c == Factory[2]
  <2>1. n \in 1..BANK0_SIZE /\ c \in [0..(n - 1) -> Data] /\ BANK0_SIZE \in Nat
    BY OtaAssumption DEF Addresses
  <2>2. bank0 = [i \in 0..(BANK0_SIZE - 1) |-> IF i < n THEN c[i] ELSE Blank]
    BY DEF OtaInit, Addresses
  <2> HIDE DEF n, c
  <2>3. [i \in 0..(n - 1) |-> bank0[i]] = [i \in 0..(n - 1) |-> c[i]]
    BY <2>1, <2>2
  <2>4. [i \in 0..(n - 1) |-> c[i]] = c
    BY <2>1
  <2> QED BY <2>3, <2>4 DEF n, c, crc32, Addresses
<1>4. OnlyAcceptedImage
  BY <1>3 DEF OtaInit, OnlyAcceptedImage
<1>5. UploadMatchesStage
  BY DEF OtaInit, UploadMatchesStage, NoSession, Addresses
<1> QED BY <1>1, <1>2, <1>4, <1>5 DEF OtaInv

\* A BEGIN erases sectors and opens or drops the session; bank 0 and the record stay.
LEMMA BeginInv ==
  ASSUME OtaInv, NEW id \in SessionIds, NEW a \in Announced,
         handle_ota_begin(id, a[1], a[2])
  PROVE  OtaInv'
<1> USE DEF OtaInv
<1>0. UNCHANGED <<ram, durable, bank0, whole, buf, pos, mode, accepted>>
  BY DEF handle_ota_begin, bootVars
<1>1. stage' \in [Addresses(OTA_STAGE_REGION_SIZE) -> Cell]
  <2>1. Blank \in Cell /\ Garbage \in Cell BY DEF Cell
  <2>2. DOMAIN stage = Addresses(OTA_STAGE_REGION_SIZE) BY DEF OtaTypeOK
  <2>3. Erased(a[1]) \in [Addresses(OTA_STAGE_REGION_SIZE) -> Cell]
    BY <2>1, <2>2 DEF Erased, OtaTypeOK
  <2>4. ASSUME NEW f \in EraseStopped(a[1])
        PROVE  f \in [Addresses(OTA_STAGE_REGION_SIZE) -> Cell]
    BY <2>1, <2>2 DEF EraseStopped, OtaTypeOK
  <2> QED BY <2>3, <2>4 DEF handle_ota_begin, OtaTypeOK
<1>2. \/ UNCHANGED <<stage, sess, running>>
      \/ sess'.next = 0 /\ running' = <<>>
         /\ sess' \in [id : SessionIds \cup {0}, size : 0..OTA_STAGE_REGION_SIZE,
                       crc : Crcs, next : 0..OTA_STAGE_REGION_SIZE]
  BY OtaAssumption DEF handle_ota_begin, ota_session_reset, session, NoSession, Crcs
<1>3. OtaTypeOK'
  <2> DEFINE S == [id : SessionIds \cup {0}, size : 0..OTA_STAGE_REGION_SIZE,
                   crc : Crcs, next : 0..OTA_STAGE_REGION_SIZE]
  <2>0. sess \in S /\ running \in Seq(Data) /\ <<>> \in Seq(Data)
    BY DEF OtaTypeOK
  <2>1. sess' \in S /\ running' \in Seq(Data)
    <3>1. CASE UNCHANGED <<stage, sess, running>>
      BY <2>0, <3>1
    <3>2. CASE sess' \in S /\ running' = <<>>
      BY <2>0, <3>2
    <3> QED BY <1>2, <3>1, <3>2
  <2>2. sess'.next <= sess'.size
    BY <1>2, OtaAssumption DEF OtaTypeOK
  <2> QED BY <1>0, <1>1, <2>1, <2>2 DEF OtaTypeOK
<1>4. UploadMatchesStage'
  BY <1>2 DEF UploadMatchesStage, Addresses
<1>5. ApplyProgress' /\ OnlyAcceptedImage'
  BY <1>0 DEF ApplyProgress, OnlyAcceptedImage, crc32
<1> QED BY <1>3, <1>4, <1>5

\* A chunk programs the stage from next_offset on and no further than the
\* announced size; what it leaves is its data or a spoilt cell.
LEMMA ChunkInv ==
  ASSUME OtaInv, NEW id \in SessionIds, NEW o \in 0..OTA_STAGE_REGION_SIZE,
         NEW d \in Chunks, handle_ota_chunk(id, o, d)
  PROVE  OtaInv'
<1> USE DEF OtaInv
<1>0. UNCHANGED <<ram, durable, bank0, whole, buf, pos, mode, accepted>>
  BY DEF handle_ota_chunk, bootVars
<1>1. ApplyProgress' /\ OnlyAcceptedImage'
  BY <1>0 DEF ApplyProgress, OnlyAcceptedImage, crc32
<1>2. d \in Seq(Data) /\ Len(d) \in Nat \ {0} /\ o \in Nat
      /\ OTA_STAGE_REGION_SIZE \in Nat
  BY OtaAssumption
<1>3. CASE ChunkVerdict(id, o, d) # "OK"
  <2>1. UNCHANGED <<stage, sess, running>>
    BY <1>3 DEF handle_ota_chunk, session
  <2> QED BY <1>0, <1>1, <2>1 DEF OtaTypeOK, UploadMatchesStage
<1>4. CASE ChunkVerdict(id, o, d) = "OK"
  <2>1. o = sess.next /\ o + Len(d) <= sess.size
    BY <1>2, <1>4 DEF ChunkVerdict, OtaTypeOK
  <2>2. PICK n \in 0..Len(d), bad \in AtMostOne : stage' = Written(o, d, n, bad)
    <3>1. Len(d) \in 0..Len(d) BY <1>2
    <3> QED BY <1>4, <3>1 DEF handle_ota_chunk
  <2>3. /\ stage' \in [Addresses(OTA_STAGE_REGION_SIZE) -> Cell]
        /\ \A i \in Addresses(o) : i \in DOMAIN stage => stage'[i] = stage[i]
    <3>1. \A i \in o..(o + n - 1) : d[i - o + 1] \in Data
      BY <1>2
    <3>2. \A i \in DOMAIN stage : \A x \in Data : ProgramCell(stage[i], x) \in Cell
      BY DEF ProgramCell, Cell
    <3>3. DOMAIN stage = Addresses(OTA_STAGE_REGION_SIZE) BY DEF OtaTypeOK
    <3> QED BY <1>2, <2>2, <3>1, <3>2, <3>3 DEF Written, OtaTypeOK, Cell, Addresses
  <2>4. CASE UNCHANGED session
    <3>1. UNCHANGED <<sess, running>> BY <2>4 DEF session
    <3>2. OtaTypeOK'
      BY <1>0, <2>3, <3>1 DEF OtaTypeOK
    <3>3. UploadMatchesStage'
      BY <1>2, <2>1, <2>3, <3>1 DEF OtaTypeOK, UploadMatchesStage, Addresses
    <3> QED BY <1>1, <3>2, <3>3
  <2>5. CASE /\ \E b \in AtMostOne : stage' = Written(o, d, Len(d), b)
             /\ running' = running \o d
             /\ sess' = [sess EXCEPT !.next = o + Len(d)]
    <3>0. running' = running \o d /\ sess' = [sess EXCEPT !.next = o + Len(d)]
      BY <2>5
    <3>1. sess'.next = o + Len(d) /\ sess'.size = sess.size
      BY <3>0 DEF OtaTypeOK
    <3>2. OtaTypeOK'
      <4>1. running' \in Seq(Data)
        BY <1>2, <2>5 DEF OtaTypeOK
      <4>2. sess' \in [id : SessionIds \cup {0}, size : 0..OTA_STAGE_REGION_SIZE,
                       crc : Crcs, next : 0..OTA_STAGE_REGION_SIZE]
        <5> DEFINE S == [id : SessionIds \cup {0}, size : 0..OTA_STAGE_REGION_SIZE,
                         crc : Crcs, next : 0..OTA_STAGE_REGION_SIZE]
        <5>1. sess \in S /\ sess.size \in 0..OTA_STAGE_REGION_SIZE
          BY DEF OtaTypeOK
        <5>2. o + Len(d) \in 0..OTA_STAGE_REGION_SIZE
          BY <1>2, <2>1, <5>1
        <5> QED BY <3>0, <5>1, <5>2
      <4> QED BY <1>0, <2>1, <2>3, <3>1, <4>1, <4>2 DEF OtaTypeOK
    <3>3. UploadMatchesStage'
      <4>1. Len(running) = o /\ running \in Seq(Data)
        BY <2>1 DEF OtaTypeOK, UploadMatchesStage
      <4>2. Len(running') = sess'.next
        <5>1. Len(running \o d) = Len(running) + Len(d)
          BY <1>2, <4>1
        <5> QED BY <3>0, <3>1, <4>1, <5>1
      <4>3. ASSUME NEW i \in Addresses(sess'.next)
            PROVE  stage'[i] \in {running'[i + 1], Garbage}
        <5>1. i \in DOMAIN stage
          BY <1>2, <2>1, <3>1 DEF OtaTypeOK, Addresses
        <5>2. CASE i < o
          <6>1. running'[i + 1] = running[i + 1]
            BY <1>2, <2>5, <3>1, <4>1, <5>2 DEF Addresses
          <6>2. stage'[i] = stage[i] /\ stage[i] \in {running[i + 1], Garbage}
            BY <1>2, <2>1, <2>3, <3>1, <5>1, <5>2 DEF Addresses, UploadMatchesStage
          <6> QED BY <6>1, <6>2
        <5>3. CASE ~(i < o)
          <6>1. i \in o..(o + Len(d) - 1) /\ i - o + 1 \in 1..Len(d)
            BY <1>2, <3>1, <5>3 DEF Addresses
          <6>2. running'[i + 1] = d[i - o + 1]
            BY <1>2, <2>5, <4>1, <6>1
          <6>3. PICK b \in AtMostOne : stage' = Written(o, d, Len(d), b)
            BY <2>5
          <6>4. stage'[i] \in {d[i - o + 1], Garbage}
            BY <5>1, <6>1, <6>3 DEF Written, ProgramCell
          <6> QED BY <6>2, <6>4
        <5> QED BY <5>2, <5>3
      <4> QED BY <4>2, <4>3 DEF UploadMatchesStage
    <3> QED BY <1>1, <3>2, <3>3
  <2> QED BY <1>4, <2>4, <2>5 DEF handle_ota_chunk
<1> QED BY <1>3, <1>4

\* COMMIT puts an image into the record only after adding it to accepted.
LEMMA CommitInv ==
  ASSUME OtaInv, NEW id \in SessionIds, handle_ota_commit(id)
  PROVE  OtaInv'
<1> USE DEF OtaInv
<1>0. UNCHANGED <<stage, sess, running, bank0, whole, buf, pos, mode>> /\ mode = "run"
  BY DEF handle_ota_commit, bootVars, session
<1>1. accepted \subseteq accepted'
  BY DEF handle_ota_commit
<1>2. UploadMatchesStage' /\ OnlyAcceptedImage'
  BY <1>0, <1>1 DEF UploadMatchesStage, OnlyAcceptedImage, crc32
<1> DEFINE r == Pending(sess.size, sess.crc)
<1>3. \/ UNCHANGED <<ram, durable>>
      \/ /\ <<sess.size, sess.crc>> \in accepted'
         /\ ram' = r /\ durable' \in {durable, r}
  BY DEF handle_ota_commit, SetPendingOk, SetPendingFails
<1>4. r \in PendingRecord /\ r.size = sess.size /\ r.crc = sess.crc
  BY DEF OtaTypeOK, PendingRecord, Pending
<1>5. OtaTypeOK'
  BY <1>0, <1>3, <1>4 DEF OtaTypeOK
<1>6. ApplyProgress'
  BY <1>0, <1>1, <1>3, <1>4 DEF ApplyProgress
<1> QED BY <1>2, <1>5, <1>6

\* Dropping the session satisfies what is said of sessions, whatever the stage holds.
LEMMA SessionReset ==
  ASSUME OtaInv, ota_session_reset
  PROVE  /\ UploadMatchesStage'
         /\ sess' \in [id : SessionIds \cup {0}, size : 0..OTA_STAGE_REGION_SIZE,
                       crc : Crcs, next : 0..OTA_STAGE_REGION_SIZE]
         /\ sess'.next <= sess'.size /\ running' \in Seq(Data)
  BY OtaAssumption DEF ota_session_reset, NoSession, UploadMatchesStage, Addresses, Crcs

\* ABORT drops the session or nothing.
LEMMA AbortInv ==
  ASSUME OtaInv, NEW id \in SessionIds, handle_ota_abort(id)
  PROVE  OtaInv'
<1> USE DEF OtaInv
<1>0. UNCHANGED <<stage, ram, durable, bank0, whole, buf, pos, mode, accepted>>
  BY DEF handle_ota_abort, bootVars
<1>1. ApplyProgress' /\ OnlyAcceptedImage'
  BY <1>0 DEF ApplyProgress, OnlyAcceptedImage, crc32
<1>2. CASE ota_session_reset
  BY <1>0, <1>1, <1>2, SessionReset DEF OtaTypeOK
<1>3. CASE UNCHANGED session
  BY <1>0, <1>1, <1>3 DEF OtaTypeOK, UploadMatchesStage, session
<1> QED BY <1>2, <1>3 DEF handle_ota_abort

\* A reset forgets the session and the RAM copies; what flash holds stays.
LEMMA PowerLossInv ==
  ASSUME OtaInv, PowerLoss
  PROVE  OtaInv'
<1> USE DEF OtaInv
<1>1. ota_session_reset /\ ram' = NotPending /\ mode' = "reset"
      /\ UNCHANGED <<stage, durable, bank0, whole, accepted>>
  BY DEF PowerLoss, Reset
<1>2. NotPending \in PendingRecord /\ NotPending.pending = 0
  BY OtaAssumption DEF NotPending, PendingRecord, Crcs
<1>3. OtaTypeOK' /\ UploadMatchesStage'
  BY <1>1, <1>2, SessionReset DEF OtaTypeOK
<1>4. ApplyProgress' /\ OnlyAcceptedImage'
  BY <1>1, <1>2 DEF ApplyProgress, OnlyAcceptedImage, crc32
<1> QED BY <1>3, <1>4

\* The boot loads the record, and another setter stores it.
LEMMA RecordInv ==
  ASSUME OtaInv, Boot \/ StoreConfig
  PROVE  OtaInv'
<1> USE DEF OtaInv
<1>1. /\ UNCHANGED <<stage, sess, running, bank0, whole, buf, pos, accepted>>
      /\ mode' \in {"boot", "run"}
      /\ ram' \in {ram, durable} /\ durable' \in {ram, durable}
  BY DEF Boot, StoreConfig, session, bootVars
<1>2. OtaTypeOK' /\ UploadMatchesStage'
  BY <1>1 DEF OtaTypeOK, UploadMatchesStage
<1>3. ApplyProgress' /\ OnlyAcceptedImage'
  BY <1>1 DEF ApplyProgress, OnlyAcceptedImage, crc32
<1> QED BY <1>2, <1>3

\* Clearing the flag and starting the tasks.
LEMMA ClearInv ==
  ASSUME OtaInv, ClearAndRun
  PROVE  OtaInv'
<1> USE DEF OtaInv
<1>1. /\ UNCHANGED <<stage, sess, running, bank0, whole, accepted>> /\ mode' = "run"
      /\ ram' = NotPending /\ durable' \in {durable, NotPending}
  BY DEF ClearAndRun, SetPendingOk, SetPendingFails, session
<1>2. NotPending \in PendingRecord /\ NotPending.pending = 0
  BY OtaAssumption DEF NotPending, PendingRecord, Crcs
<1>3. OtaTypeOK' /\ UploadMatchesStage'
  BY <1>1, <1>2 DEF OtaTypeOK, UploadMatchesStage
<1>4. ApplyProgress' /\ OnlyAcceptedImage'
  BY <1>1, <1>2 DEF ApplyProgress, OnlyAcceptedImage, crc32
<1> QED BY <1>3, <1>4

\* The tests before the overwrite: each of them either clears the flag or leaves
\* the record and both flashes alone.
LEMMA CheckInv ==
  ASSUME OtaInv, CheckPending \/ CheckCopy
  PROVE  OtaInv'
<1> USE DEF OtaInv
<1>1. CASE ClearAndRun
  BY <1>1, ClearInv
<1>2. CASE CheckPending /\ ~ClearAndRun
  <2>1. /\ UNCHANGED <<stage, sess, running, ram, durable, bank0, whole, pos, accepted>>
        /\ mode' = "copied" /\ ApplyVerdict = "apply"
    BY <1>2 DEF CheckPending, session
  <2>2. ram.pending = 1 /\ ram.size \in 1..FLASH_OTA_APPLY_MAX_SIZE
    BY <2>1, OtaAssumption DEF ApplyVerdict, OtaTypeOK, PendingRecord
  <2>3. OtaTypeOK' /\ UploadMatchesStage'
    BY <2>1 DEF OtaTypeOK, UploadMatchesStage
  <2>5. buf' \in [Addresses(ram.size) -> Cell]
    <3>1. PICK bad \in AtMostOne :
            buf' = [i \in Addresses(ram.size) |-> IF i \in bad THEN Garbage ELSE stage[i]]
      BY <1>2 DEF CheckPending
    <3>2. \A i \in Addresses(ram.size) : stage[i] \in Cell
      BY <2>2, OtaAssumption DEF OtaTypeOK, Addresses
    <3> QED BY <3>1, <3>2 DEF Cell
  <2>4. ApplyProgress' /\ OnlyAcceptedImage'
    BY <2>1, <2>2, <2>5 DEF ApplyProgress, OnlyAcceptedImage, crc32
  <2> QED BY <2>3, <2>4
<1>3. CASE CheckCopy /\ ~ClearAndRun
  <2>1. /\ UNCHANGED <<stage, sess, running, ram, durable, bank0, whole, buf, accepted>>
        /\ mode = "copied" /\ mode' = "erase" /\ pos' = 0
        /\ crc32(buf, ram.size) = ram.crc
    BY <1>3 DEF CheckCopy, session
  <2>2. ram.pending = 1 /\ ram.size \in 1..FLASH_OTA_APPLY_MAX_SIZE
    BY <2>1 DEF ApplyProgress
  <2>3. OtaTypeOK' /\ UploadMatchesStage'
    BY <2>1, <2>2, OtaAssumption DEF OtaTypeOK, UploadMatchesStage
  <2>4. ApplyProgress' /\ OnlyAcceptedImage'
    BY <2>1, <2>2 DEF ApplyProgress, OnlyAcceptedImage, crc32
  <2> QED BY <2>3, <2>4
<1> QED BY <1>1, <1>2, <1>3

\* Erasing a page: bank 0 is no longer whole.
LEMMA EraseInv ==
  ASSUME OtaInv, ErasePage
  PROVE  OtaInv'
<1> USE DEF OtaInv
<1>1. /\ UNCHANGED <<stage, sess, running, ram, durable, buf, accepted>>
      /\ mode = "erase" /\ whole' = FALSE
  BY DEF ErasePage, session
<1>2. /\ ram.size \in 1..FLASH_OTA_APPLY_MAX_SIZE /\ pos \in 0..(ram.size - 1)
      /\ FLASH_OTA_APPLY_MAX_SIZE \in Nat /\ FLASH_PAGE_SIZE \in Nat \ {0}
  BY <1>1, OtaAssumption DEF ApplyProgress, OtaTypeOK
<1>3. bank0' \in [Addresses(BANK0_SIZE) -> Cell]
  BY DEF ErasePage, OtaTypeOK, Cell
<1>4. pos' \in 0..(ram.size - 1) /\ mode' \in {"erase", "program"}
      /\ (mode' = "program" => pos' = 0)
  BY <1>1, <1>2 DEF ErasePage
<1>5. OtaTypeOK' /\ UploadMatchesStage'
  BY <1>1, <1>2, <1>3, <1>4 DEF OtaTypeOK, UploadMatchesStage
<1>6. crc32(buf, ram.size)' = ram'.crc
  BY <1>1 DEF ApplyProgress, crc32
<1>7. ApplyProgress'
  BY <1>1, <1>2, <1>4, <1>6 DEF ApplyProgress, Addresses
<1>8. OnlyAcceptedImage'
  BY <1>1 DEF OnlyAcceptedImage
<1> QED BY <1>5, <1>7, <1>8

\* Programming a word; after the last one bank 0 holds the accepted image.
LEMMA ProgramInv ==
  ASSUME OtaInv, ProgramWord
  PROVE  OtaInv'
<1> USE DEF OtaInv
<1>1. /\ mode = "program" /\ ~whole /\ UNCHANGED <<stage, durable, accepted>>
      /\ bank0' = [bank0 EXCEPT ![pos] = buf[pos]]
  BY DEF ProgramWord, ApplyProgress
<1>2. /\ ram.pending = 1 /\ ram.size \in 1..FLASH_OTA_APPLY_MAX_SIZE
      /\ pos \in 0..(ram.size - 1) /\ crc32(buf, ram.size) = ram.crc
      /\ \A i \in Addresses(pos) : bank0[i] = buf[i]
      /\ FLASH_OTA_APPLY_MAX_SIZE \in Nat /\ BANK0_SIZE \in Nat
      /\ FLASH_OTA_APPLY_MAX_SIZE <= BANK0_SIZE
  BY <1>1, OtaAssumption DEF ApplyProgress, OtaTypeOK
<1>3. \A i \in Addresses(pos + 1) : bank0'[i] = buf[i]
  BY <1>1, <1>2 DEF Addresses, OtaTypeOK
<1>5. bank0' \in [Addresses(BANK0_SIZE) -> Cell]
  BY <1>1, <1>2 DEF OtaTypeOK, ApplyProgress, Addresses
<1>4. CASE pos + 1 < ram.size
  <2>1. UNCHANGED <<sess, running, ram, whole, buf, mode>> /\ pos' = pos + 1
    BY <1>4 DEF ProgramWord, session
  <2>3. OtaTypeOK' /\ UploadMatchesStage'
    BY <1>1, <1>2, <1>4, <1>5, <2>1 DEF OtaTypeOK, UploadMatchesStage
  <2>4. crc32(buf, ram.size)' = ram'.crc
    BY <1>2, <2>1 DEF crc32
  <2>5. ApplyProgress'
    BY <1>1, <1>3, <2>1, <2>4 DEF ApplyProgress
  <2>6. OnlyAcceptedImage'
    BY <1>1, <2>1 DEF OnlyAcceptedImage
  <2> QED BY <2>3, <2>5, <2>6
<1>6. CASE ~(pos + 1 < ram.size)
  <2>1. ota_session_reset /\ ram' = NotPending /\ mode' = "reset" /\ whole' = TRUE
    BY <1>6 DEF ProgramWord, Reset
  <2>2. NotPending \in PendingRecord /\ NotPending.pending = 0
    BY OtaAssumption DEF NotPending, PendingRecord, Crcs
  <2>3. OtaTypeOK' /\ UploadMatchesStage'
    BY <1>1, <1>5, <2>1, <2>2, SessionReset DEF OtaTypeOK
  <2>4. ApplyProgress'
    BY <1>1, <2>1, <2>2 DEF ApplyProgress
  <2>5. pos + 1 = ram.size
    BY <1>2, <1>6
  <2>6. crc32(bank0', ram.size) = ram.crc
    BY <1>2, <1>3, <2>5 DEF crc32
  <2>7. <<ram.size, ram.crc>> \in accepted'
    BY <1>1, <1>2 DEF ApplyProgress
  <2>8. OnlyAcceptedImage'
    <3> DEFINE a == <<ram.size, ram.crc>>
    <3>1. a \in accepted' /\ crc32(bank0', a[1]) = a[2]
      BY <2>6, <2>7
    <3> QED BY <3>1 DEF OnlyAcceptedImage, crc32
  <2> QED BY <2>3, <2>4, <2>8
<1> QED BY <1>4, <1>6

\* A flash fault halts the unit, with bank 0 untouched or no longer whole.
LEMMA FaultInv ==
  ASSUME OtaInv, FlashFault
  PROVE  OtaInv'
<1> USE DEF OtaInv
<1>1. /\ UNCHANGED <<stage, sess, running, ram, durable, accepted>>
      /\ mode' = "halted"
      /\ \/ UNCHANGED <<bank0, whole>>
         \/ /\ whole' = FALSE
            /\ \E c \in {Blank, Garbage} : bank0' = [bank0 EXCEPT ![pos] = c]
  BY DEF FlashFault, session
<1>2. bank0' \in [Addresses(BANK0_SIZE) -> Cell] /\ whole' \in BOOLEAN
  BY <1>1 DEF OtaTypeOK, Cell
<1>3. OtaTypeOK' /\ UploadMatchesStage'
  BY <1>1, <1>2 DEF OtaTypeOK, UploadMatchesStage
<1>4. ApplyProgress' /\ OnlyAcceptedImage'
  BY <1>1 DEF ApplyProgress, OnlyAcceptedImage, crc32
<1> QED BY <1>3, <1>4

\* OtaInv is inductive: one lemma per action.
THEOREM OtaInvariant == OtaSpec => []OtaInv
<1>1. ASSUME OtaInv, [OtaNext]_otaVars PROVE OtaInv'
  <2>1. CASE UNCHANGED otaVars
    BY <1>1, <2>1 DEF otaVars, bootVars, OtaInv, OtaTypeOK, ApplyProgress,
       OnlyAcceptedImage, UploadMatchesStage, crc32
  <2>2. CASE OtaNext
    BY <1>1, <2>2, BeginInv, ChunkInv, CommitInv, AbortInv, RecordInv, PowerLossInv,
       CheckInv, EraseInv, ProgramInv, FaultInv DEF OtaNext
  <2> QED BY <1>1, <2>1, <2>2
<1> QED BY OtaInitInv, <1>1, PTL DEF OtaSpec

\* Cells, session, record and overwrite position stay in range.
THEOREM OtaTypeCorrect == OtaSpec => []OtaTypeOK
BY OtaInvariant, PTL DEF OtaInv

\* For any images, chunks and flash geometry, and with power going at any moment:
\* the unit starts only the factory image or an image COMMIT has verified.
THEOREM OnlyAcceptedImages == OtaSpec => []OnlyAcceptedImage
BY OtaInvariant, PTL DEF OtaInv

\* The staged cells before next_offset are those the running CRC covers, or spoilt.
THEOREM UploadIsStaged == OtaSpec => []UploadMatchesStage
BY OtaInvariant, PTL DEF OtaInv

\* The staged image COMMIT has verified is what the record names until a new BEGIN: a chunk
\* repeated after it is refused, by its offset or as too long.
THEOREM CommittedStands == OtaSpec => CommittedImageStands
<1> DEFINE Stands == StageHolds(ram) /\ sess.next = sess.size /\ ram' = ram
                       => StageHolds(ram)' \/ sess'.next = 0
<1>1. ASSUME OtaInv, [OtaNext]_otaVars PROVE Stands
  <2> SUFFICES ASSUME StageHolds(ram), sess.next = sess.size, ram' = ram,
                      stage' # stage, sess'.next # 0
               PROVE  FALSE
    BY DEF StageHolds, crc32
  <2>1. ASSUME NEW id \in SessionIds, NEW a \in Announced, handle_ota_begin(id, a[1], a[2])
        PROVE  FALSE
    BY <2>1 DEF handle_ota_begin, ota_session_reset, NoSession
  <2>2. ASSUME NEW id \in SessionIds, NEW o \in 0..OTA_STAGE_REGION_SIZE, NEW d \in Chunks,
               handle_ota_chunk(id, o, d)
        PROVE  FALSE
    <3>1. ChunkVerdict(id, o, d) = "OK"
      BY <2>2 DEF handle_ota_chunk
    <3>2. o = sess.next /\ ~(o + Len(d) > sess.size)
      BY <3>1 DEF ChunkVerdict
    <3>3. Len(d) \in Nat \ {0} /\ o \in Nat
      BY OtaAssumption
    <3> QED BY <3>2, <3>3
  <2>3. ~(\E id \in SessionIds : handle_ota_commit(id) \/ handle_ota_abort(id))
    BY DEF handle_ota_commit, handle_ota_abort
  <2>4. ~(StoreConfig \/ PowerLoss \/ Boot \/ CheckPending \/ CheckCopy)
    BY DEF StoreConfig, PowerLoss, Boot, CheckPending, CheckCopy, ClearAndRun
  <2>5. ~(ErasePage \/ ProgramWord \/ FlashFault \/ UNCHANGED otaVars)
    BY DEF ErasePage, ProgramWord, FlashFault, otaVars
  <2> QED BY <1>1, <2>1, <2>2, <2>3, <2>4, <2>5 DEF OtaNext
<1>2. OtaSpec => [][Stands]_otaVars
  BY <1>1, OtaInvariant, PTL DEF OtaSpec
<1> QED BY <1>2 DEF CommittedImageStands
=============================================================================
