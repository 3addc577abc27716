------------------------------- MODULE OtaPush ------------------------------
(***************************************************************************)
(* The Wi-Fi module uploads a firmware image to the charger: the push      *)
(* state machine of openevcharger_tlv.cpp at one end of a line that loses  *)
(* frames, the charger's OTA handlers at the other.  Ota has what the      *)
(* handlers do to flash; here the stage is the chunks received, an image   *)
(* its chunks, and CRC32 tells any two images apart.                       *)
(***************************************************************************)
EXTENDS Integers, Sequences

CONSTANTS
  Images,       \* images, sequences of chunks
  MAX_CHUNKS,   \* OTA_PUSH_MAX_IMAGE_BYTES, in chunks
  MAX_PUSHES, MAX_LOSSES   \* bounds on pushes and on mishaps

ASSUME OtaPushAssumption == MAX_CHUNKS \in Nat /\ <<>> \notin Images

VARIABLES
  push,       \* the module's ota_* members: state, sid, image (ota_buf_), next
  pushes,     \* millis() as a source of session ids; counts the pushes
  down, up,   \* the frames under way, with those in the persist queue
  sess,       \* the charger's s_ota: id (0: none), image (its announced size and CRC), next
  stage,      \* the staging area
  armed,      \* the image the pending flag describes, or none
  installed,  \* the image a boot has copied into bank 0, or none
  mishaps     \* for the bound

pushVars == <<push, pushes, down, up, sess, stage, armed, installed, mishaps>>

Active == {"AWAIT_BEGIN", "AWAIT_CHUNK", "AWAIT_COMMIT"}
ota_push_active == push.state \in Active
NoImage == <<>>
NoSession == [id |-> 0, image |-> NoImage, next |-> 0]
IdlePush == [state |-> "IDLE", sid |-> 0, image |-> NoImage, next |-> 0]

PushInit ==
  /\ push = IdlePush /\ pushes = 0 /\ down = <<>> /\ up = <<>>
  /\ sess = NoSession /\ stage = <<>> /\ armed = NoImage /\ installed = NoImage /\ mishaps = 0

mcuState == <<sess, stage, armed, installed>>

-----------------------------------------------------------------------------
(* The module. *)

Begin(sid, image) == [cmd |-> "BEGIN", sid |-> sid, image |-> image]
Chunk(p) == [cmd |-> "CHUNK", sid |-> p.sid, at |-> p.next, data |-> p.image[p.next + 1]]
Commit(sid) == [cmd |-> "COMMIT", sid |-> sid]
Abort(sid) == [cmd |-> "ABORT", sid |-> sid]

\* ota_send_next_chunk_: nothing is sent at the end of the image.
NextChunk(p) == IF p.next < Len(p.image) THEN <<Chunk(p)>> ELSE <<>>

\* ota_finish_ frees the buffer.
Finished(state) == [push EXCEPT !.state = state]

\* start_ota_push_from_buf_: a new session id from millis().
StartFromBuf(image) ==
  /\ pushes' = pushes + 1
  /\ push' = [state |-> "AWAIT_BEGIN", sid |-> pushes + 1, image |-> image, next |-> 0]
  /\ down' = Append(down, Begin(pushes + 1, image))

\* start_ota_push: refused while a push is active, and for an image over the cap.
StartPush(image) ==
  /\ pushes < MAX_PUSHES /\ ~ota_push_active /\ Len(image) \in 1..MAX_CHUNKS
  /\ StartFromBuf(image)
  /\ UNCHANGED <<up, mcuState, mishaps>>

\* fetch_and_push_ota: the push starts when Content-Length bytes have arrived in time; a
\* short read, a status other than 200, or a length over the cap starts nothing.
FetchAndPush(image, got) ==
  /\ pushes < MAX_PUSHES /\ ~ota_push_active
  /\ IF Len(image) \in 1..MAX_CHUNKS /\ got = Len(image) THEN StartFromBuf(image)
     ELSE UNCHANGED <<push, pushes, down>>
  /\ UNCHANGED <<up, mcuState, mishaps>>

\* abort_ota_push
AbortPush ==
  /\ ota_push_active /\ mishaps < MAX_LOSSES /\ mishaps' = mishaps + 1
  /\ down' = Append(down, Abort(push.sid)) /\ push' = Finished("FAILED")
  /\ UNCHANGED <<pushes, up, mcuState>>

\* EVT_OTA_BEGIN_ACK
OnBeginAck(f) ==
  IF push.state # "AWAIT_BEGIN" \/ f.sid # push.sid THEN UNCHANGED <<push, down>>
  ELSE IF f.status # "OK" THEN push' = Finished("FAILED") /\ UNCHANGED down
  ELSE push' = [push EXCEPT !.state = "AWAIT_CHUNK"] /\ down' = down \o NextChunk(push)

\* EVT_OTA_CHUNK_ACK: an offset mismatch takes over the charger's offset and goes on.
OnChunkAck(f) ==
  LET p == [push EXCEPT !.next = f.next] IN
  IF push.state # "AWAIT_CHUNK" \/ f.sid # push.sid THEN UNCHANGED <<push, down>>
  ELSE CASE f.status = "OFFSET_MISMATCH" -> push' = p /\ down' = down \o NextChunk(p)
         [] f.status = "OK" ->
              IF p.next >= Len(p.image)
              THEN push' = [p EXCEPT !.state = "AWAIT_COMMIT"] /\ down' = Append(down, Commit(p.sid))
              ELSE push' = p /\ down' = down \o NextChunk(p)
         [] OTHER -> push' = Finished("FAILED") /\ UNCHANGED down

\* Mutant: any COMMITTED is taken for the one awaited.
OnCommitted_Any(f) ==
  push' = Finished(IF f.status = "OK" THEN "DONE" ELSE "FAILED") /\ UNCHANGED down

\* EVT_OTA_COMMITTED
OnCommitted(f) ==
  IF push.state # "AWAIT_COMMIT" \/ f.sid # push.sid THEN UNCHANGED <<push, down>>
  ELSE push' = Finished(IF f.status = "OK" THEN "DONE" ELSE "FAILED") /\ UNCHANGED down

\* EVT_OTA_ABORTED: looks at the session id alone.
OnAborted(f) ==
  /\ push' = IF f.sid = push.sid THEN Finished("FAILED") ELSE push
  /\ UNCHANGED down

FcReceive ==
  /\ up # <<>> /\ up' = Tail(up)
  /\ LET f == Head(up) IN
     CASE f.evt = "BEGIN_ACK" -> OnBeginAck(f) [] f.evt = "CHUNK_ACK" -> OnChunkAck(f)
       [] f.evt = "COMMITTED" -> OnCommitted(f) [] f.evt = "ABORTED" -> OnAborted(f)
  /\ UNCHANGED <<pushes, mcuState, mishaps>>

\* ota_loop_tick_: 8 s without an answer, which may still be under way.
LoopTick ==
  /\ ota_push_active /\ push' = Finished("FAILED")
  /\ UNCHANGED <<pushes, down, up, mcuState, mishaps>>

\* The module restarts.
ModuleReset ==
  /\ mishaps < MAX_LOSSES /\ mishaps' = mishaps + 1 /\ push' = IdlePush /\ up' = <<>>
  /\ UNCHANGED <<pushes, down, mcuState>>

-----------------------------------------------------------------------------
(* The charger. *)

Ack(evt, sid, status) == [evt |-> evt, sid |-> sid, status |-> status]

\* handle_ota_begin; the erase may fail.  The pending flag stays as it is.
OtaBegin(f) ==
  \E erased \in BOOLEAN :
    /\ sess' = IF erased THEN [id |-> f.sid, image |-> f.image, next |-> 0] ELSE NoSession
    /\ stage' = <<>>
    /\ up' = Append(up, Ack("BEGIN_ACK", f.sid, IF erased THEN "OK" ELSE "ERASE_FAIL"))
    /\ UNCHANGED <<armed, installed>>
    /\ IF erased THEN UNCHANGED mishaps ELSE mishaps < MAX_LOSSES /\ mishaps' = mishaps + 1

\* handle_ota_chunk
OtaChunk(f) ==
  LET verdict == IF sess.id = 0 THEN "NO_SESSION" ELSE IF f.sid # sess.id THEN "SESSION_INVALID"
                 ELSE IF f.at # sess.next THEN "OFFSET_MISMATCH"
                 ELSE IF f.at + 1 > Len(sess.image) THEN "OVERSIZE" ELSE "OK"
      next == IF verdict = "OK" THEN sess.next + 1 ELSE sess.next
  IN  /\ sess' = [sess EXCEPT !.next = next]
      /\ stage' = IF verdict = "OK" THEN Append(stage, f.data) ELSE stage
      /\ up' = Append(up, [evt |-> "CHUNK_ACK", sid |-> f.sid, next |-> next, status |-> verdict])
      /\ UNCHANGED <<armed, installed, mishaps>>

\* handle_ota_commit
OtaCommit(f) ==
  LET verdict == IF sess.id = 0 THEN "NO_SESSION" ELSE IF f.sid # sess.id THEN "SESSION_INVALID"
                 ELSE IF sess.next # Len(sess.image) THEN "OFFSET_MISMATCH"
                 ELSE IF stage # sess.image THEN "CRC_MISMATCH" ELSE "OK"
  IN  /\ armed' = IF verdict = "OK" THEN sess.image ELSE armed
      /\ up' = Append(up, Ack("COMMITTED", f.sid, verdict))
      /\ UNCHANGED <<sess, stage, installed, mishaps>>

\* handle_ota_abort
OtaAbort(f) ==
  /\ sess' = IF f.sid = sess.id THEN NoSession ELSE sess
  /\ up' = Append(up, Ack("ABORTED", f.sid, "OK"))
  /\ UNCHANGED <<stage, armed, installed, mishaps>>

McuServe ==
  /\ down # <<>> /\ down' = Tail(down)
  /\ LET f == Head(down) IN
     CASE f.cmd = "BEGIN" -> OtaBegin(f) [] f.cmd = "CHUNK" -> OtaChunk(f)
       [] f.cmd = "COMMIT" -> OtaCommit(f) [] f.cmd = "ABORT" -> OtaAbort(f)
  /\ UNCHANGED <<push, pushes>>

\* A restart of the charger empties its queue and applies an armed image that the stage
\* still holds.
ChargerReset ==
  /\ mishaps < MAX_LOSSES /\ mishaps' = mishaps + 1
  /\ sess' = NoSession /\ armed' = NoImage
  /\ installed' = IF armed # NoImage /\ armed = stage THEN armed ELSE installed
  /\ \E n \in 0..Len(down) : down' = SubSeq(down, n + 1, Len(down))
  /\ UNCHANGED <<push, pushes, up, stage>>

\* A frame is lost, on the line or at a full persist queue.
LoseFrame ==
  /\ mishaps < MAX_LOSSES /\ mishaps' = mishaps + 1
  /\ \/ down # <<>> /\ down' = Tail(down) /\ UNCHANGED up
     \/ up # <<>> /\ up' = Tail(up) /\ UNCHANGED down
  /\ UNCHANGED <<push, pushes, mcuState>>

PushNext ==
  \/ \E image \in Images : StartPush(image) \/ \E got \in 0..Len(image) : FetchAndPush(image, got)
  \/ AbortPush \/ FcReceive \/ LoopTick \/ ModuleReset \/ McuServe \/ ChargerReset \/ LoseFrame

\* loop() runs forever; the charger may stay silent.
PushFairness == WF_pushVars(LoopTick)

PushSpec == PushInit /\ [][PushNext]_pushVars /\ PushFairness

-----------------------------------------------------------------------------
\* A push that reports DONE has put its image on the charger: it is staged whole and armed,
\* or already copied, however pushes, aborts, restarts and late answers followed each other.
DoneIsArmed ==
  push.state = "DONE" => (armed = push.image /\ stage = push.image) \/ installed = push.image

=============================================================================
