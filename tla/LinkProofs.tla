----------------------------- MODULE LinkProofs -----------------------------
(* Proofs about the two ends of the serial line.  OtaPush: DONE means      *)
(* armed, for any images, any number of pushes and any number of lost      *)
(* frames, restarts and aborts.  Link: when nothing is under way the       *)
(* module shows what is in force, for any queues and any mix of operations *)
(* that overlap in any way.                                                *)
EXTENDS Link, OtaPush, SequenceTheorems, TLAPS

-----------------------------------------------------------------------------
(* Queues of frames of several shapes: sequences over some set. *)

IsSeq(s) == \E S : s \in Seq(S)

LEMMA EmptyIsSeq == IsSeq(<<>>) /\ Len(<<>>) = 0
BY EmptySeq DEF IsSeq

LEMMA LenIsNat == ASSUME NEW s, IsSeq(s) PROVE Len(s) \in Nat /\ (s # <<>> => Len(s) > 0)
BY EmptySeq, LenProperties DEF IsSeq

LEMMA Appended ==
  ASSUME NEW s, IsSeq(s), NEW e
  PROVE  /\ IsSeq(Append(s, e)) /\ Len(Append(s, e)) = Len(s) + 1
         /\ \A i \in 1..Len(s) + 1 : Append(s, e)[i] = IF i <= Len(s) THEN s[i] ELSE e
<1>1. PICK S : s \in Seq(S)
  BY DEF IsSeq
<1> DEFINE T == S \cup {e}
<1>2. s \in Seq(T)
  <2> S \subseteq T OBVIOUS
  <2> QED BY <1>1, SeqMonotonic
<1>3. e \in T OBVIOUS
<1> HIDE DEF T
<1>4. Append(s, e) \in Seq(T) /\ Len(Append(s, e)) = Len(s) + 1
      /\ \A i \in 1..Len(s) + 1 : Append(s, e)[i] = IF i <= Len(s) THEN s[i] ELSE e
  BY <1>2, <1>3, AppendProperties, LenProperties
<1> QED BY <1>4 DEF IsSeq

\* What is left of a queue when its first n frames are gone.
IsRest(t, s, n) ==
  /\ IsSeq(t) /\ Len(t) = Len(s) - n
  /\ \A i \in 1..Len(s) - n : t[i] = s[i + n]

LEMMA TailIsRest ==
  ASSUME NEW s, IsSeq(s), s # <<>>
  PROVE  IsRest(Tail(s), s, 1) /\ Head(s) = s[1] /\ 1 \in 1..Len(s)
<1>1. PICK S : s \in Seq(S)
  BY DEF IsSeq
<1>2. Tail(s) \in Seq(S) /\ Len(Tail(s)) = Len(s) - 1
      /\ \A i \in 1..Len(Tail(s)) : Tail(s)[i] = s[i + 1]
  BY <1>1, HeadTailProperties
<1>3. Len(s) \in Nat \ {0}
  BY <1>1, EmptySeq
<1>4. IsSeq(Tail(s))
  BY <1>2 DEF IsSeq
<1>5. \A i \in 1..Len(s) - 1 : Tail(s)[i] = s[i + 1]
  BY <1>2
<1>6. IsRest(Tail(s), s, 1)
  BY <1>2, <1>4, <1>5 DEF IsRest
<1>7. 1 \in 1..Len(s) /\ Len(s) \in 1..Len(s)
  BY <1>3
<1>8. Head(s) = s[1]
  BY <1>1, <1>7, HeadTailOfSubSeq, SubSeqFull
<1> QED BY <1>6, <1>7, <1>8

LEMMA SuffixIsRest ==
  ASSUME NEW s, IsSeq(s), NEW n \in 0..Len(s)
  PROVE  IsRest(SubSeq(s, n + 1, Len(s)), s, n)
<1>1. PICK S : s \in Seq(S)
  BY DEF IsSeq
<1>2. Len(s) \in Nat
  BY LenIsNat
<1>3. \A i \in n + 1..Len(s) : s[i] \in S
  BY <1>1, <1>2, ElementOfSeq
<1> DEFINE t == SubSeq(s, n + 1, Len(s))
<1>4. /\ t \in Seq(S) /\ Len(t) = IF n + 1 <= Len(s) THEN Len(s) - (n + 1) + 1 ELSE 0
      /\ \A i \in 1..Len(s) - (n + 1) + 1 : t[i] = s[n + 1 + i - 1]
  <2>1. n + 1 \in Int /\ Len(s) \in Int
    BY <1>2
  <2> QED BY <1>3, <2>1, SubSeqProperties
<1>5. IsSeq(t)
  BY <1>4 DEF IsSeq
<1> HIDE DEF t
<1>6. Len(t) = Len(s) - n
  BY <1>2, <1>4
<1>7. \A i \in 1..Len(s) - n : t[i] = s[i + n]
  <2> TAKE i \in 1..Len(s) - n
  <2>1. n + 1 + i - 1 = i + n /\ i \in 1..Len(s) - (n + 1) + 1
    BY <1>2
  <2> QED BY <1>4, <2>1
<1>8. IsRest(t, s, n)
  BY <1>5, <1>6, <1>7 DEF IsRest
<1> QED BY <1>8 DEF t

LEMMA OneMore == ASSUME NEW s, IsSeq(s), NEW e PROVE s \o <<e>> = Append(s, e) /\ s \o <<>> = s
<1>1. PICK S : s \in Seq(S)
  BY DEF IsSeq
<1>2. s \o <<>> = s
  BY <1>1, ConcatEmptySeq
<1>3. s \o <<e>> = Append(s, e)
  <2>1. s \in Seq(S \cup {e})
    BY <1>1, SeqMonotonic, S \subseteq S \cup {e}
  <2> QED BY <2>1, AppendIsConcat
<1> QED BY <1>2, <1>3

-----------------------------------------------------------------------------
(* Session ids: nothing carries an id that is still to be given out. *)

Requests == {"BEGIN", "CHUNK", "COMMIT", "ABORT"}
Answers  == {"BEGIN_ACK", "CHUNK_ACK", "COMMITTED", "ABORTED"}

PushIds ==
  /\ pushes \in Nat /\ push.sid \in 0..pushes
  /\ push = [state |-> push.state, sid |-> push.sid, image |-> push.image, next |-> push.next]

SessIds ==
  /\ sess.id \in 0..pushes
  /\ sess = [id |-> sess.id, image |-> sess.image, next |-> sess.next]

DownIds ==
  IsSeq(down) /\ \A i \in 1..Len(down) : down[i].cmd \in Requests /\ down[i].sid \in 0..pushes

UpIds ==
  IsSeq(up) /\ \A i \in 1..Len(up) : up[i].evt \in Answers /\ up[i].sid \in 0..pushes

IdsInv == PushIds /\ SessIds /\ DownIds /\ UpIds

LEMMA IdsInit == PushInit => IdsInv
BY EmptyIsSeq DEF PushInit, IdsInv, PushIds, SessIds, DownIds, UpIds, IdlePush, NoSession, NoImage

\* A frame more, or a few less.
LEMMA DownGrows ==
  ASSUME IdsInv, pushes' \in {pushes, pushes + 1}, NEW e, down' = Append(down, e),
         e.cmd \in Requests, e.sid \in 0..pushes'
  PROVE  DownIds'
<1>1. /\ IsSeq(down') /\ Len(down') = Len(down) + 1
      /\ \A i \in 1..Len(down) + 1 : down'[i] = IF i <= Len(down) THEN down[i] ELSE e
  BY Appended DEF IdsInv, DownIds
<1>2. Len(down) \in Nat
  BY LenIsNat DEF IdsInv, DownIds
<1> QED BY <1>1, <1>2 DEF IdsInv, DownIds, PushIds

LEMMA DownShrinks ==
  ASSUME IdsInv, pushes' = pushes, NEW n \in Nat, IsRest(down', down, n) PROVE DownIds'
<1>1. Len(down) \in Nat
  BY LenIsNat DEF IdsInv, DownIds
<1>2. \A i \in 1..Len(down') : i + n \in 1..Len(down) /\ down'[i] = down[i + n]
  BY <1>1 DEF IsRest
<1> QED BY <1>1, <1>2 DEF IdsInv, DownIds, IsRest

LEMMA UpGrows ==
  ASSUME IdsInv, pushes' = pushes, NEW e, up' = Append(up, e),
         e.evt \in Answers, e.sid \in 0..pushes
  PROVE  UpIds'
<1>1. /\ IsSeq(up') /\ Len(up') = Len(up) + 1
      /\ \A i \in 1..Len(up) + 1 : up'[i] = IF i <= Len(up) THEN up[i] ELSE e
  BY Appended DEF IdsInv, UpIds
<1>2. Len(up) \in Nat
  BY LenIsNat DEF IdsInv, UpIds
<1> QED BY <1>1, <1>2 DEF IdsInv, UpIds, PushIds

LEMMA UpShrinks ==
  ASSUME IdsInv, pushes' = pushes, NEW n \in Nat, IsRest(up', up, n) PROVE UpIds'
<1>1. Len(up) \in Nat
  BY LenIsNat DEF IdsInv, UpIds
<1>2. \A i \in 1..Len(up') : i + n \in 1..Len(up) /\ up'[i] = up[i + n]
  BY <1>1 DEF IsRest
<1> QED BY <1>1, <1>2 DEF IdsInv, UpIds, IsRest

LEMMA NextChunkIsOne ==
  ASSUME NEW s, IsSeq(s), NEW p
  PROVE  s \o NextChunk(p) = s \/ s \o NextChunk(p) = Append(s, Chunk(p))
<1>1. CASE p.next < Len(p.image)
  BY <1>1, OneMore DEF NextChunk
<1>2. CASE ~(p.next < Len(p.image))
  BY <1>2, OneMore DEF NextChunk
<1> QED BY <1>1, <1>2

\* What receiving an answer does to the module: its state moves on, and at most one frame
\* of the push goes out.
LEMMA AnswerSends ==
  ASSUME IdsInv, FcReceive
  PROVE  /\ PushIds' /\ push'.sid = push.sid /\ push'.image = push.image
         /\ \/ UNCHANGED down
            \/ \E e : down' = Append(down, e) /\ e.cmd \in Requests /\ e.sid = push.sid
<1> DEFINE f == Head(up)
<1>0. IsSeq(down) /\ PushIds /\ UNCHANGED pushes
  BY DEF IdsInv, DownIds, FcReceive
<1>1. \A p : p.sid = push.sid =>
        Chunk(p).cmd \in Requests /\ Chunk(p).sid = push.sid
        /\ Commit(p.sid).cmd \in Requests /\ Commit(p.sid).sid = push.sid
  BY DEF Chunk, Commit, Requests
<1>2. CASE OnBeginAck(f)
  <2>1. CASE UNCHANGED <<push, down>>
    BY <1>0, <2>1 DEF PushIds
  <2>2. CASE push' = Finished("FAILED") /\ UNCHANGED down
    BY <1>0, <2>2 DEF PushIds, Finished
  <2>3. CASE push' = [push EXCEPT !.state = "AWAIT_CHUNK"] /\ down' = down \o NextChunk(push)
    <3>1. PushIds' /\ push'.sid = push.sid /\ push'.image = push.image
      BY <1>0, <2>3 DEF PushIds
    <3>2. down' = down \/ down' = Append(down, Chunk(push))
      BY <1>0, <2>3, NextChunkIsOne
    <3> QED BY <3>1, <3>2, <1>1
  <2> QED BY <1>2, <2>1, <2>2, <2>3 DEF OnBeginAck
<1>3. CASE OnChunkAck(f)
  <2> DEFINE p == [push EXCEPT !.next = f.next]
  <2>0. p = [state |-> push.state, sid |-> push.sid, image |-> push.image, next |-> f.next]
    BY <1>0 DEF PushIds
  <2> HIDE DEF p
  <2>1. CASE UNCHANGED <<push, down>>
    BY <1>0, <2>1 DEF PushIds
  <2>2. CASE push' = Finished("FAILED") /\ UNCHANGED down
    BY <1>0, <2>2 DEF PushIds, Finished
  <2>3. CASE push' = p /\ down' = down \o NextChunk(p)
    <3>1. PushIds' /\ push'.sid = push.sid /\ push'.image = push.image /\ p.sid = push.sid
      BY <1>0, <2>0, <2>3 DEF PushIds
    <3>2. down' = down \/ down' = Append(down, Chunk(p))
      BY <1>0, <2>3, NextChunkIsOne
    <3> QED BY <3>1, <3>2, <1>1
  <2>4. CASE push' = [p EXCEPT !.state = "AWAIT_COMMIT"] /\ down' = Append(down, Commit(p.sid))
    <3>1. PushIds' /\ push'.sid = push.sid /\ push'.image = push.image /\ p.sid = push.sid
      BY <1>0, <2>0, <2>4 DEF PushIds
    <3> QED BY <3>1, <2>4, <1>1
  <2> QED BY <1>3, <2>1, <2>2, <2>3, <2>4 DEF OnChunkAck, p
<1>4. CASE OnCommitted(f)
  BY <1>0, <1>4 DEF OnCommitted, PushIds, Finished
<1>5. CASE OnAborted(f)
  BY <1>0, <1>5 DEF OnAborted, PushIds, Finished
<1>6. f.evt \in Answers
  BY TailIsRest DEF FcReceive, IdsInv, UpIds
<1> QED BY <1>2, <1>3, <1>4, <1>5, <1>6 DEF FcReceive, Answers

\* Serving a request answers it once, under the request's own id.
LEMMA ServeAnswers ==
  ASSUME IdsInv, McuServe
  PROVE  /\ SessIds' /\ Head(down).cmd \in Requests
         /\ \E e : up' = Append(up, e) /\ e.evt \in Answers /\ e.sid = Head(down).sid
<1> DEFINE f == Head(down)
<1>1. f.cmd \in Requests /\ f.sid \in 0..pushes /\ UNCHANGED pushes
  BY TailIsRest DEF McuServe, IdsInv, DownIds
<1>2. SessIds
  BY DEF IdsInv
<1>3. CASE OtaBegin(f)
  BY <1>1, <1>2, <1>3 DEF OtaBegin, Ack, Answers, SessIds, NoSession, IdsInv, PushIds
<1>4. CASE OtaChunk(f)
  BY <1>1, <1>2, <1>4 DEF OtaChunk, Answers, SessIds
<1>5. CASE OtaCommit(f)
  BY <1>1, <1>2, <1>5 DEF OtaCommit, Ack, Answers, SessIds
<1>6. CASE OtaAbort(f)
  BY <1>1, <1>2, <1>6 DEF OtaAbort, Ack, Answers, SessIds, NoSession, IdsInv, PushIds
<1> QED BY <1>1, <1>3, <1>4, <1>5, <1>6 DEF McuServe, Requests

LEMMA IdsStep == IdsInv /\ [PushNext]_pushVars => IdsInv'
<1> SUFFICES ASSUME IdsInv, [PushNext]_pushVars PROVE IdsInv' OBVIOUS
<1>0. PushIds /\ SessIds /\ DownIds /\ UpIds
  BY DEF IdsInv
<1>1. ASSUME NEW image, StartFromBuf(image), UNCHANGED <<up, mcuState>> PROVE IdsInv'
  <2>1. PushIds' /\ pushes' = pushes + 1 /\ pushes \in Nat
    BY <1>0, <1>1 DEF StartFromBuf, PushIds
  <2>2. DownIds'
    <3> DEFINE e == Begin(pushes + 1, image)
    <3>1. e.cmd \in Requests /\ e.sid \in 0..pushes' /\ down' = Append(down, e)
      BY <1>1, <2>1 DEF StartFromBuf, Begin, Requests
    <3> HIDE DEF e
    <3> QED BY <2>1, <3>1, DownGrows
  <2>3. SessIds' /\ UpIds'
    BY <1>0, <1>1, <2>1 DEF SessIds, UpIds, mcuState
  <2> QED BY <2>1, <2>2, <2>3 DEF IdsInv
<1>2. CASE AbortPush
  <2>1. PushIds' /\ SessIds' /\ UpIds' /\ UNCHANGED pushes
    BY <1>0, <1>2 DEF AbortPush, Finished, PushIds, SessIds, UpIds, mcuState
  <2>2. DownIds'
    <3> DEFINE e == Abort(push.sid)
    <3>1. e.cmd \in Requests /\ e.sid \in 0..pushes' /\ down' = Append(down, e)
      BY <1>0, <1>2, <2>1 DEF AbortPush, Abort, Requests, PushIds
    <3> HIDE DEF e
    <3> QED BY <2>1, <3>1, DownGrows
  <2> QED BY <2>1, <2>2 DEF IdsInv
<1>3. CASE FcReceive
  <2>1. UNCHANGED <<pushes, mcuState>> /\ SessIds'
    BY <1>0, <1>3 DEF FcReceive, SessIds, mcuState
  <2>2. UpIds'
    BY <1>0, <1>3, <2>1, TailIsRest, UpShrinks DEF FcReceive, UpIds
  <2>3. PushIds' /\ (UNCHANGED down \/ \E e : down' = Append(down, e) /\ e.cmd \in Requests
                                              /\ e.sid = push.sid)
    BY <1>3, AnswerSends
  <2>4. DownIds'
    <3>1. CASE UNCHANGED down
      BY <1>0, <2>1, <3>1 DEF DownIds
    <3>2. ASSUME NEW e, down' = Append(down, e), e.cmd \in Requests, e.sid = push.sid
          PROVE  DownIds'
      BY <1>0, <2>1, <3>2, DownGrows DEF PushIds
    <3> QED BY <2>3, <3>1, <3>2
  <2> QED BY <2>1, <2>2, <2>3, <2>4 DEF IdsInv
<1>4. CASE LoopTick
  BY <1>0, <1>4 DEF LoopTick, Finished, IdsInv, PushIds, SessIds, DownIds, UpIds, mcuState
<1>5. CASE ModuleReset
  <2>1. PushIds' /\ SessIds' /\ DownIds'
    BY <1>0, <1>5 DEF ModuleReset, IdlePush, PushIds, SessIds, DownIds, mcuState
  <2>2. UpIds'
    BY <1>5, EmptyIsSeq DEF ModuleReset, UpIds
  <2> QED BY <2>1, <2>2 DEF IdsInv
<1>6. CASE McuServe
  <2>1. UNCHANGED <<push, pushes>> /\ PushIds'
    BY <1>0, <1>6 DEF McuServe, PushIds
  <2>2. DownIds' /\ Head(down).sid \in 0..pushes
    BY <1>0, <1>6, <2>1, TailIsRest, DownShrinks DEF McuServe, DownIds
  <2>3. SessIds' /\ \E e : up' = Append(up, e) /\ e.evt \in Answers /\ e.sid = Head(down).sid
    BY <1>6, ServeAnswers
  <2>4. UpIds'
    BY <2>1, <2>2, <2>3, UpGrows
  <2> QED BY <2>1, <2>2, <2>3, <2>4 DEF IdsInv
<1>7. CASE ChargerReset
  <2>1. PushIds' /\ SessIds' /\ UpIds' /\ UNCHANGED pushes
    BY <1>0, <1>7 DEF ChargerReset, NoSession, PushIds, SessIds, UpIds
  <2>2. PICK n \in 0..Len(down) : down' = SubSeq(down, n + 1, Len(down))
    BY <1>7 DEF ChargerReset
  <2>3. IsRest(down', down, n) /\ n \in Nat
    BY <1>0, <2>2, SuffixIsRest, LenIsNat DEF DownIds
  <2>4. DownIds'
    BY <2>1, <2>3, DownShrinks
  <2> QED BY <2>1, <2>4 DEF IdsInv
<1>8. CASE LoseFrame
  <2>1. PushIds' /\ SessIds' /\ UNCHANGED pushes
    BY <1>0, <1>8 DEF LoseFrame, mcuState, PushIds, SessIds
  <2>2. CASE down # <<>> /\ down' = Tail(down) /\ UNCHANGED up
    <3>1. UpIds'
      BY <1>0, <2>1, <2>2 DEF UpIds
    <3>2. DownIds'
      BY <1>0, <2>1, <2>2, TailIsRest, DownShrinks DEF DownIds
    <3> QED BY <2>1, <3>1, <3>2 DEF IdsInv
  <2>3. CASE up # <<>> /\ up' = Tail(up) /\ UNCHANGED down
    <3>1. DownIds'
      BY <1>0, <2>1, <2>3 DEF DownIds
    <3>2. UpIds'
      BY <1>0, <2>1, <2>3, TailIsRest, UpShrinks DEF UpIds
    <3> QED BY <2>1, <3>1, <3>2 DEF IdsInv
  <2> QED BY <1>8, <2>2, <2>3 DEF LoseFrame
<1>9. CASE UNCHANGED pushVars
  BY <1>0, <1>9 DEF pushVars, IdsInv, PushIds, SessIds, DownIds, UpIds
<1>10. ASSUME NEW image \in Images,
              StartPush(image) \/ \E got \in 0..Len(image) : FetchAndPush(image, got)
       PROVE  IdsInv'
  <2>1. StartFromBuf(image) \/ UNCHANGED <<push, pushes, down>>
    BY <1>10 DEF StartPush, FetchAndPush
  <2>2. UNCHANGED <<up, mcuState, mishaps>>
    BY <1>10 DEF StartPush, FetchAndPush
  <2>3. CASE UNCHANGED <<push, pushes, down>>
    BY <1>9, <2>2, <2>3 DEF pushVars, mcuState
  <2> QED BY <1>1, <2>1, <2>2, <2>3
<1> QED
  BY <1>2, <1>3, <1>4, <1>5, <1>6, <1>7, <1>8, <1>9, <1>10 DEF PushNext

-----------------------------------------------------------------------------
(* What is known while the newest push is under way or done. *)

Live == push.state \in Active \cup {"DONE"}

\* The charger has the push's image in a form that it will keep or has already used.
Armed == \/ armed = push.image /\ stage = push.image
         \/ installed = push.image /\ armed = NoImage

PushLive == push.sid = pushes /\ pushes > 0 /\ push.image # NoImage
SessLive == sess.id = pushes => sess.image = push.image
DownLive == \A i \in 1..Len(down) : down[i].sid = pushes =>
  /\ down[i].cmd = "BEGIN" => down[i].image = push.image
  /\ down[i].cmd = "COMMIT" => i = Len(down) /\ push.state = "AWAIT_COMMIT"
UpLive == \A i \in 1..Len(up) : up[i].sid = pushes /\ up[i].evt = "COMMITTED" =>
  /\ push.state \in {"AWAIT_COMMIT", "DONE"} /\ down = <<>>
  /\ up[i].status = "OK" => Armed
DoneLive == push.state = "DONE" => down = <<>> /\ Armed

\* The COMMIT of the push is the last frame it sends, so its answer finds nothing more under
\* way that could undo what it says.
LiveInv == Live => PushLive /\ SessLive /\ DownLive /\ UpLive /\ DoneLive

LEMMA LiveInit == PushInit => LiveInv
BY DEF PushInit, LiveInv, Live, IdlePush, Active

\* A frame of the newest push that is not its COMMIT, sent before its COMMIT.
LEMMA DownLiveGrows ==
  ASSUME IdsInv, DownLive, pushes' = pushes, push'.image = push.image,
         push.state # "AWAIT_COMMIT",
         NEW e, down' = Append(down, e), e.cmd # "BEGIN",
         e.cmd = "COMMIT" => push'.state = "AWAIT_COMMIT"
  PROVE  DownLive'
<1>1. /\ Len(down') = Len(down) + 1
      /\ \A i \in 1..Len(down) + 1 : down'[i] = IF i <= Len(down) THEN down[i] ELSE e
  BY Appended DEF IdsInv, DownIds
<1>2. Len(down) \in Nat
  BY LenIsNat DEF IdsInv, DownIds
<1>3. ASSUME NEW i \in 1..Len(down'), down'[i].sid = pushes'
      PROVE  /\ down'[i].cmd = "BEGIN" => down'[i].image = push'.image
             /\ down'[i].cmd = "COMMIT" => i = Len(down') /\ push'.state = "AWAIT_COMMIT"
  <2>1. CASE i <= Len(down)
    <3>1. i \in 1..Len(down) /\ down'[i] = down[i]
      BY <1>1, <1>2, <2>1
    <3> QED BY <1>3, <3>1 DEF DownLive
  <2>2. CASE ~(i <= Len(down))
    <3>1. i = Len(down') /\ down'[i] = e
      BY <1>1, <1>2, <2>2
    <3> QED BY <3>1
  <2> QED BY <2>1, <2>2
<1> QED BY <1>3 DEF DownLive

LEMMA DownLiveShrinks ==
  ASSUME IdsInv, DownLive, UNCHANGED <<push, pushes>>, NEW n \in Nat, IsRest(down', down, n)
  PROVE  DownLive' /\ (down = <<>> => down' = <<>>)
<1>1. Len(down) \in Nat /\ Len(down') \in Nat /\ Len(down') = Len(down) - n
  BY LenIsNat DEF IdsInv, DownIds, IsRest
<1>2. \A i \in 1..Len(down') : i + n \in 1..Len(down) /\ down'[i] = down[i + n]
  BY <1>1 DEF IsRest
<1>3. \A i \in 1..Len(down') : i + n = Len(down) => i = Len(down')
  BY <1>1
<1>4. ASSUME down = <<>> PROVE down' = <<>>
  BY <1>1, <1>4, EmptyIsSeq, LenIsNat DEF IsRest
<1>5. ASSUME NEW i \in 1..Len(down'), down'[i].sid = pushes'
      PROVE  /\ down'[i].cmd = "BEGIN" => down'[i].image = push'.image
             /\ down'[i].cmd = "COMMIT" => i = Len(down') /\ push'.state = "AWAIT_COMMIT"
  BY <1>2, <1>3, <1>5 DEF DownLive
<1> QED BY <1>4, <1>5 DEF DownLive

LEMMA UpLiveShrinks ==
  ASSUME IdsInv, UpLive, UNCHANGED <<push, pushes, armed, stage, installed>>,
         down = <<>> => down' = <<>>, NEW n \in Nat, IsRest(up', up, n)
  PROVE  UpLive'
<1>1. Len(up) \in Nat
  BY LenIsNat DEF IdsInv, UpIds
<1>2. \A i \in 1..Len(up') : i + n \in 1..Len(up) /\ up'[i] = up[i + n]
  BY <1>1 DEF IsRest
<1> QED BY <1>2 DEF UpLive, Armed

\* What an answer can do to a push that is still live after it.
LEMMA AnswerMoves ==
  ASSUME IdsInv, FcReceive, Live'
  PROVE  \/ UNCHANGED <<push, down>>
         \/ /\ push.state \in {"AWAIT_BEGIN", "AWAIT_CHUNK"}
            /\ \/ push'.state = "AWAIT_CHUNK" /\ UNCHANGED down
               \/ \E e : /\ down' = Append(down, e) /\ e.cmd # "BEGIN"
                         /\ push'.state \in {"AWAIT_CHUNK", "AWAIT_COMMIT"}
                         /\ e.cmd = "COMMIT" => push'.state = "AWAIT_COMMIT"
         \/ /\ push.state = "AWAIT_COMMIT" /\ push'.state = "DONE" /\ UNCHANGED down
            /\ up[1].evt = "COMMITTED" /\ up[1].sid = push.sid /\ up[1].status = "OK"
<1> DEFINE f == Head(up)
<1>0. IsSeq(down) /\ PushIds /\ f = up[1] /\ f.evt \in Answers
  BY TailIsRest DEF IdsInv, DownIds, UpIds, FcReceive
<1>1. \A p : Chunk(p).cmd = "CHUNK" /\ Commit(p.sid).cmd = "COMMIT"
  BY DEF Chunk, Commit
<1>2. Finished("FAILED").state = "FAILED" /\ Finished("DONE").state = "DONE"
  BY <1>0 DEF Finished, PushIds
<1>3. push' # Finished("FAILED")
  BY <1>2 DEF Live, Active
<1>4. CASE f.evt = "BEGIN_ACK" /\ OnBeginAck(f)
  <2>1. CASE UNCHANGED <<push, down>>
    BY <2>1
  <2>2. CASE /\ push.state = "AWAIT_BEGIN"
             /\ push' = [push EXCEPT !.state = "AWAIT_CHUNK"] /\ down' = down \o NextChunk(push)
    <3>1. push'.state = "AWAIT_CHUNK"
      BY <1>0, <2>2 DEF PushIds
    <3>2. down' = down \/ down' = Append(down, Chunk(push))
      BY <1>0, <2>2, NextChunkIsOne
    <3> QED BY <3>1, <3>2, <2>2, <1>1
  <2> QED BY <1>3, <1>4, <2>1, <2>2 DEF OnBeginAck
<1>5. CASE f.evt = "CHUNK_ACK" /\ OnChunkAck(f)
  <2> DEFINE p == [push EXCEPT !.next = f.next]
  <2>0. p.state = push.state
        /\ p = [state |-> push.state, sid |-> push.sid, image |-> push.image, next |-> f.next]
    BY <1>0 DEF PushIds
  <2> HIDE DEF p
  <2>1. CASE UNCHANGED <<push, down>>
    BY <2>1
  <2>2. CASE push.state = "AWAIT_CHUNK" /\ push' = p /\ down' = down \o NextChunk(p)
    <3>1. push'.state = "AWAIT_CHUNK"
      BY <2>0, <2>2
    <3>2. down' = down \/ down' = Append(down, Chunk(p))
      BY <1>0, <2>2, NextChunkIsOne
    <3> QED BY <3>1, <3>2, <2>2, <1>1
  <2>3. CASE /\ push.state = "AWAIT_CHUNK"
             /\ push' = [p EXCEPT !.state = "AWAIT_COMMIT"] /\ down' = Append(down, Commit(p.sid))
    <3>1. push'.state = "AWAIT_COMMIT"
      BY <2>0, <2>3
    <3>2. \E e : down' = Append(down, e) /\ e.cmd = "COMMIT"
      BY <2>3, <1>1
    <3> QED BY <3>1, <3>2, <2>3
  <2> QED BY <1>3, <1>5, <2>1, <2>2, <2>3 DEF OnChunkAck, p
<1>6. CASE f.evt = "COMMITTED" /\ OnCommitted(f)
  BY <1>0, <1>2, <1>3, <1>6 DEF OnCommitted
<1>7. CASE f.evt = "ABORTED" /\ OnAborted(f)
  BY <1>3, <1>7 DEF OnAborted
<1>8. f.evt = "BEGIN_ACK" => OnBeginAck(f)
  BY DEF FcReceive
<1>9. f.evt = "CHUNK_ACK" => OnChunkAck(f)
  BY DEF FcReceive
<1>10. f.evt = "COMMITTED" => OnCommitted(f)
  BY DEF FcReceive
<1>11. f.evt = "ABORTED" => OnAborted(f)
  BY DEF FcReceive
<1>12. f.evt \in {"BEGIN_ACK", "CHUNK_ACK", "COMMITTED", "ABORTED"}
  BY <1>0 DEF Answers
<1> QED BY <1>4, <1>5, <1>6, <1>7, <1>8, <1>9, <1>10, <1>11, <1>12

LEMMA LiveAfterAnswer == ASSUME IdsInv, LiveInv, IdsInv', FcReceive PROVE LiveInv'
<1> SUFFICES ASSUME Live' PROVE (PushLive /\ SessLive /\ DownLive /\ UpLive /\ DoneLive)'
  BY DEF LiveInv
<1>0. /\ UNCHANGED <<pushes, sess, stage, armed, installed>>
      /\ push'.sid = push.sid /\ push'.image = push.image
  BY AnswerSends DEF FcReceive, mcuState
<1>1. IsSeq(up) /\ IsRest(up', up, 1) /\ Len(up) \in Nat /\ 1 \in 1..Len(up)
  BY TailIsRest, LenIsNat DEF FcReceive, IdsInv, UpIds
<1>2. \A i \in 1..Len(up') : i + 1 \in 1..Len(up) /\ up'[i] = up[i + 1]
  BY <1>1 DEF IsRest
<1>3. CASE UNCHANGED <<push, down>>
  <2>1. PushLive /\ SessLive /\ DownLive /\ UpLive /\ DoneLive
    BY <1>3 DEF LiveInv, Live
  <2>2. UpLive'
    BY <1>0, <1>1, <1>3, <2>1, UpLiveShrinks
  <2> QED BY <1>0, <1>3, <2>1, <2>2 DEF PushLive, SessLive, DownLive, DoneLive, Armed
<1>4. CASE push.state \in {"AWAIT_BEGIN", "AWAIT_CHUNK"}
  <2>1. PushLive /\ SessLive /\ DownLive /\ UpLive
    BY <1>4 DEF LiveInv, Live, Active
  <2>2. push'.state \in {"AWAIT_CHUNK", "AWAIT_COMMIT"} \/ UNCHANGED <<push, down>>
    BY <1>4, AnswerMoves
  <2>3. UpLive'
    BY <1>0, <1>2, <1>4, <2>1 DEF UpLive
  <2>4. CASE UNCHANGED down
    BY <1>0, <1>3, <1>4, <2>1, <2>2, <2>3, <2>4 DEF PushLive, SessLive, DownLive, DoneLive
  <2>5. ASSUME NEW e, down' = Append(down, e), e.cmd # "BEGIN",
               e.cmd = "COMMIT" => push'.state = "AWAIT_COMMIT"
        PROVE  DownLive'
    BY <1>0, <1>4, <2>1, <2>5, DownLiveGrows
  <2>6. DownLive' \/ UNCHANGED <<push, down>>
    BY <1>4, <2>4, <2>5, AnswerMoves
  <2> QED BY <1>0, <1>3, <2>1, <2>2, <2>3, <2>6 DEF PushLive, SessLive, DoneLive
<1>5. CASE /\ push.state = "AWAIT_COMMIT" /\ push'.state = "DONE" /\ UNCHANGED down
           /\ up[1].evt = "COMMITTED" /\ up[1].sid = push.sid /\ up[1].status = "OK"
  <2>1. PushLive /\ SessLive /\ DownLive /\ UpLive
    BY <1>5 DEF LiveInv, Live, Active
  <2>2. down = <<>> /\ Armed
    BY <1>1, <1>5, <2>1 DEF UpLive, PushLive
  <2>3. DownLive'
    BY <1>5, <2>2, EmptyIsSeq DEF DownLive
  <2>4. UpLive' /\ DoneLive'
    BY <1>0, <1>5, <2>2 DEF UpLive, DoneLive, Armed
  <2> QED BY <1>0, <2>1, <2>3, <2>4 DEF PushLive, SessLive
<1> QED BY <1>3, <1>4, <1>5, AnswerMoves

LEMMA LiveAfterStart ==
  ASSUME IdsInv, NEW image \in Images, StartFromBuf(image), UNCHANGED <<up, mcuState>>
  PROVE  LiveInv'
<1> DEFINE e == Begin(pushes + 1, image)
<1>1. /\ push'.state = "AWAIT_BEGIN" /\ push'.sid = pushes' /\ push'.image = image
      /\ pushes \in Nat /\ pushes' = pushes + 1 /\ down' = Append(down, e)
  BY DEF StartFromBuf, IdsInv, PushIds
<1>2. e.cmd = "BEGIN" /\ e.image = image
  BY DEF Begin
<1> HIDE DEF e
<1>3. PushLive' /\ DoneLive'
  BY <1>1, OtaPushAssumption DEF PushLive, DoneLive, NoImage
<1>4. SessLive' /\ UpLive'
  BY <1>1 DEF SessLive, UpLive, IdsInv, SessIds, UpIds, mcuState
<1>5. /\ Len(down) \in Nat /\ Len(down') = Len(down) + 1
      /\ \A i \in 1..Len(down) + 1 : down'[i] = IF i <= Len(down) THEN down[i] ELSE e
  BY <1>1, Appended, LenIsNat DEF IdsInv, DownIds
<1>6. ASSUME NEW i \in 1..Len(down'), down'[i].sid = pushes'
      PROVE  down'[i].cmd = "BEGIN" /\ down'[i].image = push'.image
  <2>1. CASE i <= Len(down)
    <3>1. i \in 1..Len(down) /\ down'[i] = down[i]
      BY <1>5, <2>1
    <3> QED BY <1>1, <1>6, <3>1 DEF IdsInv, DownIds
  <2>2. CASE ~(i <= Len(down))
    BY <1>1, <1>2, <1>5, <2>2
  <2> QED BY <2>1, <2>2
<1>7. DownLive'
  BY <1>6 DEF DownLive
<1> QED BY <1>3, <1>4, <1>7 DEF LiveInv

LEMMA LiveAfterServe == ASSUME IdsInv, LiveInv, IdsInv', McuServe PROVE LiveInv'
<1> SUFFICES ASSUME Live' PROVE (PushLive /\ SessLive /\ DownLive /\ UpLive /\ DoneLive)'
  BY DEF LiveInv
<1> DEFINE f == down[1]
<1>1. UNCHANGED <<push, pushes>> /\ down # <<>>
  BY DEF McuServe
<1>2. PushLive /\ SessLive /\ DownLive /\ UpLive /\ DoneLive /\ Live
  BY <1>1 DEF LiveInv, Live
<1>3. Head(down) = f /\ 1 \in 1..Len(down) /\ IsRest(down', down, 1) /\ Len(down) \in Nat
  BY <1>1, TailIsRest, LenIsNat DEF McuServe, IdsInv, DownIds
<1>4. PushLive' /\ DoneLive' /\ DownLive'
  BY <1>1, <1>2, <1>3, DownLiveShrinks DEF PushLive, DoneLive
<1>5. \A i \in 1..Len(up) : ~(up[i].sid = pushes /\ up[i].evt = "COMMITTED")
  BY <1>1, <1>2 DEF UpLive
<1>6. ASSUME NEW e, up' = Append(up, e),
             e.sid = pushes /\ e.evt = "COMMITTED" =>
               /\ push.state \in {"AWAIT_COMMIT", "DONE"} /\ down' = <<>>
               /\ e.status = "OK" => Armed'
      PROVE  UpLive'
  <2>1. /\ Len(up) \in Nat /\ Len(up') = Len(up) + 1
        /\ \A i \in 1..Len(up) + 1 : up'[i] = IF i <= Len(up) THEN up[i] ELSE e
    BY <1>6, Appended, LenIsNat DEF IdsInv, UpIds
  <2>2. ASSUME NEW i \in 1..Len(up'), up'[i].sid = pushes, up'[i].evt = "COMMITTED"
        PROVE  up'[i] = e
    <3>1. CASE i <= Len(up)
      <4>1. i \in 1..Len(up) /\ up'[i] = up[i]
        BY <2>1, <3>1
      <4> QED BY <1>5, <2>2, <4>1
    <3>2. CASE ~(i <= Len(up))
      BY <2>1, <3>2
    <3> QED BY <3>1, <3>2
  <2> QED BY <1>1, <1>6, <2>2 DEF UpLive
<1>7. CASE f.cmd = "BEGIN" /\ OtaBegin(f)
  <2>1. f.sid = pushes => f.image = push.image
    BY <1>2, <1>3, <1>7 DEF DownLive
  <2>2. SessLive'
    BY <1>1, <1>2, <1>7, <2>1 DEF SessLive, PushLive, OtaBegin, NoSession
  <2>3. \E e : up' = Append(up, e) /\ e.evt # "COMMITTED"
    BY <1>7 DEF OtaBegin, Ack
  <2> QED BY <1>4, <1>6, <2>2, <2>3
<1>8. CASE f.cmd = "CHUNK" /\ OtaChunk(f)
  <2>1. SessLive'
    BY <1>1, <1>2, <1>8 DEF SessLive, OtaChunk, IdsInv, SessIds
  <2>2. \E e : up' = Append(up, e) /\ e.evt # "COMMITTED"
    BY <1>8 DEF OtaChunk
  <2> QED BY <1>4, <1>6, <2>1, <2>2
<1>9. CASE f.cmd = "COMMIT" /\ OtaCommit(f)
  <2>1. SessLive'
    BY <1>1, <1>2, <1>9 DEF SessLive, OtaCommit
  <2>2. ASSUME f.sid = pushes PROVE push.state = "AWAIT_COMMIT" /\ down' = <<>>
    <3>1. Len(down) = 1 /\ push.state = "AWAIT_COMMIT"
      BY <1>2, <1>3, <1>9, <2>2 DEF DownLive
    <3>2. Len(down') = 0 /\ IsSeq(down')
      BY <1>3, <3>1 DEF IsRest
    <3> QED BY <3>1, <3>2, LenIsNat
  <2>3. PICK verdict \in {"NO_SESSION", "SESSION_INVALID", "OFFSET_MISMATCH", "CRC_MISMATCH", "OK"} :
          /\ armed' = IF verdict = "OK" THEN sess.image ELSE armed
          /\ up' = Append(up, Ack("COMMITTED", f.sid, verdict))
          /\ UNCHANGED <<stage, installed>>
          /\ verdict = "OK" => f.sid = sess.id /\ stage = sess.image
    BY <1>9 DEF OtaCommit
  <2> DEFINE e == Ack("COMMITTED", f.sid, verdict)
  <2>4. e.sid = f.sid /\ e.status = verdict
    BY DEF Ack
  <2>5. f.sid = pushes /\ verdict = "OK" => Armed'
    BY <1>1, <1>2, <2>3 DEF SessLive, Armed
  <2>6. up' = Append(up, e)
    BY <2>3
  <2> HIDE DEF e
  <2> QED BY <1>4, <1>6, <2>1, <2>2, <2>4, <2>5, <2>6
<1>10. CASE f.cmd = "ABORT" /\ OtaAbort(f)
  <2>1. SessLive'
    BY <1>1, <1>2, <1>10 DEF SessLive, PushLive, OtaAbort, NoSession
  <2>2. \E e : up' = Append(up, e) /\ e.evt # "COMMITTED"
    BY <1>10 DEF OtaAbort, Ack
  <2> QED BY <1>4, <1>6, <2>1, <2>2
<1>11. f.cmd \in {"BEGIN", "CHUNK", "COMMIT", "ABORT"}
  BY <1>3 DEF IdsInv, DownIds, Requests
<1>12. f.cmd = "BEGIN" => OtaBegin(f)
  BY <1>3 DEF McuServe
<1>13. f.cmd = "CHUNK" => OtaChunk(f)
  BY <1>3 DEF McuServe
<1>14. f.cmd = "COMMIT" => OtaCommit(f)
  BY <1>3 DEF McuServe
<1>15. f.cmd = "ABORT" => OtaAbort(f)
  BY <1>3 DEF McuServe
<1> QED BY <1>7, <1>8, <1>9, <1>10, <1>11, <1>12, <1>13, <1>14, <1>15

LEMMA LiveStep == IdsInv /\ IdsInv' /\ LiveInv /\ [PushNext]_pushVars => LiveInv'
<1> SUFFICES ASSUME IdsInv, IdsInv', LiveInv, [PushNext]_pushVars PROVE LiveInv' OBVIOUS
<1>0. IsSeq(down) /\ IsSeq(up) /\ PushIds
  BY DEF IdsInv, DownIds, UpIds
<1>1. CASE UNCHANGED pushVars
  BY <1>1 DEF pushVars, LiveInv, Live, PushLive, SessLive, DownLive, UpLive, DoneLive, Armed
<1>2. ASSUME NEW image \in Images,
             StartPush(image) \/ \E got \in 0..Len(image) : FetchAndPush(image, got)
      PROVE  LiveInv'
  <2>1. StartFromBuf(image) \/ UNCHANGED <<push, pushes, down>>
    BY <1>2 DEF StartPush, FetchAndPush
  <2>2. UNCHANGED <<up, mcuState, mishaps>>
    BY <1>2 DEF StartPush, FetchAndPush
  <2>3. CASE UNCHANGED <<push, pushes, down>>
    BY <1>1, <2>2, <2>3 DEF pushVars, mcuState
  <2> QED BY <2>1, <2>2, <2>3, LiveAfterStart
<1>3. CASE AbortPush \/ LoopTick
  <2>1. push'.state = "FAILED"
    BY <1>0, <1>3 DEF AbortPush, LoopTick, Finished, PushIds
  <2> QED BY <2>1 DEF LiveInv, Live, Active
<1>4. CASE ModuleReset
  BY <1>4 DEF ModuleReset, IdlePush, LiveInv, Live, Active
<1>5. CASE ChargerReset
  <2> SUFFICES ASSUME Live' PROVE (PushLive /\ SessLive /\ DownLive /\ UpLive /\ DoneLive)'
    BY DEF LiveInv
  <2>1. UNCHANGED <<push, pushes, up>> /\ sess' = NoSession
    BY <1>5 DEF ChargerReset
  <2>2. PushLive /\ SessLive /\ DownLive /\ UpLive /\ DoneLive
    BY <2>1 DEF LiveInv, Live
  <2>3. PICK n \in 0..Len(down) : down' = SubSeq(down, n + 1, Len(down))
    BY <1>5 DEF ChargerReset
  <2>4. IsRest(down', down, n) /\ n \in Nat
    BY <1>0, <2>3, SuffixIsRest, LenIsNat
  <2>5. DownLive' /\ (down = <<>> => down' = <<>>)
    BY <2>1, <2>2, <2>4, DownLiveShrinks
  <2>6. Armed => Armed'
    BY <1>5, <2>1, <2>2 DEF ChargerReset, Armed, PushLive
  <2>7. PushLive' /\ SessLive'
    BY <2>1, <2>2, <1>0 DEF PushLive, SessLive, NoSession, PushIds
  <2>8. UpLive' /\ DoneLive'
    BY <2>1, <2>2, <2>5, <2>6 DEF UpLive, DoneLive
  <2> QED BY <2>5, <2>7, <2>8
<1>6. CASE LoseFrame
  <2> SUFFICES ASSUME Live' PROVE (PushLive /\ SessLive /\ DownLive /\ UpLive /\ DoneLive)'
    BY DEF LiveInv
  <2>1. UNCHANGED <<push, pushes, sess, stage, armed, installed>>
    BY <1>6 DEF LoseFrame, mcuState
  <2>2. PushLive /\ SessLive /\ DownLive /\ UpLive /\ DoneLive
    BY <2>1 DEF LiveInv, Live
  <2>3. PushLive' /\ SessLive'
    BY <2>1, <2>2 DEF PushLive, SessLive
  <2>4. CASE down # <<>> /\ down' = Tail(down) /\ UNCHANGED up
    <3>1. DownLive' /\ (down = <<>> => down' = <<>>)
      BY <1>0, <2>1, <2>2, <2>4, TailIsRest, DownLiveShrinks
    <3>2. UpLive' /\ DoneLive'
      BY <2>1, <2>2, <2>4, <3>1 DEF UpLive, DoneLive, Armed
    <3> QED BY <2>3, <3>1, <3>2
  <2>5. CASE up # <<>> /\ up' = Tail(up) /\ UNCHANGED down
    <3>1. UpLive'
      BY <1>0, <2>1, <2>2, <2>5, TailIsRest, UpLiveShrinks
    <3>2. DownLive' /\ DoneLive'
      BY <2>1, <2>2, <2>5 DEF DownLive, DoneLive, Armed
    <3> QED BY <2>3, <3>1, <3>2
  <2> QED BY <1>6, <2>4, <2>5 DEF LoseFrame
<1> QED
  BY <1>1, <1>2, <1>3, <1>4, <1>5, <1>6, LiveAfterAnswer, LiveAfterServe DEF PushNext

\* A push that reports DONE has put its image on the charger, staged whole and armed or
\* already copied (EVT_OTA_COMMITTED of openevcharger_tlv.cpp against handle_ota_commit of
\* persist_task.c), whatever older pushes, late answers, losses and restarts there were.
THEOREM DoneMeansArmed == PushSpec => []DoneIsArmed
<1>1. PushInit => IdsInv /\ LiveInv
  BY IdsInit, LiveInit
<1>2. IdsInv /\ LiveInv /\ [PushNext]_pushVars => IdsInv' /\ LiveInv'
  BY IdsStep, LiveStep
<1>3. IdsInv /\ LiveInv => DoneIsArmed
  BY DEF LiveInv, Live, DoneLive, Armed, DoneIsArmed
<1> QED
  BY <1>1, <1>2, <1>3, PTL DEF PushSpec

-----------------------------------------------------------------------------
(* The conversation of Link: what is still asked for, and the last word.    *)

Has(s, cmds) == \E i \in 1..Len(s) : s[i].cmd \in cmds
Waits(s, request) == \E i \in 1..Len(s) : s[i] = request

\* Each frame of one kind has one of the other behind it.
Followed(s, those, ask) ==
  \A i \in 1..Len(s) : s[i].cmd \in those => \E j \in i + 1..Len(s) : s[j].cmd = ask

\* What the module will have been told when the frames on the line have arrived: the last
\* frame of this kind carries the value or, when there is none, the mirror says it.
LastWord(s, cmd, value, shown) ==
  \/ \E i \in 1..Len(s) : /\ s[i].cmd = cmd /\ s[i].arg = value
                          /\ \A j \in i + 1..Len(s) : s[j].cmd # cmd
  \/ shown /\ \A i \in 1..Len(s) : s[i].cmd # cmd

\* A card reported as learned makes the module ask for the list.
SaysLearned(s) == \E i \in 1..Len(s) : s[i].cmd = "RFID_AUTH_RESULT" /\ s[i].arg = "learned"

RfidAsked ==
  \/ Has(to_mcu, {"GET_RFID_CONFIG", "SET_REQUIRE_RFID_AUTH"})
  \/ Has(persist_q, {"SET_REQUIRE_RFID_AUTH"}) \/ Waits(inbox, "GET_RFID_CONFIG")
RfidShown == fc.require = cfg.require /\ fc.switch = cfg.require /\ fc.authorized = authorized
RfidKnown ==
  RfidAsked \/ LastWord(to_fc, "RFID_CONFIG", [require |-> cfg.require, authorized |-> authorized], RfidShown)

PolicyAsked ==
  \/ Has(to_mcu, {"GET_GFCI_POLICY", "SET_GFCI_POLICY"})
  \/ Has(persist_q, {"SET_GFCI_POLICY"}) \/ Waits(inbox, "GET_GFCI_POLICY")
PolicyShown == fc.policy = cfg.policy /\ fc.select = cfg.policy
PolicyKnown == PolicyAsked \/ LastWord(to_fc, "GFCI_POLICY", cfg.policy, PolicyShown)

CardChanges == {"ADD", "RFID_REMOVE_UID", "RFID_CLEAR_LIST"}
ListComes == Has(to_mcu, {"RFID_GET_LIST"}) \/ SaysLearned(to_fc)
ListKnown ==
  /\ Followed(to_mcu, CardChanges, "RFID_GET_LIST")
  /\ ListComes \/ Followed(persist_q, CardChanges, "RFID_GET_LIST")
  /\ \/ ListComes \/ Has(persist_q, {"RFID_GET_LIST"})
     \/ LastWord(to_fc, "RFID_LIST_END", Cardinality(cards), fc.count = Cardinality(cards))

TotalComes == Has(to_mcu, {"GET_LIFETIME_KWH"}) \/ Has(to_fc, {"SESSION_ENDED"})
TotalKnown ==
  /\ TotalComes \/ Followed(persist_q, {"SESSION"}, "GET_LIFETIME_KWH")
  /\ \/ TotalComes \/ Has(persist_q, {"GET_LIFETIME_KWH"})
     \/ LastWord(to_fc, "LIFETIME_KWH", kwh, fc.lifetime = kwh)

\* Queues are queues, and what is assigned to by field has its fields.
LinkShape ==
  /\ IsSeq(to_mcu) /\ IsSeq(to_fc) /\ IsSeq(persist_q) /\ IsSeq(inbox)
  /\ DOMAIN cfg = {"amps", "require", "policy"} /\ DOMAIN fc = DOMAIN FcReset

Known == RfidKnown /\ PolicyKnown /\ ListKnown /\ TotalKnown
\* Nothing is known of a conversation in which something was lost.
MirrorInv == clean => LinkShape /\ Known

LEMMA Joined ==
  ASSUME NEW s, IsSeq(s), NEW t, IsSeq(t)
  PROVE  /\ IsSeq(s \o t) /\ Len(s \o t) = Len(s) + Len(t)
         /\ \A i \in 1..Len(s) + Len(t) : (s \o t)[i] = IF i <= Len(s) THEN s[i] ELSE t[i - Len(s)]
<1>1. PICK S : s \in Seq(S)
  BY DEF IsSeq
<1>2. PICK T : t \in Seq(T)
  BY DEF IsSeq
<1>3. s \in Seq(S \cup T) /\ t \in Seq(S \cup T)
  BY <1>1, <1>2, SeqMonotonic, S \subseteq S \cup T, T \subseteq S \cup T
<1> QED BY <1>3, ConcatProperties DEF IsSeq

LEMMA One == ASSUME NEW e PROVE IsSeq(<<e>>) /\ Len(<<e>>) = 1 /\ <<e>>[1] = e
<1>1. <<e>> \in Seq({e})
  OBVIOUS
<1> QED BY <1>1 DEF IsSeq

LEMMA HasInOne ==
  ASSUME NEW e, NEW C
  PROVE  (Has(<<e>>, C) <=> e.cmd \in C) /\ ~Has(<<>>, C)
BY One, EmptyIsSeq DEF Has

LEMMA HasInTwo ==
  ASSUME NEW s, IsSeq(s), NEW t, IsSeq(t), NEW C
  PROVE  Has(s \o t, C) <=> Has(s, C) \/ Has(t, C)
<1>1. /\ Len(s) \in Nat /\ Len(t) \in Nat /\ Len(s \o t) = Len(s) + Len(t)
      /\ \A i \in 1..Len(s) + Len(t) : (s \o t)[i] = IF i <= Len(s) THEN s[i] ELSE t[i - Len(s)]
  BY Joined, LenIsNat
<1>2. ASSUME Has(s, C) PROVE Has(s \o t, C)
  BY <1>1, <1>2 DEF Has
<1>3. ASSUME Has(t, C) PROVE Has(s \o t, C)
  <2>1. PICK i \in 1..Len(t) : t[i].cmd \in C
    BY <1>3 DEF Has
  <2>2. i + Len(s) \in 1..Len(s) + Len(t) /\ ~(i + Len(s) <= Len(s)) /\ i + Len(s) - Len(s) = i
    BY <1>1
  <2> QED BY <1>1, <2>1, <2>2 DEF Has
<1>4. ASSUME Has(s \o t, C) PROVE Has(s, C) \/ Has(t, C)
  <2>1. PICK i \in 1..Len(s) + Len(t) : (s \o t)[i].cmd \in C
    BY <1>1, <1>4 DEF Has
  <2>2. CASE i <= Len(s)
    BY <1>1, <2>1, <2>2 DEF Has
  <2>3. CASE ~(i <= Len(s))
    <3>1. i - Len(s) \in 1..Len(t)
      BY <1>1, <2>3
    <3> QED BY <1>1, <2>1, <2>3, <3>1 DEF Has
  <2> QED BY <2>2, <2>3
<1> QED BY <1>2, <1>3, <1>4

LEMMA HasInMore ==
  ASSUME NEW s, IsSeq(s), NEW e, NEW C
  PROVE  Has(Append(s, e), C) <=> Has(s, C) \/ e.cmd \in C
<1>1. IsSeq(<<e>>) /\ s \o <<e>> = Append(s, e)
  BY OneMore, One
<1>2. Has(s \o <<e>>, C) <=> Has(s, C) \/ Has(<<e>>, C)
  BY <1>1, HasInTwo
<1> QED BY <1>1, <1>2, HasInOne

LEMMA HasInTail ==
  ASSUME NEW s, IsSeq(s), s # <<>>, NEW C
  PROVE  Has(s, C) <=> Head(s).cmd \in C \/ Has(Tail(s), C)
<1>1. /\ Len(s) \in Nat /\ Len(Tail(s)) = Len(s) - 1 /\ Head(s) = s[1] /\ 1 \in 1..Len(s)
      /\ \A i \in 1..Len(s) - 1 : Tail(s)[i] = s[i + 1]
  BY TailIsRest, LenIsNat DEF IsRest
<1>2. ASSUME Has(s, C) PROVE Head(s).cmd \in C \/ Has(Tail(s), C)
  <2>1. PICK i \in 1..Len(s) : s[i].cmd \in C
    BY <1>2 DEF Has
  <2>2. CASE i = 1
    BY <1>1, <2>1, <2>2
  <2>3. CASE i # 1
    <3>1. i - 1 \in 1..Len(s) - 1 /\ i - 1 + 1 = i
      BY <1>1, <2>3
    <3> QED BY <1>1, <2>1, <3>1 DEF Has
  <2> QED BY <2>2, <2>3
<1>3. ASSUME Has(Tail(s), C) PROVE Has(s, C)
  <2>1. PICK i \in 1..Len(s) - 1 : Tail(s)[i].cmd \in C
    BY <1>1, <1>3 DEF Has
  <2>2. i + 1 \in 1..Len(s)
    BY <1>1
  <2> QED BY <1>1, <2>1, <2>2 DEF Has
<1>4. ASSUME Head(s).cmd \in C PROVE Has(s, C)
  BY <1>1, <1>4 DEF Has
<1> QED BY <1>2, <1>3, <1>4

\* The same of requests that are names only.
LEMMA WaitsMoves ==
  ASSUME NEW s, IsSeq(s), NEW r
  PROVE  /\ \A e : Waits(Append(s, e), r) <=> Waits(s, r) \/ e = r
         /\ s # <<>> => (Waits(s, r) <=> Head(s) = r \/ Waits(Tail(s), r))
<1>0. Len(s) \in Nat
  BY LenIsNat
<1>1. ASSUME NEW e PROVE Waits(Append(s, e), r) <=> Waits(s, r) \/ e = r
  <2>1. /\ Len(Append(s, e)) = Len(s) + 1
        /\ \A i \in 1..Len(s) + 1 : Append(s, e)[i] = IF i <= Len(s) THEN s[i] ELSE e
    BY Appended
  <2> QED BY <1>0, <2>1 DEF Waits
<1>2. ASSUME s # <<>> PROVE Waits(s, r) <=> Head(s) = r \/ Waits(Tail(s), r)
  <2>1. /\ Len(Tail(s)) = Len(s) - 1 /\ Head(s) = s[1] /\ 1 \in 1..Len(s)
        /\ \A i \in 1..Len(s) - 1 : Tail(s)[i] = s[i + 1]
    BY <1>2, TailIsRest DEF IsRest
  <2>2. ASSUME NEW i \in 1..Len(s), s[i] = r PROVE Head(s) = r \/ Waits(Tail(s), r)
    <3>1. CASE i = 1
      BY <2>1, <2>2, <3>1
    <3>2. CASE i # 1
      <4>1. i - 1 \in 1..Len(s) - 1 /\ i - 1 + 1 = i
        BY <1>0, <3>2
      <4> QED BY <2>1, <2>2, <4>1 DEF Waits
    <3> QED BY <3>1, <3>2
  <2>3. ASSUME NEW i \in 1..Len(s) - 1, Tail(s)[i] = r PROVE Waits(s, r)
    <3>1. i + 1 \in 1..Len(s)
      BY <1>0
    <3> QED BY <2>1, <2>3, <3>1 DEF Waits
  <2> QED BY <2>1, <2>2, <2>3 DEF Waits
<1> QED BY <1>1, <1>2

\* The same of the card that was learned.
LEMMA LearnedInOne ==
  ASSUME NEW e
  PROVE  (SaysLearned(<<e>>) <=> e.cmd = "RFID_AUTH_RESULT" /\ e.arg = "learned") /\ ~SaysLearned(<<>>)
BY One, EmptyIsSeq DEF SaysLearned

LEMMA LearnedInTwo ==
  ASSUME NEW s, IsSeq(s), NEW t, IsSeq(t), SaysLearned(s) \/ SaysLearned(t)
  PROVE  SaysLearned(s \o t)
<1>1. /\ Len(s) \in Nat /\ Len(t) \in Nat /\ Len(s \o t) = Len(s) + Len(t)
      /\ \A i \in 1..Len(s) + Len(t) : (s \o t)[i] = IF i <= Len(s) THEN s[i] ELSE t[i - Len(s)]
  BY Joined, LenIsNat
<1>2. CASE SaysLearned(s)
  BY <1>1, <1>2 DEF SaysLearned
<1>3. CASE SaysLearned(t)
  <2>1. PICK i \in 1..Len(t) : t[i].cmd = "RFID_AUTH_RESULT" /\ t[i].arg = "learned"
    BY <1>3 DEF SaysLearned
  <2>2. i + Len(s) \in 1..Len(s) + Len(t) /\ ~(i + Len(s) <= Len(s)) /\ i + Len(s) - Len(s) = i
    BY <1>1
  <2> QED BY <1>1, <2>1, <2>2 DEF SaysLearned
<1> QED BY <1>2, <1>3

LEMMA LearnedInTail ==
  ASSUME NEW s, IsSeq(s), s # <<>>, SaysLearned(s)
  PROVE  (Head(s).cmd = "RFID_AUTH_RESULT" /\ Head(s).arg = "learned") \/ SaysLearned(Tail(s))
<1>1. /\ Len(s) \in Nat /\ Len(Tail(s)) = Len(s) - 1 /\ Head(s) = s[1]
      /\ \A i \in 1..Len(s) - 1 : Tail(s)[i] = s[i + 1]
  BY TailIsRest, LenIsNat DEF IsRest
<1>2. PICK i \in 1..Len(s) : s[i].cmd = "RFID_AUTH_RESULT" /\ s[i].arg = "learned"
  BY DEF SaysLearned
<1>3. CASE i = 1
  BY <1>1, <1>2, <1>3
<1>4. CASE i # 1
  <2>1. i - 1 \in 1..Len(s) - 1 /\ i - 1 + 1 = i
    BY <1>1, <1>4
  <2> QED BY <1>1, <1>2, <2>1 DEF SaysLearned
<1> QED BY <1>3, <1>4

\* A request behind all others follows them.
LEMMA FollowedByLast ==
  ASSUME NEW s, IsSeq(s), NEW those, NEW ask, NEW e, e.cmd = ask, ask \notin those
  PROVE  Followed(Append(s, e), those, ask)
<1>1. /\ Len(s) \in Nat /\ Len(Append(s, e)) = Len(s) + 1
      /\ \A i \in 1..Len(s) + 1 : Append(s, e)[i] = IF i <= Len(s) THEN s[i] ELSE e
  BY Appended, LenIsNat
<1>2. Len(s) + 1 \in 1..Len(s) + 1 /\ Append(s, e)[Len(s) + 1] = e
  BY <1>1
<1>3. ASSUME NEW i \in 1..Len(s) + 1, Append(s, e)[i].cmd \in those
      PROVE  \E j \in i + 1..Len(s) + 1 : Append(s, e)[j].cmd = ask
  <2>1. i # Len(s) + 1
    BY <1>2, <1>3
  <2>2. Len(s) + 1 \in i + 1..Len(s) + 1
    BY <1>1, <2>1
  <2> QED BY <1>2, <2>2
<1> QED BY <1>1, <1>3 DEF Followed

LEMMA FollowedInTwo ==
  ASSUME NEW s, IsSeq(s), NEW t, IsSeq(t), NEW those, NEW ask, Followed(s, those, ask), Followed(t, those, ask)
  PROVE  Followed(s \o t, those, ask)
<1>1. /\ Len(s) \in Nat /\ Len(t) \in Nat /\ Len(s \o t) = Len(s) + Len(t)
      /\ \A i \in 1..Len(s) + Len(t) : (s \o t)[i] = IF i <= Len(s) THEN s[i] ELSE t[i - Len(s)]
  BY Joined, LenIsNat
<1>2. ASSUME NEW i \in 1..Len(s) + Len(t), (s \o t)[i].cmd \in those
      PROVE  \E j \in i + 1..Len(s) + Len(t) : (s \o t)[j].cmd = ask
  <2>1. CASE i <= Len(s)
    <3>1. i \in 1..Len(s) /\ s[i].cmd \in those
      BY <1>1, <1>2, <2>1
    <3>2. PICK j \in i + 1..Len(s) : s[j].cmd = ask
      BY <3>1 DEF Followed
    <3>3. j \in i + 1..Len(s) + Len(t) /\ j \in 1..Len(s) + Len(t) /\ j <= Len(s)
      BY <1>1
    <3> QED BY <1>1, <3>2, <3>3
  <2>2. CASE ~(i <= Len(s))
    <3>1. i - Len(s) \in 1..Len(t) /\ t[i - Len(s)].cmd \in those
      BY <1>1, <1>2, <2>2
    <3>2. PICK j \in i - Len(s) + 1..Len(t) : t[j].cmd = ask
      BY <3>1 DEF Followed
    <3>3. j + Len(s) \in i + 1..Len(s) + Len(t) /\ ~(j + Len(s) <= Len(s)) /\ j + Len(s) - Len(s) = j
          /\ j + Len(s) \in 1..Len(s) + Len(t)
      BY <1>1, <2>2
    <3>4. (s \o t)[j + Len(s)] = t[j]
      BY <1>1, <3>3
    <3> QED BY <3>2, <3>3, <3>4
  <2> QED BY <2>1, <2>2
<1> QED BY <1>1, <1>2 DEF Followed

LEMMA FollowedIfNone ==
  ASSUME NEW s, NEW those, NEW ask, ~Has(s, those)
  PROVE  Followed(s, those, ask)
BY DEF Has, Followed

LEMMA FollowedInMore ==
  ASSUME NEW s, IsSeq(s), NEW e, NEW those, NEW ask, Followed(s, those, ask), e.cmd \notin those
  PROVE  Followed(Append(s, e), those, ask)
<1>1. IsSeq(<<e>>) /\ s \o <<e>> = Append(s, e)
  BY OneMore, One
<1>2. Followed(<<e>>, those, ask)
  BY HasInOne, FollowedIfNone
<1>3. Followed(s \o <<e>>, those, ask)
  BY <1>1, <1>2, FollowedInTwo
<1> QED BY <1>1, <1>3

LEMMA FollowedInTail ==
  ASSUME NEW s, IsSeq(s), s # <<>>, NEW those, NEW ask, Followed(s, those, ask)
  PROVE  Followed(Tail(s), those, ask) /\ (Head(s).cmd \in those => Has(Tail(s), {ask}))
<1>1. /\ Len(s) \in Nat /\ Len(Tail(s)) = Len(s) - 1 /\ Head(s) = s[1] /\ 1 \in 1..Len(s)
      /\ \A i \in 1..Len(s) - 1 : Tail(s)[i] = s[i + 1]
  BY TailIsRest, LenIsNat DEF IsRest
<1>2. ASSUME NEW i \in 1..Len(s), s[i].cmd \in those
      PROVE  \E j \in i..Len(s) - 1 : j \in 1..Len(s) - 1 /\ Tail(s)[j].cmd = ask
  <2>1. PICK k \in i + 1..Len(s) : s[k].cmd = ask
    BY <1>2 DEF Followed
  <2>2. k - 1 \in i..Len(s) - 1 /\ k - 1 \in 1..Len(s) - 1 /\ k - 1 + 1 = k
    BY <1>1
  <2> QED BY <1>1, <2>1, <2>2
<1>3. ASSUME NEW i \in 1..Len(s) - 1, Tail(s)[i].cmd \in those
      PROVE  \E j \in i + 1..Len(s) - 1 : Tail(s)[j].cmd = ask
  <2>1. i + 1 \in 1..Len(s) /\ s[i + 1].cmd \in those
    BY <1>1, <1>3
  <2> QED BY <1>2, <2>1
<1>4. ASSUME Head(s).cmd \in those PROVE Has(Tail(s), {ask})
  BY <1>1, <1>2, <1>4 DEF Has
<1> QED BY <1>1, <1>3, <1>4 DEF Followed

\* The last word: spoken again, not spoken, heard.
LEMMA LastWordNew ==
  ASSUME NEW s, IsSeq(s), NEW t, IsSeq(t), NEW cmd, NEW v, NEW b, LastWord(t, cmd, v, FALSE)
  PROVE  LastWord(s \o t, cmd, v, b)
<1>1. /\ Len(s) \in Nat /\ Len(t) \in Nat /\ Len(s \o t) = Len(s) + Len(t)
      /\ \A i \in 1..Len(s) + Len(t) : (s \o t)[i] = IF i <= Len(s) THEN s[i] ELSE t[i - Len(s)]
  BY Joined, LenIsNat
<1>2. PICK i \in 1..Len(t) : /\ t[i].cmd = cmd /\ t[i].arg = v
                             /\ \A j \in i + 1..Len(t) : t[j].cmd # cmd
  BY DEF LastWord
<1>3. i + Len(s) \in 1..Len(s) + Len(t) /\ (s \o t)[i + Len(s)] = t[i]
  BY <1>1
<1>4. ASSUME NEW j \in i + Len(s) + 1..Len(s) + Len(t) PROVE (s \o t)[j].cmd # cmd
  <2>1. j \in 1..Len(s) + Len(t) /\ ~(j <= Len(s)) /\ j - Len(s) \in i + 1..Len(t)
    BY <1>1
  <2> QED BY <1>1, <1>2, <2>1
<1> QED BY <1>1, <1>2, <1>3, <1>4 DEF LastWord

LEMMA LastWordStays ==
  ASSUME NEW s, IsSeq(s), NEW t, IsSeq(t), NEW cmd, NEW v, NEW b, LastWord(s, cmd, v, b), ~Has(t, {cmd})
  PROVE  LastWord(s \o t, cmd, v, b)
<1>1. /\ Len(s) \in Nat /\ Len(t) \in Nat /\ Len(s \o t) = Len(s) + Len(t)
      /\ \A i \in 1..Len(s) + Len(t) : (s \o t)[i] = IF i <= Len(s) THEN s[i] ELSE t[i - Len(s)]
  BY Joined, LenIsNat
<1>2. ASSUME NEW j \in 1..Len(s) + Len(t), ~(j <= Len(s)) PROVE (s \o t)[j].cmd # cmd
  <2>1. j - Len(s) \in 1..Len(t)
    BY <1>1, <1>2
  <2> QED BY <1>1, <1>2, <2>1 DEF Has
<1>3. ASSUME NEW i \in 1..Len(s), s[i].cmd = cmd, s[i].arg = v, \A j \in i + 1..Len(s) : s[j].cmd # cmd
      PROVE  LastWord(s \o t, cmd, v, b)
  <2>1. i \in 1..Len(s) + Len(t) /\ (s \o t)[i] = s[i]
    BY <1>1
  <2>2. ASSUME NEW j \in i + 1..Len(s) + Len(t) PROVE (s \o t)[j].cmd # cmd
    <3>0. j \in 1..Len(s) + Len(t)
      BY <1>1
    <3>1. CASE j <= Len(s)
      <4>1. j \in i + 1..Len(s)
        BY <1>1, <3>1
      <4> QED BY <1>1, <1>3, <3>0, <3>1, <4>1
    <3>2. CASE ~(j <= Len(s))
      BY <1>2, <3>0, <3>2
    <3> QED BY <3>1, <3>2
  <2> QED BY <1>1, <1>3, <2>1, <2>2 DEF LastWord
<1>4. ASSUME b, \A i \in 1..Len(s) : s[i].cmd # cmd PROVE LastWord(s \o t, cmd, v, b)
  <2>1. ASSUME NEW j \in 1..Len(s) + Len(t) PROVE (s \o t)[j].cmd # cmd
    BY <1>1, <1>2, <1>4
  <2> QED BY <1>1, <1>4, <2>1 DEF LastWord
<1> QED BY <1>3, <1>4 DEF LastWord

LEMMA LastWordHeard ==
  ASSUME NEW s, IsSeq(s), s # <<>>, NEW cmd, NEW v, NEW b, LastWord(s, cmd, v, b), NEW c,
         IF Head(s).cmd = cmd THEN Head(s).arg = v => c ELSE b => c
  PROVE  LastWord(Tail(s), cmd, v, c)
<1>1. /\ Len(s) \in Nat /\ Len(Tail(s)) = Len(s) - 1 /\ Head(s) = s[1] /\ 1 \in 1..Len(s)
      /\ \A i \in 1..Len(s) - 1 : Tail(s)[i] = s[i + 1]
  BY TailIsRest, LenIsNat DEF IsRest
<1>2. ASSUME NEW i \in 1..Len(s), s[i].cmd = cmd, s[i].arg = v, \A j \in i + 1..Len(s) : s[j].cmd # cmd
      PROVE  LastWord(Tail(s), cmd, v, c)
  <2>0. ASSUME NEW j \in i..Len(s) - 1 PROVE Tail(s)[j].cmd # cmd
    <3>1. j \in 1..Len(s) - 1 /\ j + 1 \in i + 1..Len(s)
      BY <1>1
    <3> QED BY <1>1, <1>2, <3>1
  <2>1. CASE i = 1
    BY <1>1, <1>2, <2>0, <2>1 DEF LastWord
  <2>2. CASE i # 1
    <3>1. i - 1 \in 1..Len(s) - 1 /\ i - 1 + 1 = i
      BY <1>1, <2>2
    <3>2. \A j \in i - 1 + 1..Len(s) - 1 : Tail(s)[j].cmd # cmd
      BY <2>0, <3>1
    <3>3. Tail(s)[i - 1] = s[i]
      BY <1>1, <3>1
    <3> QED BY <1>1, <1>2, <3>1, <3>2, <3>3 DEF LastWord
  <2> QED BY <2>1, <2>2
<1>3. ASSUME b, \A i \in 1..Len(s) : s[i].cmd # cmd PROVE LastWord(Tail(s), cmd, v, c)
  <2>1. ASSUME NEW j \in 1..Len(s) - 1 PROVE Tail(s)[j].cmd # cmd
    <3>1. j + 1 \in 1..Len(s)
      BY <1>1
    <3> QED BY <1>1, <1>3, <3>1
  <2> QED BY <1>1, <1>3, <2>1 DEF LastWord
<1> QED BY <1>2, <1>3 DEF LastWord

LEMMA LastWordOne == ASSUME NEW e PROVE LastWord(<<e>>, e.cmd, e.arg, FALSE)
BY One DEF LastWord

-----------------------------------------------------------------------------
(* What safety_task publishes, and what it posts together with that.        *)

Words == {"RFID_CONFIG", "GFCI_POLICY", "RFID_LIST_END", "LIFETIME_KWH"}

\* A session's record and a card to learn are posted together with the frame that makes
\* the module ask; anything that changes what RFID_CONFIG says is followed by one.
QueueTold(t) ==
  \E q : /\ IsSeq(q) /\ persist_q' = persist_q \o q
         /\ Has(q, CardChanges) => SaysLearned(t)
         /\ Has(q, {"SESSION"}) => Has(t, {"SESSION_ENDED"})
RfidTold(t) ==
  \/ /\ authorized' = authorized /\ ~Has(t, {"RFID_CONFIG"})
     /\ Waits(inbox, "GET_RFID_CONFIG") => Waits(inbox', "GET_RFID_CONFIG")
  \/ LastWord(t, "RFID_CONFIG", [require |-> cfg.require, authorized |-> authorized'], FALSE)
PolicyTold(t) ==
  \/ /\ ~Has(t, {"GFCI_POLICY"})
     /\ Waits(inbox, "GET_GFCI_POLICY") => Waits(inbox', "GET_GFCI_POLICY")
  \/ LastWord(t, "GFCI_POLICY", cfg.policy, FALSE)
Tells(t) ==
  /\ IsSeq(t) /\ IsSeq(inbox') /\ to_fc' = to_fc \o t /\ UNCHANGED <<to_mcu, fc, cfg, cards, kwh>>
  /\ ~Has(t, {"RFID_LIST_END"}) /\ ~Has(t, {"LIFETIME_KWH"})
  /\ QueueTold(t) /\ RfidTold(t) /\ PolicyTold(t)

LEMMA TellsKeeps == ASSUME LinkShape, Known, NEW t, Tells(t) PROVE LinkShape' /\ Known'
<1>0. /\ IsSeq(to_mcu) /\ IsSeq(to_fc) /\ IsSeq(persist_q) /\ IsSeq(inbox) /\ IsSeq(t)
      /\ to_fc' = to_fc \o t /\ UNCHANGED <<to_mcu, fc, cfg, cards, kwh>>
      /\ ~Has(t, {"RFID_LIST_END"}) /\ ~Has(t, {"LIFETIME_KWH"})
      /\ QueueTold(t) /\ RfidTold(t) /\ PolicyTold(t)
  BY DEF LinkShape, Tells
<1> PICK q : /\ IsSeq(q) /\ persist_q' = persist_q \o q
             /\ Has(q, CardChanges) => SaysLearned(t)
             /\ Has(q, {"SESSION"}) => Has(t, {"SESSION_ENDED"})
  BY <1>0 DEF QueueTold
<1>1. \A C : Has(persist_q, C) => Has(persist_q', C)
  BY <1>0, HasInTwo
<1>2. RfidKnown'
  <2>1. CASE LastWord(t, "RFID_CONFIG", [require |-> cfg.require, authorized |-> authorized'], FALSE)
    <3>1. LastWord(to_fc \o t, "RFID_CONFIG", [require |-> cfg.require, authorized |-> authorized'], RfidShown')
      BY <1>0, <2>1, LastWordNew
    <3> QED BY <1>0, <3>1 DEF RfidKnown
  <2>2. CASE /\ authorized' = authorized /\ ~Has(t, {"RFID_CONFIG"})
             /\ Waits(inbox, "GET_RFID_CONFIG") => Waits(inbox', "GET_RFID_CONFIG")
    <3>1. CASE RfidAsked
      BY <1>0, <1>1, <2>2, <3>1 DEF RfidKnown, RfidAsked
    <3>2. CASE LastWord(to_fc, "RFID_CONFIG", [require |-> cfg.require, authorized |-> authorized], RfidShown)
      <4>1. LastWord(to_fc \o t, "RFID_CONFIG", [require |-> cfg.require, authorized |-> authorized], RfidShown)
        BY <1>0, <2>2, <3>2, LastWordStays
      <4>2. RfidShown' = RfidShown
        BY <1>0, <2>2 DEF RfidShown
      <4> QED BY <1>0, <2>2, <4>1, <4>2 DEF RfidKnown
    <3> QED BY <3>1, <3>2 DEF Known, RfidKnown
  <2> QED BY <1>0, <2>1, <2>2 DEF RfidTold
<1>3. PolicyKnown'
  <2>1. CASE LastWord(t, "GFCI_POLICY", cfg.policy, FALSE)
    <3>1. LastWord(to_fc \o t, "GFCI_POLICY", cfg.policy, PolicyShown')
      BY <1>0, <2>1, LastWordNew
    <3> QED BY <1>0, <3>1 DEF PolicyKnown
  <2>2. CASE /\ ~Has(t, {"GFCI_POLICY"})
             /\ Waits(inbox, "GET_GFCI_POLICY") => Waits(inbox', "GET_GFCI_POLICY")
    <3>1. CASE PolicyAsked
      BY <1>0, <1>1, <2>2, <3>1 DEF PolicyKnown, PolicyAsked
    <3>2. CASE LastWord(to_fc, "GFCI_POLICY", cfg.policy, PolicyShown)
      <4>1. LastWord(to_fc \o t, "GFCI_POLICY", cfg.policy, PolicyShown)
        BY <1>0, <2>2, <3>2, LastWordStays
      <4>2. PolicyShown' = PolicyShown
        BY <1>0 DEF PolicyShown
      <4> QED BY <1>0, <4>1, <4>2 DEF PolicyKnown
    <3> QED BY <3>1, <3>2 DEF Known, PolicyKnown
  <2> QED BY <1>0, <2>1, <2>2 DEF PolicyTold
<1>4. ListKnown'
  <2>1. Followed(to_mcu', CardChanges, "RFID_GET_LIST")
    BY <1>0 DEF Known, ListKnown
  <2>2. ListComes => ListComes'
    BY <1>0, LearnedInTwo DEF ListComes
  <2>3. ListComes' \/ Followed(persist_q', CardChanges, "RFID_GET_LIST")
    <3>1. CASE Has(q, CardChanges)
      BY <1>0, <3>1, LearnedInTwo DEF ListComes
    <3>2. CASE ~Has(q, CardChanges)
      <4>1. Followed(q, CardChanges, "RFID_GET_LIST")
        BY <3>2, FollowedIfNone
      <4>2. Followed(persist_q, CardChanges, "RFID_GET_LIST") => Followed(persist_q \o q, CardChanges, "RFID_GET_LIST")
        BY <1>0, <4>1, FollowedInTwo
      <4> QED BY <2>2, <4>2 DEF Known, ListKnown
    <3> QED BY <3>1, <3>2
  <2>4. \/ ListComes' \/ Has(persist_q', {"RFID_GET_LIST"})
        \/ LastWord(to_fc', "RFID_LIST_END", Cardinality(cards)', (fc.count = Cardinality(cards))')
    <3>1. CASE ListComes \/ Has(persist_q, {"RFID_GET_LIST"})
      BY <1>1, <2>2, <3>1
    <3>2. CASE LastWord(to_fc, "RFID_LIST_END", Cardinality(cards), fc.count = Cardinality(cards))
      <4>1. LastWord(to_fc \o t, "RFID_LIST_END", Cardinality(cards), fc.count = Cardinality(cards))
        BY <1>0, <3>2, LastWordStays
      <4> QED BY <1>0, <4>1
    <3> QED BY <3>1, <3>2 DEF Known, ListKnown
  <2> QED BY <2>1, <2>3, <2>4 DEF ListKnown
<1>5. TotalKnown'
  <2>2. TotalComes => TotalComes'
    BY <1>0, HasInTwo DEF TotalComes
  <2>3. TotalComes' \/ Followed(persist_q', {"SESSION"}, "GET_LIFETIME_KWH")
    <3>1. CASE Has(q, {"SESSION"})
      BY <1>0, <3>1, HasInTwo DEF TotalComes
    <3>2. CASE ~Has(q, {"SESSION"})
      <4>1. Followed(q, {"SESSION"}, "GET_LIFETIME_KWH")
        BY <3>2, FollowedIfNone
      <4>2. Followed(persist_q, {"SESSION"}, "GET_LIFETIME_KWH") => Followed(persist_q \o q, {"SESSION"}, "GET_LIFETIME_KWH")
        BY <1>0, <4>1, FollowedInTwo
      <4> QED BY <2>2, <4>2 DEF Known, TotalKnown
    <3> QED BY <3>1, <3>2
  <2>4. \/ TotalComes' \/ Has(persist_q', {"GET_LIFETIME_KWH"})
        \/ LastWord(to_fc', "LIFETIME_KWH", kwh', (fc.lifetime = kwh)')
    <3>1. CASE TotalComes \/ Has(persist_q, {"GET_LIFETIME_KWH"})
      BY <1>1, <2>2, <3>1
    <3>2. CASE LastWord(to_fc, "LIFETIME_KWH", kwh, fc.lifetime = kwh)
      <4>1. LastWord(to_fc \o t, "LIFETIME_KWH", kwh, fc.lifetime = kwh)
        BY <1>0, <3>2, LastWordStays
      <4> QED BY <1>0, <4>1
    <3> QED BY <3>1, <3>2 DEF Known, TotalKnown
  <2> QED BY <2>3, <2>4 DEF TotalKnown
<1>6. LinkShape'
  <2>1. IsSeq(to_fc \o t)
    BY <1>0, Joined
  <2>3. IsSeq(persist_q')
    BY <1>0, Joined
  <2>4. IsSeq(inbox')
    BY DEF Tells
  <2> QED BY <1>0, <2>1, <2>3, <2>4 DEF LinkShape
<1> QED BY <1>2, <1>3, <1>4, <1>5, <1>6 DEF Known

LEMMA Posted ==
  ASSUME NEW r, clean'
  PROVE  /\ PostPersist(r) => clean /\ persist_q' = Append(persist_q, r)
         /\ PostSafety(r) => clean /\ inbox' = Append(inbox, r)
BY DEF PostPersist, PostSafety

\* What is posted with nothing lost, and what that has to be told.
LEMMA PostedAll ==
  ASSUME NEW q, clean', PostAll(q)
  PROVE  clean /\ persist_q' = persist_q \o q
BY DEF PostAll

LEMMA QueueStays == ASSUME NEW t, IsSeq(persist_q), persist_q' = persist_q PROVE QueueTold(t)
<1>1. IsSeq(<<>>) /\ persist_q' = persist_q \o <<>>
  BY EmptyIsSeq, OneMore
<1>2. \A C : ~Has(<<>>, C)
  BY HasInOne
<1> QED BY <1>1, <1>2 DEF QueueTold

LEMMA QueueGrows ==
  ASSUME NEW t, NEW x, IsSeq(persist_q), persist_q' = Append(persist_q, x),
         x.cmd \in CardChanges => SaysLearned(t), x.cmd = "SESSION" => Has(t, {"SESSION_ENDED"})
  PROVE  QueueTold(t)
<1>1. IsSeq(<<x>>) /\ persist_q' = persist_q \o <<x>>
  BY One, OneMore
<1>2. \A C : Has(<<x>>, C) <=> x.cmd \in C
  BY HasInOne
<1> QED BY <1>1, <1>2 DEF QueueTold

LEMMA NoWords == ASSUME NEW e, NEW w \in Words, e.cmd \notin Words PROVE ~Has(<<e>>, {w}) /\ ~Has(<<>>, {w})
BY HasInOne

\* Nothing but events.
Quiet(t) == IsSeq(t) /\ \A w \in Words : ~Has(t, {w})

LEMMA QuietOne == ASSUME NEW e, e.cmd \notin Words PROVE Quiet(<<e>>)
BY One, NoWords DEF Quiet

LEMMA QuietNone == Quiet(<<>>)
BY EmptyIsSeq, HasInOne DEF Quiet

LEMMA QuietTwo == ASSUME NEW s, NEW t, Quiet(s), Quiet(t) PROVE Quiet(s \o t)
BY Joined, HasInTwo DEF Quiet

LEMMA QuietTells ==
  ASSUME NEW t, Quiet(t), to_fc' = to_fc \o t, UNCHANGED <<to_mcu, fc, cfg, cards, kwh, authorized>>, QueueTold(t), IsSeq(inbox'),
         Waits(inbox, "GET_RFID_CONFIG") => Waits(inbox', "GET_RFID_CONFIG"),
         Waits(inbox, "GET_GFCI_POLICY") => Waits(inbox', "GET_GFCI_POLICY")
  PROVE  Tells(t)
BY DEF Quiet, Words, Tells, RfidTold, PolicyTold

\* The end of a session is published and its record posted, or neither.
LEMMA TransitionTells ==
  ASSUME NEW mode, Transition(mode), clean', IsSeq(persist_q)
  PROVE  clean /\ \E t : Quiet(t) /\ to_fc' = to_fc \o t /\ QueueTold(t)
<1>1. CASE evse.mode = "CHARGING" /\ mode # "CHARGING"
  <2>1. to_fc' = to_fc \o <<Plain("SESSION_ENDED")>> /\ PostPersist(Plain("SESSION"))
    BY <1>1 DEF Transition, Publish
  <2>2. clean /\ persist_q' = Append(persist_q, Plain("SESSION"))
    BY <2>1, Posted
  <2>3. Quiet(<<Plain("SESSION_ENDED")>>) /\ Has(<<Plain("SESSION_ENDED")>>, {"SESSION_ENDED"})
    BY QuietOne, HasInOne DEF Plain, Frame, Words
  <2>4. Plain("SESSION").cmd \notin CardChanges
    BY DEF Plain, Frame, CardChanges
  <2>5. QueueTold(<<Plain("SESSION_ENDED")>>)
    BY <2>2, <2>3, <2>4, QueueGrows
  <2> QED BY <2>1, <2>2, <2>3, <2>5
<1>2. CASE ~(evse.mode = "CHARGING" /\ mode # "CHARGING")
  <2>1. persist_q' = persist_q /\ clean' = clean
    BY <1>2 DEF Transition
  <2>2. to_fc' = to_fc \o <<Plain("SESSION_BEGAN")>> \/ to_fc' = to_fc \o <<>>
    BY <1>2 DEF Transition, Publish
  <2>3. Quiet(<<Plain("SESSION_BEGAN")>>) /\ Quiet(<<>>)
    BY QuietOne, QuietNone DEF Plain, Frame, Words
  <2>4. \A t : QueueTold(t)
    BY <2>1, QueueStays
  <2> QED BY <2>1, <2>2, <2>3, <2>4
<1> QED BY <1>1, <1>2

LEMMA ServeTells == ASSUME LinkShape, SafetyServe, clean' PROVE clean /\ \E t : Tells(t)
<1>1. /\ IsSeq(inbox) /\ IsSeq(inbox') /\ IsSeq(to_fc) /\ IsSeq(persist_q) /\ inbox # <<>> /\ inbox' = Tail(inbox)
      /\ UNCHANGED <<to_mcu, fc, cfg, cards, kwh, authorized>>
  BY TailIsRest DEF LinkShape, SafetyServe, IsRest
<1> DEFINE r == Head(inbox)
<1>2. \A q : Waits(inbox, q) => r = q \/ Waits(inbox', q)
  BY <1>1, WaitsMoves
<1>3. to_fc \o <<>> = to_fc
  BY <1>1, OneMore
<1>4. CASE r = "GET_RFID_CONFIG"
  <2> DEFINE t == <<RfidConfig(authorized)>>
  <2>1. to_fc' = to_fc \o t /\ persist_q' = persist_q /\ clean' = clean
    BY <1>4 DEF SafetyServe, Publish
  <2>2. RfidConfig(authorized).cmd = "RFID_CONFIG"
        /\ RfidConfig(authorized).arg = [require |-> cfg.require, authorized |-> authorized]
    BY DEF RfidConfig, Frame
  <2>3. IsSeq(t) /\ ~Has(t, {"GFCI_POLICY"}) /\ ~Has(t, {"RFID_LIST_END"}) /\ ~Has(t, {"LIFETIME_KWH"})
    BY <2>2, One, HasInOne
  <2>4. LastWord(t, "RFID_CONFIG", [require |-> cfg.require, authorized |-> authorized'], FALSE)
    BY <1>1, <2>2, LastWordOne
  <2> HIDE DEF t
  <2>5. Tells(t)
    BY <1>1, <1>2, <1>4, <2>1, <2>3, <2>4, QueueStays DEF Tells, RfidTold, PolicyTold
  <2> QED BY <2>1, <2>5
<1>5. CASE r = "GET_GFCI_POLICY"
  <2> DEFINE e == Frame("GFCI_POLICY", cfg.policy)  t == <<e>>
  <2>1. to_fc' = to_fc \o t /\ persist_q' = persist_q /\ clean' = clean
    BY <1>5 DEF SafetyServe, Publish
  <2>2. e.cmd = "GFCI_POLICY" /\ e.arg = cfg.policy
    BY DEF Frame
  <2> HIDE DEF e
  <2>3. IsSeq(t) /\ ~Has(t, {"RFID_CONFIG"}) /\ ~Has(t, {"RFID_LIST_END"}) /\ ~Has(t, {"LIFETIME_KWH"})
    BY <2>2, One, HasInOne
  <2>4. LastWord(t, "GFCI_POLICY", cfg.policy, FALSE)
    BY <2>2, LastWordOne
  <2> HIDE DEF t
  <2>5. Tells(t)
    BY <1>1, <1>2, <1>5, <2>1, <2>3, <2>4, QueueStays DEF Tells, RfidTold, PolicyTold
  <2> QED BY <2>1, <2>5
<1>6. ASSUME r # "GET_RFID_CONFIG", r # "GET_GFCI_POLICY",
             clean /\ \E t : Quiet(t) /\ to_fc' = to_fc \o t /\ QueueTold(t)
      PROVE  clean /\ \E t : Tells(t)
  BY <1>1, <1>2, <1>6, QuietTells
<1>7. CASE r # "GET_RFID_CONFIG" /\ r # "GET_GFCI_POLICY"
  <2>1. \/ \E mode : Transition(mode)
        \/ persist_q' = persist_q /\ clean' = clean /\ to_fc' = to_fc
        \/ persist_q' = persist_q /\ clean' = clean /\ to_fc' = to_fc \o <<Plain("FAULT_CLEARED")>>
    <3>1. CASE r = "CLEAR_FAULT" /\ evse.fault
      BY <1>7, <3>1 DEF SafetyServe, Publish
    <3>2. CASE r = "REQUEST_STOP" /\ evse.mode \in {"READY", "CHARGING"}
      <4>1. Transition("USER_PAUSED")
        BY <1>7, <3>2 DEF SafetyServe
      <4> QED BY <4>1
    <3>3. CASE r = "REQUEST_START_RESUME" /\ evse.mode = "USER_PAUSED"
      <4>1. Transition("READY")
        BY <1>7, <3>3 DEF SafetyServe
      <4> QED BY <4>1
    <3>4. CASE r = "SIMULATE_REPLUG" /\ evse.car /\ evse.mode \in {"READY", "CHARGING", "USER_PAUSED"}
      <4>1. Transition("USER_PAUSED") \/ (persist_q' = persist_q /\ clean' = clean /\ to_fc' = to_fc)
        BY <1>7, <3>4 DEF SafetyServe
      <4> QED BY <4>1
    <3>5. CASE /\ ~(r = "CLEAR_FAULT" /\ evse.fault) /\ ~(r = "REQUEST_STOP" /\ evse.mode \in {"READY", "CHARGING"})
               /\ ~(r = "REQUEST_START_RESUME" /\ evse.mode = "USER_PAUSED")
               /\ ~(r = "SIMULATE_REPLUG" /\ evse.car /\ evse.mode \in {"READY", "CHARGING", "USER_PAUSED"})
      BY <1>7, <3>5 DEF SafetyServe
    <3> QED BY <3>1, <3>2, <3>3, <3>4, <3>5
  <2>2. Quiet(<<>>) /\ Quiet(<<Plain("FAULT_CLEARED")>>)
    BY QuietOne, QuietNone DEF Plain, Frame, Words
  <2>3. clean /\ \E t : Quiet(t) /\ to_fc' = to_fc \o t /\ QueueTold(t)
    <3>1. persist_q' = persist_q => \A t : QueueTold(t)
      BY <1>1, QueueStays
    <3> QED BY <1>1, <1>3, <2>1, <2>2, <3>1, TransitionTells
  <2> QED BY <1>6, <1>7, <2>3
<1> QED BY <1>4, <1>5, <1>7

Events == VehicleCharges \/ Unplug \/ FaultRaised \/ LearnTimesOut \/ ReplugEnds

LEMMA EventTells == ASSUME LinkShape, Events, clean' PROVE clean /\ \E t : Tells(t)
<1> USE DEF Happens
<1>0. /\ IsSeq(to_fc) /\ IsSeq(inbox) /\ IsSeq(persist_q) /\ UNCHANGED <<to_mcu, fc, cfg, cards, kwh>>
      /\ authorized' = authorized /\ inbox' = inbox
  BY DEF LinkShape, Events, VehicleCharges, Unplug, FaultRaised, LearnTimesOut, ReplugEnds, queues
<1> DEFINE changed == <<Plain("STATE_CHANGED")>>
           ended == IF evse.mode = "CHARGING" THEN <<Plain("SESSION_ENDED")>> ELSE <<>>
           record == IF evse.mode = "CHARGING" THEN <<Plain("SESSION")>> ELSE <<>>
<1>1. Quiet(<<Plain("SESSION_ENDED")>>) /\ Quiet(changed) /\ Quiet(<<Plain("FAULT_RAISED")>>)
      /\ Quiet(<<Plain("SESSION_BEGAN")>>) /\ Quiet(<<>>)
  BY QuietOne, QuietNone DEF Plain, Frame, Words
<1>2. Quiet(ended)
  BY <1>1
\* The record of a session that ends is posted with the event.
<1>3. /\ IsSeq(record) /\ ~Has(record, CardChanges)
      /\ Has(record, {"SESSION"}) => Has(ended, {"SESSION_ENDED"})
  <2>1. Plain("SESSION").cmd \notin CardChanges /\ Plain("SESSION_ENDED").cmd = "SESSION_ENDED"
    BY DEF Plain, Frame, CardChanges
  <2> QED BY <2>1, One, EmptyIsSeq, HasInOne
<1>4. /\ <<Plain("STATE_CHANGED"), Plain("SESSION_BEGAN")>> = <<Plain("STATE_CHANGED")>> \o <<Plain("SESSION_BEGAN")>>
      /\ <<Plain("STATE_CHANGED"), Plain("STATE_CHANGED")>> = <<Plain("STATE_CHANGED")>> \o <<Plain("STATE_CHANGED")>>
  <2>1. <<Plain("STATE_CHANGED"), Plain("SESSION_BEGAN")>> = <<Plain("STATE_CHANGED")>> \o <<Plain("SESSION_BEGAN")>>
    BY One, OneMore
  <2>2. <<Plain("STATE_CHANGED"), Plain("STATE_CHANGED")>> = <<Plain("STATE_CHANGED")>> \o <<Plain("STATE_CHANGED")>>
    BY One, OneMore
  <2> QED BY <2>1, <2>2
<1>5. ASSUME NEW t, Quiet(t), to_fc' = to_fc \o t, clean, QueueTold(t) PROVE clean /\ \E s : Tells(s)
  BY <1>0, <1>5, QuietTells
<1>6. persist_q' = persist_q => \A t : QueueTold(t)
  BY <1>0, QueueStays
<1>7. CASE VehicleCharges
  <2>1. to_fc' = to_fc \o (changed \o <<Plain("SESSION_BEGAN")>>) /\ persist_q' = persist_q /\ clean' = clean
    BY <1>4, <1>7 DEF VehicleCharges, Publish, queues
  <2>2. Quiet(changed \o <<Plain("SESSION_BEGAN")>>)
    BY <1>1, QuietTwo
  <2> QED BY <1>5, <1>6, <2>1, <2>2
<1>8. CASE ReplugEnds
  <2>1. to_fc' = to_fc \o (changed \o <<Plain("STATE_CHANGED")>>) /\ persist_q' = persist_q /\ clean' = clean
    BY <1>4, <1>8 DEF ReplugEnds, Publish, queues
  <2>2. Quiet(changed \o <<Plain("STATE_CHANGED")>>)
    BY <1>1, QuietTwo
  <2> QED BY <1>5, <1>6, <2>1, <2>2
<1>9. CASE Unplug
  <2>1. to_fc' = to_fc \o (changed \o ended)
    BY <1>9 DEF Unplug, Publish
  <2>2. clean /\ persist_q' = persist_q \o record
    <3>1. CASE evse.mode = "CHARGING"
      <4>1. clean /\ persist_q' = Append(persist_q, Plain("SESSION"))
        BY <1>9, <3>1, Posted DEF Unplug
      <4> QED BY <1>0, <3>1, <4>1, OneMore
    <3>2. CASE evse.mode # "CHARGING"
      <4>1. clean /\ persist_q' = persist_q
        BY <1>9, <3>2 DEF Unplug
      <4> QED BY <1>0, <3>2, <4>1, OneMore
    <3> QED BY <3>1, <3>2
  <2> HIDE DEF changed, ended, record
  <2>3. Quiet(changed \o ended)
    BY <1>1, <1>2, QuietTwo
  <2>4. Has(record, {"SESSION"}) => Has(changed \o ended, {"SESSION_ENDED"})
    BY <1>1, <1>2, <1>3, HasInTwo DEF Quiet
  <2>5. QueueTold(changed \o ended)
    BY <1>3, <2>2, <2>4 DEF QueueTold
  <2> QED BY <1>5, <2>1, <2>2, <2>3, <2>5
<1>10. CASE FaultRaised
  <2> DEFINE raised == <<Plain("FAULT_RAISED")>>  event == <<Plain("EVENT")>>
  <2>1. to_fc' = to_fc \o (raised \o ended) /\ PostAll(event \o record)
    BY <1>10 DEF FaultRaised, Publish
  <2>2. Quiet(raised)
    BY <1>1
  <2>3. IsSeq(event) /\ ~Has(event, CardChanges) /\ ~Has(event, {"SESSION"})
    <3>1. Plain("EVENT").cmd = "EVENT" /\ "EVENT" \notin CardChanges
      BY DEF Plain, Frame, CardChanges
    <3> QED BY <3>1, One, HasInOne
  <2> HIDE DEF changed, ended, record, raised, event
  <2>4. clean /\ persist_q' = persist_q \o (event \o record)
    BY <2>1, PostedAll
  <2>5. /\ IsSeq(event \o record) /\ ~Has(event \o record, CardChanges)
        /\ Has(event \o record, {"SESSION"}) => Has(record, {"SESSION"})
    BY <1>3, <2>3, Joined, HasInTwo
  <2>6. Quiet(raised \o ended)
    BY <1>2, <2>2, QuietTwo
  <2>7. Has(record, {"SESSION"}) => Has(raised \o ended, {"SESSION_ENDED"})
    BY <1>2, <1>3, <2>2, HasInTwo DEF Quiet
  <2>8. QueueTold(raised \o ended)
    BY <2>4, <2>5, <2>7 DEF QueueTold
  <2> QED BY <1>5, <2>1, <2>4, <2>6, <2>8
<1>11. CASE LearnTimesOut
  <2>1. to_fc' = to_fc \o <<>> /\ persist_q' = persist_q /\ clean' = clean
    BY <1>0, <1>11, OneMore DEF LearnTimesOut, queues
  <2> QED BY <1>1, <1>5, <1>6, <2>1
<1> QED BY <1>7, <1>8, <1>9, <1>10, <1>11 DEF Events

\* The frame that tells who is authorized, at the end of others that do not.
LEMMA AuthTells ==
  ASSUME NEW a, authorized' = a, NEW t, IsSeq(t), to_fc' = to_fc \o t, UNCHANGED <<to_mcu, fc, cfg, cards, kwh>>,
         QueueTold(t), IsSeq(inbox'), \A w \in Words \ {"RFID_CONFIG"} : ~Has(t, {w}),
         LastWord(t, "RFID_CONFIG", RfidConfig(a).arg, FALSE),
         Waits(inbox, "GET_GFCI_POLICY") => Waits(inbox', "GET_GFCI_POLICY")
  PROVE  Tells(t)
BY DEF Words, Tells, RfidTold, PolicyTold, RfidConfig, Frame

LEMMA AuthEndTells == ASSUME LinkShape, UnpluggedEndsAuth, clean' PROVE clean /\ \E t : Tells(t)
<1> DEFINE t == <<RfidConfig(FALSE)>>
<1>1. /\ to_fc' = to_fc \o t /\ UNCHANGED <<to_mcu, fc, cfg, cards, kwh, clean>> /\ persist_q' = persist_q /\ inbox' = inbox
      /\ authorized' = FALSE /\ IsSeq(inbox')
  BY DEF UnpluggedEndsAuth, Publish, queues, LinkShape
<1>2. RfidConfig(FALSE).cmd = "RFID_CONFIG"
  BY DEF RfidConfig, Frame
<1>3. IsSeq(t) /\ LastWord(t, "RFID_CONFIG", RfidConfig(FALSE).arg, FALSE)
  BY <1>2, One, LastWordOne
<1>4. \A w \in Words \ {"RFID_CONFIG"} : ~Has(t, {w})
  BY <1>2, HasInOne
<1> HIDE DEF t
<1>5. Tells(t)
  BY <1>1, <1>3, <1>4, AuthTells, QueueStays DEF LinkShape
<1> QED BY <1>1, <1>5

\* Three frames at most; a card that is listed authorizes.
LEMMA SwipeTells == ASSUME LinkShape, NEW u, Swipe(u), clean' PROVE clean /\ \E t : Tells(t)
<1>0. IsSeq(to_fc) /\ IsSeq(inbox) /\ IsSeq(persist_q) /\ UNCHANGED <<to_mcu, fc, cfg, cards, kwh>>
  BY DEF LinkShape, Swipe, Happens
<1> DEFINE swipe == <<Plain("RFID_SWIPE")>>
           result(w) == <<Frame("RFID_AUTH_RESULT", w)>>
<1>1. Quiet(swipe) /\ \A w : Quiet(result(w))
  <2>1. Plain("RFID_SWIPE").cmd \notin Words /\ \A w : Frame("RFID_AUTH_RESULT", w).cmd \notin Words
    BY DEF Plain, Frame, Words
  <2> QED BY <2>1, QuietOne
<1>2. SaysLearned(result("learned"))
  BY LearnedInOne DEF Frame
<1>3. \A w : <<Plain("RFID_SWIPE"), Frame("RFID_AUTH_RESULT", w)>> = swipe \o result(w)
  BY One, OneMore
<1> HIDE DEF swipe, result
<1>4. \A w : Quiet(swipe \o result(w))
  BY <1>1, QuietTwo
<1>5. CASE LearnCard(u)
  <2> DEFINE w == IF Cardinality(cards) >= RFID_AUTHLIST_MAX THEN "list full" ELSE "learned"
  <2>1. to_fc' = to_fc \o (swipe \o result(w)) /\ authorized' = authorized /\ inbox' = inbox
    <3>1. /\ to_fc' = to_fc \o <<Plain("RFID_SWIPE"), Frame("RFID_AUTH_RESULT", w)>>
          /\ authorized' = authorized /\ inbox' = inbox
      BY <1>5 DEF LearnCard, Publish
    <3> HIDE DEF w
    <3> QED BY <1>3, <3>1
  <2>2. clean /\ QueueTold(swipe \o result(w))
    <3>1. CASE Cardinality(cards) >= RFID_AUTHLIST_MAX
      BY <1>0, <1>5, <3>1, QueueStays DEF LearnCard
    <3>2. CASE ~(Cardinality(cards) >= RFID_AUTHLIST_MAX)
      <4>1. clean /\ persist_q' = Append(persist_q, Frame("ADD", u))
        BY <1>5, <3>2, Posted DEF LearnCard
      <4>2. SaysLearned(swipe \o result(w))
        BY <1>1, <1>2, <3>2, LearnedInTwo DEF Quiet
      <4>3. Frame("ADD", u).cmd # "SESSION"
        BY DEF Frame
      <4> QED BY <1>0, <4>1, <4>2, <4>3, QueueGrows
    <3> QED BY <3>1, <3>2
  <2>3. Quiet(swipe \o result(w))
    BY <1>4
  <2> HIDE DEF w
  <2>4. Tells(swipe \o result(w))
    BY <1>0, <2>1, <2>2, <2>3, QuietTells
  <2> QED BY <2>2, <2>4
<1>6. CASE RejectedCard
  <2>1. to_fc' = to_fc \o (swipe \o result("rejected")) /\ authorized' = authorized /\ inbox' = inbox
        /\ persist_q' = persist_q /\ clean' = clean
    BY <1>3, <1>6 DEF RejectedCard, Publish, queues
  <2>2. Tells(swipe \o result("rejected"))
    BY <1>0, <1>4, <2>1, QuietTells, QueueStays
  <2> QED BY <2>1, <2>2
<1>7. CASE ListedCard
  <2>1. clean /\ persist_q' = persist_q /\ authorized' = TRUE /\ IsSeq(inbox')
        /\ \A r : Waits(inbox, r) => Waits(inbox', r)
    <3>1. (inbox' = inbox /\ clean' = clean) \/ \E r : PostSafety(r)
      <4>1. CASE evse.mode = "CHARGING"
        BY <1>7, <4>1 DEF ListedCard
      <4>2. CASE evse.mode = "USER_PAUSED"
        BY <1>7, <4>2 DEF ListedCard
      <4>3. CASE evse.mode # "CHARGING" /\ evse.mode # "USER_PAUSED"
        BY <1>7, <4>3 DEF ListedCard
      <4> QED BY <4>1, <4>2, <4>3
    <3>2. clean /\ IsSeq(inbox') /\ \A r : Waits(inbox, r) => Waits(inbox', r)
      <4>1. ASSUME NEW r, PostSafety(r) PROVE clean /\ inbox' = Append(inbox, r)
        BY <4>1, Posted
      <4>2. \A r, e : Waits(inbox, r) => Waits(Append(inbox, e), r)
        BY <1>0, WaitsMoves
      <4>3. \A e : IsSeq(Append(inbox, e))
        BY <1>0, Appended
      <4> QED BY <1>0, <3>1, <4>1, <4>2, <4>3
    <3> QED BY <1>7, <3>2 DEF ListedCard
  <2> DEFINE mid == IF authorized THEN <<>> ELSE <<RfidConfig(TRUE)>>
             t == (swipe \o mid) \o result("matched")
  <2>2. to_fc' = to_fc \o t
    BY <1>7 DEF ListedCard, Publish, swipe, result
  <2>3. CASE authorized
    <3>1. Quiet(t)
      BY <1>1, <2>3, QuietNone, QuietTwo
    <3>2. authorized' = authorized
      BY <2>1, <2>3
    <3> HIDE DEF t
    <3>3. Tells(t)
      BY <1>0, <2>1, <2>2, <3>1, <3>2, QuietTells, QueueStays
    <3> QED BY <2>1, <3>3
  <2>4. CASE ~authorized
    <3>1. RfidConfig(TRUE).cmd = "RFID_CONFIG"
      BY DEF RfidConfig, Frame
    <3>2. IsSeq(mid) /\ LastWord(mid, "RFID_CONFIG", RfidConfig(TRUE).arg, FALSE)
      BY <2>4, <3>1, One, LastWordOne
    <3>3. \A w \in Words \ {"RFID_CONFIG"} : ~Has(mid, {w})
      BY <2>4, <3>1, HasInOne
    <3> HIDE DEF mid
    <3>4. IsSeq(swipe) /\ IsSeq(result("matched")) /\ IsSeq(swipe \o mid) /\ ~Has(result("matched"), {"RFID_CONFIG"})
      BY <1>1, <3>2, Joined DEF Quiet, Words
    <3>5. LastWord(swipe \o mid, "RFID_CONFIG", RfidConfig(TRUE).arg, FALSE)
      BY <3>2, <3>4, LastWordNew
    <3>6. IsSeq(t) /\ LastWord(t, "RFID_CONFIG", RfidConfig(TRUE).arg, FALSE)
      BY <3>4, <3>5, LastWordStays, Joined
    <3>7. \A w \in Words \ {"RFID_CONFIG"} : ~Has(t, {w})
      BY <1>1, <3>2, <3>3, <3>4, HasInTwo DEF Quiet
    <3> HIDE DEF t
    <3>8. Tells(t)
      BY <1>0, <2>1, <2>2, <3>6, <3>7, AuthTells, QueueStays
    <3> QED BY <2>1, <3>8
  <2> QED BY <2>3, <2>4
<1> QED BY <1>5, <1>6, <1>7 DEF Swipe

-----------------------------------------------------------------------------
(* comms_task: a request moves from the line to a queue, or is answered.    *)

LEMMA CommsMoves ==
  ASSUME LinkShape, CommsDispatch, clean', NEW f, f = Head(to_mcu)
  PROVE  /\ clean /\ to_mcu # <<>> /\ to_mcu' = Tail(to_mcu) /\ UNCHANGED <<fc, cfg, cards, authorized, kwh>>
         /\ \E t : Quiet(t) /\ to_fc' = to_fc \o t
         /\ inbox' = inbox \/ \E r : inbox' = Append(inbox, r)
         /\ f.cmd \in ToSafety => inbox' = Append(inbox, f.cmd)
         /\ f.cmd \in ToPersist => persist_q' = Append(persist_q, f)
         /\ \/ persist_q' = persist_q
            \/ persist_q' = Append(persist_q, f) /\ f.cmd \in ToPersist
            \/ \E x : persist_q' = Append(persist_q, x) /\ x.cmd \in {"SET_ADVERTISED_AMPS", "WRITE_CALIBRATION"}
<1>0. IsSeq(to_fc) /\ to_mcu # <<>> /\ to_mcu' = Tail(to_mcu) /\ fc' = fc
  BY DEF LinkShape, CommsDispatch
<1>1. to_fc \o <<>> = to_fc /\ Quiet(<<>>)
  BY <1>0, OneMore, QuietNone
<1> USE DEF charger, queues
<1>2. CASE handle_reply(f)
  <2>1. /\ f.cmd \in Replies /\ to_fc' = to_fc \o <<Reply(f)>>
        /\ UNCHANGED <<cfg, cards, authorized, kwh, inbox, persist_q, clean>>
    BY <1>2 DEF handle_reply, Publish
  <2>2. Reply(f).cmd \notin Words
    BY <2>1 DEF Replies, Reply, Plain, Frame, Words
  <2>3. Quiet(<<Reply(f)>>)
    BY <2>2, QuietOne
  <2>4. f.cmd \notin ToSafety /\ f.cmd \notin ToPersist
    BY <2>1 DEF Replies, ToSafety, ToPersist
  <2> QED BY <1>0, <2>1, <2>3, <2>4
<1>3. CASE handle_to_safety(f)
  <2>1. clean /\ inbox' = Append(inbox, f.cmd) /\ f.cmd \in ToSafety /\ UNCHANGED <<charger, persist_q, to_fc>>
    BY <1>3, Posted DEF handle_to_safety
  <2>2. f.cmd \notin ToPersist
    BY <2>1 DEF ToSafety, ToPersist
  <2> QED BY <1>0, <1>1, <2>1, <2>2
<1>4. CASE handle_to_persist(f)
  <2>1. clean /\ persist_q' = Append(persist_q, f) /\ f.cmd \in ToPersist /\ UNCHANGED <<charger, inbox, to_fc>>
    BY <1>4, Posted DEF handle_to_persist
  <2>2. f.cmd \notin ToSafety
    BY <2>1 DEF ToSafety, ToPersist
  <2> QED BY <1>0, <1>1, <2>1, <2>2
<1>5. ASSUME handle_set_advertised_amps(f) \/ handle_write_calibration(f)
      PROVE  /\ clean /\ f.cmd \notin ToSafety /\ f.cmd \notin ToPersist /\ UNCHANGED <<charger, inbox, to_fc>>
             /\ \/ persist_q' = persist_q
                \/ \E x : persist_q' = Append(persist_q, x) /\ x.cmd \in {"SET_ADVERTISED_AMPS", "WRITE_CALIBRATION"}
  <2>1. CASE handle_set_advertised_amps(f)
    <3>1. f.cmd \notin ToSafety /\ f.cmd \notin ToPersist /\ UNCHANGED <<charger, inbox, to_fc>>
      BY <2>1 DEF handle_set_advertised_amps, ToSafety, ToPersist
    <3>2. \/ persist_q' = persist_q /\ clean' = clean
          \/ \E a : PostPersist(Frame("SET_ADVERTISED_AMPS", a))
      BY <2>1 DEF handle_set_advertised_amps
    <3>3. ASSUME NEW a, PostPersist(Frame("SET_ADVERTISED_AMPS", a))
          PROVE  /\ clean /\ persist_q' = Append(persist_q, Frame("SET_ADVERTISED_AMPS", a))
                 /\ Frame("SET_ADVERTISED_AMPS", a).cmd = "SET_ADVERTISED_AMPS"
      BY <3>3, Posted DEF Frame
    <3> QED BY <3>1, <3>2, <3>3
  <2>2. CASE handle_write_calibration(f)
    <3>1. /\ f.cmd = "WRITE_CALIBRATION" /\ UNCHANGED <<charger, inbox, to_fc>>
          /\ (persist_q' = persist_q /\ clean' = clean) \/ PostPersist(f)
      BY <2>2 DEF handle_write_calibration
    <3>2. f.cmd \notin ToSafety /\ f.cmd \notin ToPersist
      BY <3>1 DEF ToSafety, ToPersist
    <3> QED BY <3>1, <3>2, Posted
  <2> QED BY <1>5, <2>1, <2>2
<1>6. CASE handle_set_advertised_amps(f) \/ handle_write_calibration(f)
  <2>1. UNCHANGED <<cfg, cards, authorized, kwh, inbox, to_fc>>
    BY <1>5, <1>6
  <2> QED BY <1>0, <1>1, <1>5, <1>6, <2>1
<1>7. CASE handle_panel(f)
  <2>1. f.cmd \notin ToSafety /\ f.cmd \notin ToPersist
    BY <1>7 DEF handle_panel, ToSafety, ToPersist
  <2> QED BY <1>0, <1>1, <1>7, <2>1 DEF handle_panel
<1>8. CASE handle_restart(f)
  BY <1>8 DEF handle_restart, Restart
<1> QED BY <1>2, <1>3, <1>4, <1>6, <1>7, <1>8 DEF CommsDispatch

LEMMA CommsKeeps == ASSUME LinkShape, Known, CommsDispatch, clean' PROVE clean /\ LinkShape' /\ Known'
<1> DEFINE f == Head(to_mcu)
<1>0. IsSeq(to_mcu) /\ IsSeq(to_fc) /\ IsSeq(persist_q) /\ IsSeq(inbox)
  BY DEF LinkShape
<1>1. /\ clean /\ to_mcu # <<>> /\ to_mcu' = Tail(to_mcu) /\ UNCHANGED <<fc, cfg, cards, authorized, kwh>>
      /\ \E t : Quiet(t) /\ to_fc' = to_fc \o t
      /\ inbox' = inbox \/ \E r : inbox' = Append(inbox, r)
      /\ f.cmd \in ToSafety => inbox' = Append(inbox, f.cmd)
      /\ f.cmd \in ToPersist => persist_q' = Append(persist_q, f)
      /\ \/ persist_q' = persist_q
         \/ persist_q' = Append(persist_q, f) /\ f.cmd \in ToPersist
         \/ \E x : persist_q' = Append(persist_q, x) /\ x.cmd \in {"SET_ADVERTISED_AMPS", "WRITE_CALIBRATION"}
  BY CommsMoves
<1>2. \A C : Has(to_mcu, C) => f.cmd \in C \/ Has(to_mcu', C)
  BY <1>0, <1>1, HasInTail
<1> HIDE DEF f
<1>3. PICK t : Quiet(t) /\ to_fc' = to_fc \o t
  BY <1>1
<1>4. IsSeq(t) /\ \A w \in Words : ~Has(t, {w})
  BY <1>3 DEF Quiet
<1>5. \A C, x : Has(Append(persist_q, x), C) <=> Has(persist_q, C) \/ x.cmd \in C
  BY <1>0, HasInMore
<1>6. \A C : Has(persist_q, C) => Has(persist_q', C)
  BY <1>1, <1>5
<1>7. \A C : f.cmd \in ToPersist /\ f.cmd \in C => Has(persist_q', C)
  BY <1>1, <1>5
<1>8. \A r, e : Waits(Append(inbox, e), r) <=> Waits(inbox, r) \/ e = r
  BY <1>0, WaitsMoves
<1>9. \A r : Waits(inbox, r) \/ (f.cmd = r /\ r \in ToSafety) => Waits(inbox', r)
  <2>1. (inbox' = inbox \/ \E e : inbox' = Append(inbox, e)) /\ (f.cmd \in ToSafety => inbox' = Append(inbox, f.cmd))
    BY <1>1
  <2>2. ASSUME NEW r, NEW e, inbox' = Append(inbox, e) PROVE Waits(inbox', r) <=> Waits(inbox, r) \/ e = r
    <3>1. Waits(Append(inbox, e), r) <=> Waits(inbox, r) \/ e = r
      BY <1>8
    <3> QED BY <2>2, <3>1
  <2> QED BY <2>1, <2>2
<1>10. \A w \in Words : \A v, b : LastWord(to_fc, w, v, b) => LastWord(to_fc', w, v, b)
  BY <1>0, <1>3, <1>4, LastWordStays
<1>11. LinkShape'
  <2>1. IsSeq(Tail(to_mcu)) /\ IsSeq(to_fc \o t)
    BY <1>0, <1>1, <1>4, TailIsRest, Joined DEF IsRest
  <2>2. \A e : IsSeq(Append(persist_q, e)) /\ IsSeq(Append(inbox, e))
    BY <1>0, Appended
  <2>3. IsSeq(persist_q') /\ IsSeq(inbox')
    BY <1>0, <1>1, <2>2
  <2> QED BY <1>1, <1>3, <2>1, <2>3 DEF LinkShape
<1>12. RfidKnown'
  <2>1. CASE RfidAsked
    <3>1. "SET_REQUIRE_RFID_AUTH" \in ToPersist /\ "GET_RFID_CONFIG" \in ToSafety
      BY DEF ToPersist, ToSafety
    <3>2. CASE Has(to_mcu, {"GET_RFID_CONFIG", "SET_REQUIRE_RFID_AUTH"})
      BY <1>2, <1>7, <1>9, <3>1, <3>2 DEF RfidKnown, RfidAsked
    <3> QED BY <1>6, <1>9, <2>1, <3>2 DEF RfidKnown, RfidAsked
  <2>2. CASE LastWord(to_fc, "RFID_CONFIG", [require |-> cfg.require, authorized |-> authorized], RfidShown)
    <3>1. RfidShown' = RfidShown
      BY <1>1 DEF RfidShown
    <3> QED BY <1>1, <1>10, <2>2, <3>1 DEF RfidKnown, Words
  <2> QED BY <2>1, <2>2 DEF Known, RfidKnown
<1>13. PolicyKnown'
  <2>1. CASE PolicyAsked
    <3>1. "SET_GFCI_POLICY" \in ToPersist /\ "GET_GFCI_POLICY" \in ToSafety
      BY DEF ToPersist, ToSafety
    <3>2. CASE Has(to_mcu, {"GET_GFCI_POLICY", "SET_GFCI_POLICY"})
      BY <1>2, <1>7, <1>9, <3>1, <3>2 DEF PolicyKnown, PolicyAsked
    <3> QED BY <1>6, <1>9, <2>1, <3>2 DEF PolicyKnown, PolicyAsked
  <2>2. CASE LastWord(to_fc, "GFCI_POLICY", cfg.policy, PolicyShown)
    <3>1. PolicyShown' = PolicyShown
      BY <1>1 DEF PolicyShown
    <3> QED BY <1>1, <1>10, <2>2, <3>1 DEF PolicyKnown, Words
  <2> QED BY <2>1, <2>2 DEF Known, PolicyKnown
<1>14. ListKnown'
  <2>1. Followed(to_mcu', CardChanges, "RFID_GET_LIST") /\ (f.cmd \in CardChanges => Has(to_mcu', {"RFID_GET_LIST"}))
    BY <1>0, <1>1, FollowedInTail DEF Known, ListKnown, f
  <2>2. SaysLearned(to_fc) => SaysLearned(to_fc')
    BY <1>0, <1>3, <1>4, LearnedInTwo
  <2>3. CASE f.cmd = "RFID_GET_LIST"
    <3>1. persist_q' = Append(persist_q, f) /\ Has(persist_q', {"RFID_GET_LIST"})
      BY <1>1, <1>7, <2>3 DEF ToPersist
    <3>2. Followed(persist_q', CardChanges, "RFID_GET_LIST")
      BY <1>0, <2>3, <3>1, FollowedByLast DEF CardChanges
    <3> QED BY <2>1, <3>1, <3>2 DEF ListKnown
  <2>4. CASE f.cmd \in CardChanges
    BY <2>1, <2>4 DEF ListKnown, ListComes
  <2>5. CASE f.cmd # "RFID_GET_LIST" /\ f.cmd \notin CardChanges
    <3>1. ListComes => ListComes'
      BY <1>2, <2>2, <2>5 DEF ListComes
    <3>2. Followed(persist_q, CardChanges, "RFID_GET_LIST") => Followed(persist_q', CardChanges, "RFID_GET_LIST")
      <4>1. ASSUME NEW x, persist_q' = Append(persist_q, x), x.cmd \notin CardChanges,
                   Followed(persist_q, CardChanges, "RFID_GET_LIST")
            PROVE  Followed(persist_q', CardChanges, "RFID_GET_LIST")
        BY <1>0, <4>1, FollowedInMore
      <4>2. {"SET_ADVERTISED_AMPS", "WRITE_CALIBRATION"} \cap CardChanges = {}
        BY DEF CardChanges
      <4> QED BY <1>1, <2>5, <4>1, <4>2
    <3>3. LastWord(to_fc, "RFID_LIST_END", Cardinality(cards), fc.count = Cardinality(cards))
             => LastWord(to_fc', "RFID_LIST_END", Cardinality(cards), fc.count = Cardinality(cards))
      BY <1>10 DEF Words
    <3> QED BY <1>1, <1>6, <2>1, <3>1, <3>2, <3>3 DEF Known, ListKnown
  <2> QED BY <2>3, <2>4, <2>5
<1>15. TotalKnown'
  <2>2. Has(to_fc, {"SESSION_ENDED"}) => Has(to_fc', {"SESSION_ENDED"})
    BY <1>0, <1>3, <1>4, HasInTwo
  <2>3. CASE f.cmd = "GET_LIFETIME_KWH"
    <3>1. persist_q' = Append(persist_q, f) /\ Has(persist_q', {"GET_LIFETIME_KWH"})
      BY <1>1, <1>7, <2>3 DEF ToPersist
    <3>2. Followed(persist_q', {"SESSION"}, "GET_LIFETIME_KWH")
      BY <1>0, <2>3, <3>1, FollowedByLast
    <3> QED BY <3>1, <3>2 DEF TotalKnown
  <2>4. CASE f.cmd # "GET_LIFETIME_KWH"
    <3>1. TotalComes => TotalComes'
      BY <1>2, <2>2, <2>4 DEF TotalComes
    <3>2. Followed(persist_q, {"SESSION"}, "GET_LIFETIME_KWH") => Followed(persist_q', {"SESSION"}, "GET_LIFETIME_KWH")
      <4>1. ASSUME NEW x, persist_q' = Append(persist_q, x), x.cmd \notin {"SESSION"},
                   Followed(persist_q, {"SESSION"}, "GET_LIFETIME_KWH")
            PROVE  Followed(persist_q', {"SESSION"}, "GET_LIFETIME_KWH")
        BY <1>0, <4>1, FollowedInMore
      <4>2. f.cmd \in ToPersist => f.cmd \notin {"SESSION"}
        BY DEF ToPersist
      <4> QED BY <1>1, <4>1, <4>2
    <3>3. LastWord(to_fc, "LIFETIME_KWH", kwh, fc.lifetime = kwh) => LastWord(to_fc', "LIFETIME_KWH", kwh, fc.lifetime = kwh)
      BY <1>10 DEF Words
    <3> QED BY <1>1, <1>6, <3>1, <3>2, <3>3 DEF Known, TotalKnown
  <2> QED BY <2>3, <2>4
<1> QED BY <1>1, <1>11, <1>12, <1>13, <1>14, <1>15 DEF Known

-----------------------------------------------------------------------------
(* persist_task: a setting stored, a list or a log changed or read.         *)

LEMMA SettingKeeps == ASSUME LinkShape, Known, PersistSetting, clean' PROVE clean /\ LinkShape' /\ Known'
<1> DEFINE r == Head(persist_q)
           field == CASE r.cmd = "SET_ADVERTISED_AMPS" -> "amps" [] r.cmd = "SET_REQUIRE_RFID_AUTH" -> "require"
                      [] r.cmd = "SET_GFCI_POLICY" -> "policy" [] OTHER -> "none"
           asked == CASE field = "require" -> "GET_RFID_CONFIG" [] field = "policy" -> "GET_GFCI_POLICY" [] OTHER -> "none"
<1>0. /\ IsSeq(persist_q) /\ IsSeq(inbox) /\ persist_q # <<>> /\ persist_q' = Tail(persist_q)
      /\ UNCHANGED <<to_mcu, fc, cards, authorized, kwh, to_fc>>
  BY DEF LinkShape, PersistSetting, PersistServed
<1>1. /\ field # "none" /\ cfg' = [cfg EXCEPT ![field] = r.arg]
      /\ IF field = "amps" THEN UNCHANGED <<inbox, clean>> ELSE PostSafety(asked)
  BY DEF PersistSetting
<1>2. \/ r.cmd = "SET_ADVERTISED_AMPS" /\ field = "amps"
      \/ r.cmd = "SET_REQUIRE_RFID_AUTH" /\ field = "require" /\ asked = "GET_RFID_CONFIG"
      \/ r.cmd = "SET_GFCI_POLICY" /\ field = "policy" /\ asked = "GET_GFCI_POLICY"
  <2>1. CASE r.cmd = "SET_ADVERTISED_AMPS"
    BY <2>1
  <2>2. CASE r.cmd = "SET_REQUIRE_RFID_AUTH"
    <3>1. field = "require"
      BY <2>2
    <3>2. asked = "GET_RFID_CONFIG"
      BY <3>1
    <3> QED BY <2>2, <3>1, <3>2
  <2>3. CASE r.cmd = "SET_GFCI_POLICY"
    <3>1. field = "policy"
      BY <2>3
    <3>2. asked = "GET_GFCI_POLICY"
      BY <3>1
    <3> QED BY <2>3, <3>1, <3>2
  <2>4. CASE r.cmd \notin {"SET_ADVERTISED_AMPS", "SET_REQUIRE_RFID_AUTH", "SET_GFCI_POLICY"}
    BY <1>1, <2>4
  <2> QED BY <2>1, <2>2, <2>3, <2>4
<1> HIDE DEF r, field, asked
<1>3. clean /\ (inbox' = inbox \/ inbox' = Append(inbox, asked)) /\ (field # "amps" => inbox' = Append(inbox, asked))
  BY <1>1, Posted
<1>4. \A q : Waits(Append(inbox, asked), q) <=> Waits(inbox, q) \/ asked = q
  BY <1>0, WaitsMoves
<1>5. \A q : Waits(inbox, q) => Waits(inbox', q)
  BY <1>3, <1>4
<1>6. \A C : Has(persist_q, C) => r.cmd \in C \/ Has(persist_q', C)
  BY <1>0, HasInTail DEF r
<1>7. LinkShape'
  <2>1. IsSeq(Tail(persist_q)) /\ IsSeq(Append(inbox, asked))
    BY <1>0, TailIsRest, Appended DEF IsRest
  <2>2. DOMAIN cfg' = DOMAIN cfg
    BY <1>1
  <2> QED BY <1>0, <1>3, <2>1, <2>2 DEF LinkShape
<1>8. RfidKnown'
  <2>1. CASE field = "require"
    BY <1>2, <1>3, <1>4, <2>1 DEF RfidKnown, RfidAsked
  <2>2. CASE field # "require"
    <3>1. cfg'.require = cfg.require /\ r.cmd # "SET_REQUIRE_RFID_AUTH"
      BY <1>1, <1>2, <2>2 DEF LinkShape
    <3>2. RfidAsked => RfidAsked'
      BY <1>0, <1>5, <1>6, <3>1 DEF RfidAsked
    <3>3. RfidShown' = RfidShown
      BY <1>0, <3>1 DEF RfidShown
    <3> QED BY <1>0, <3>1, <3>2, <3>3 DEF Known, RfidKnown
  <2> QED BY <2>1, <2>2
<1>9. PolicyKnown'
  <2>1. CASE field = "policy"
    BY <1>2, <1>3, <1>4, <2>1 DEF PolicyKnown, PolicyAsked
  <2>2. CASE field # "policy"
    <3>1. cfg'.policy = cfg.policy /\ r.cmd # "SET_GFCI_POLICY"
      BY <1>1, <1>2, <2>2 DEF LinkShape
    <3>2. PolicyAsked => PolicyAsked'
      BY <1>0, <1>5, <1>6, <3>1 DEF PolicyAsked
    <3>3. PolicyShown' = PolicyShown
      BY <1>0, <3>1 DEF PolicyShown
    <3> QED BY <1>0, <3>1, <3>2, <3>3 DEF Known, PolicyKnown
  <2> QED BY <2>1, <2>2
<1>10. /\ Has(persist_q, {"RFID_GET_LIST"}) => Has(persist_q', {"RFID_GET_LIST"})
       /\ Has(persist_q, {"GET_LIFETIME_KWH"}) => Has(persist_q', {"GET_LIFETIME_KWH"})
  BY <1>2, <1>6
<1>11. \A those, ask : Followed(persist_q, those, ask) => Followed(persist_q', those, ask)
  BY <1>0, FollowedInTail
<1>12. ListKnown'
  BY <1>0, <1>10, <1>11 DEF Known, ListKnown, ListComes
<1>13. TotalKnown'
  BY <1>0, <1>10, <1>11 DEF Known, TotalKnown, TotalComes
<1> QED BY <1>3, <1>7, <1>8, <1>9, <1>12, <1>13 DEF Known

LEMMA RecordKeeps == ASSUME LinkShape, Known, PersistRecord, clean' PROVE clean /\ LinkShape' /\ Known'
<1> DEFINE r == Head(persist_q)
<1>0. /\ IsSeq(persist_q) /\ IsSeq(to_fc) /\ persist_q # <<>> /\ persist_q' = Tail(persist_q)
      /\ UNCHANGED <<to_mcu, fc, cfg, authorized, inbox, clean>>
  BY DEF LinkShape, PersistRecord, PersistServed
<1>1. /\ r.cmd \notin {"SET_ADVERTISED_AMPS", "SET_REQUIRE_RFID_AUTH", "SET_GFCI_POLICY"}
      /\ r.cmd \notin CardChanges => cards' = cards
      /\ r.cmd # "SESSION" => kwh' = kwh
  BY DEF PersistRecord, CardChanges
<1>2. PICK t : /\ to_fc' = to_fc \o t /\ IsSeq(t) /\ ~Has(t, {"RFID_CONFIG"}) /\ ~Has(t, {"GFCI_POLICY"})
               /\ IF r.cmd = "GET_LIFETIME_KWH" THEN LastWord(t, "LIFETIME_KWH", kwh, FALSE) ELSE ~Has(t, {"LIFETIME_KWH"})
               /\ IF r.cmd = "RFID_GET_LIST" THEN LastWord(t, "RFID_LIST_END", Cardinality(cards), FALSE)
                                             ELSE ~Has(t, {"RFID_LIST_END"})
  <2>1. CASE r.cmd = "GET_LIFETIME_KWH"
    <3>1. to_fc' = to_fc \o <<Frame("LIFETIME_KWH", kwh)>>
      BY <2>1 DEF PersistRecord, Publish
    <3>2. Frame("LIFETIME_KWH", kwh).cmd = "LIFETIME_KWH" /\ Frame("LIFETIME_KWH", kwh).arg = kwh
      BY DEF Frame
    <3> DEFINE s == <<Frame("LIFETIME_KWH", kwh)>>
    <3>3. LastWord(s, "LIFETIME_KWH", kwh, FALSE)
      BY <3>2, LastWordOne
    <3>4. IsSeq(s) /\ ~Has(s, {"RFID_CONFIG"}) /\ ~Has(s, {"GFCI_POLICY"}) /\ ~Has(s, {"RFID_LIST_END"})
      BY <3>2, One, HasInOne
    <3> HIDE DEF s
    <3> QED BY <2>1, <3>1, <3>3, <3>4 DEF s
  <2>2. CASE r.cmd = "RFID_GET_LIST"
    <3> DEFINE e == Frame("RFID_LIST_END", Cardinality(cards))
    <3>1. to_fc' = to_fc \o <<e>>
      BY <2>2 DEF PersistRecord, Publish
    <3>2. e.cmd = "RFID_LIST_END" /\ e.arg = Cardinality(cards)
      BY DEF Frame
    <3> HIDE DEF e
    <3>3. LastWord(<<e>>, "RFID_LIST_END", Cardinality(cards), FALSE)
      BY <3>2, LastWordOne
    <3>4. IsSeq(<<e>>) /\ ~Has(<<e>>, {"RFID_CONFIG"}) /\ ~Has(<<e>>, {"GFCI_POLICY"}) /\ ~Has(<<e>>, {"LIFETIME_KWH"})
      BY <3>2, One, HasInOne
    <3> QED BY <2>2, <3>1, <3>3, <3>4
  <2>3. CASE r.cmd # "GET_LIFETIME_KWH" /\ r.cmd # "RFID_GET_LIST"
    <3>1. to_fc' = to_fc \o <<Plain("FAULT_LOG_END")>> \/ to_fc' = to_fc \o <<>>
      BY <2>3 DEF PersistRecord, Publish
    <3>2. Quiet(<<Plain("FAULT_LOG_END")>>) /\ Quiet(<<>>)
      BY QuietOne, QuietNone DEF Plain, Frame, Words
    <3> QED BY <2>3, <3>1, <3>2 DEF Quiet, Words
  <2> QED BY <2>1, <2>2, <2>3
<1> HIDE DEF r
<1>3. \A C : Has(persist_q, C) => r.cmd \in C \/ Has(persist_q', C)
  BY <1>0, HasInTail DEF r
<1>4. LinkShape'
  <2>1. IsSeq(Tail(persist_q)) /\ IsSeq(to_fc \o t)
    BY <1>0, <1>2, TailIsRest, Joined DEF IsRest
  <2> QED BY <1>0, <1>2, <2>1 DEF LinkShape
<1>5. RfidKnown'
  <2>1. RfidAsked => RfidAsked'
    BY <1>0, <1>1, <1>3 DEF RfidAsked
  <2>2. RfidShown' = RfidShown
    BY <1>0 DEF RfidShown
  <2>3. \A v, b : LastWord(to_fc, "RFID_CONFIG", v, b) => LastWord(to_fc', "RFID_CONFIG", v, b)
    BY <1>0, <1>2, LastWordStays
  <2> QED BY <1>0, <2>1, <2>2, <2>3 DEF Known, RfidKnown
<1>6. PolicyKnown'
  <2>1. PolicyAsked => PolicyAsked'
    BY <1>0, <1>1, <1>3 DEF PolicyAsked
  <2>2. PolicyShown' = PolicyShown
    BY <1>0 DEF PolicyShown
  <2>3. \A v, b : LastWord(to_fc, "GFCI_POLICY", v, b) => LastWord(to_fc', "GFCI_POLICY", v, b)
    BY <1>0, <1>2, LastWordStays
  <2> QED BY <1>0, <2>1, <2>2, <2>3 DEF Known, PolicyKnown
<1>7. ListKnown'
  <2>1. ListComes => ListComes'
    BY <1>0, <1>2, LearnedInTwo DEF ListComes
  <2>2. /\ Followed(persist_q, CardChanges, "RFID_GET_LIST") => Followed(persist_q', CardChanges, "RFID_GET_LIST")
        /\ Followed(persist_q, CardChanges, "RFID_GET_LIST") /\ r.cmd \in CardChanges => Has(persist_q', {"RFID_GET_LIST"})
    BY <1>0, FollowedInTail DEF r
  <2>3. \/ ListComes' \/ Has(persist_q', {"RFID_GET_LIST"})
        \/ LastWord(to_fc', "RFID_LIST_END", Cardinality(cards)', (fc.count = Cardinality(cards))')
    <3>1. CASE r.cmd \in CardChanges
      BY <2>1, <2>2, <3>1 DEF Known, ListKnown
    <3>2. CASE r.cmd = "RFID_GET_LIST"
      <4>1. cards' = cards
        BY <1>1, <3>2 DEF CardChanges
      <4>2. LastWord(to_fc \o t, "RFID_LIST_END", Cardinality(cards), fc.count = Cardinality(cards))
        BY <1>0, <1>2, <3>2, LastWordNew
      <4> QED BY <1>0, <1>2, <4>1, <4>2
    <3>3. CASE r.cmd \notin CardChanges /\ r.cmd # "RFID_GET_LIST"
      <4>1. cards' = cards /\ ~Has(t, {"RFID_LIST_END"})
        BY <1>1, <1>2, <3>3
      <4>2. LastWord(to_fc, "RFID_LIST_END", Cardinality(cards), fc.count = Cardinality(cards))
              => LastWord(to_fc', "RFID_LIST_END", Cardinality(cards), fc.count = Cardinality(cards))
        BY <1>0, <1>2, <4>1, LastWordStays
      <4>3. Has(persist_q, {"RFID_GET_LIST"}) => Has(persist_q', {"RFID_GET_LIST"})
        BY <1>3, <3>3
      <4> QED BY <1>0, <2>1, <4>1, <4>2, <4>3 DEF Known, ListKnown
    <3> QED BY <3>1, <3>2, <3>3
  <2> QED BY <1>0, <2>1, <2>2, <2>3 DEF Known, ListKnown
<1>8. TotalKnown'
  <2>1. TotalComes => TotalComes'
    BY <1>0, <1>2, HasInTwo DEF TotalComes
  <2>2. /\ Followed(persist_q, {"SESSION"}, "GET_LIFETIME_KWH") => Followed(persist_q', {"SESSION"}, "GET_LIFETIME_KWH")
        /\ Followed(persist_q, {"SESSION"}, "GET_LIFETIME_KWH") /\ r.cmd = "SESSION" => Has(persist_q', {"GET_LIFETIME_KWH"})
    BY <1>0, FollowedInTail DEF r
  <2>3. \/ TotalComes' \/ Has(persist_q', {"GET_LIFETIME_KWH"})
        \/ LastWord(to_fc', "LIFETIME_KWH", kwh', (fc.lifetime = kwh)')
    <3>1. CASE r.cmd = "SESSION"
      BY <2>1, <2>2, <3>1 DEF Known, TotalKnown
    <3>2. CASE r.cmd = "GET_LIFETIME_KWH"
      <4>1. kwh' = kwh
        BY <1>1, <3>2
      <4>2. LastWord(to_fc \o t, "LIFETIME_KWH", kwh, fc.lifetime = kwh)
        BY <1>0, <1>2, <3>2, LastWordNew
      <4> QED BY <1>0, <1>2, <4>1, <4>2
    <3>3. CASE r.cmd # "SESSION" /\ r.cmd # "GET_LIFETIME_KWH"
      <4>1. kwh' = kwh /\ ~Has(t, {"LIFETIME_KWH"})
        BY <1>1, <1>2, <3>3
      <4>2. LastWord(to_fc, "LIFETIME_KWH", kwh, fc.lifetime = kwh) => LastWord(to_fc', "LIFETIME_KWH", kwh, fc.lifetime = kwh)
        BY <1>0, <1>2, <4>1, LastWordStays
      <4>3. Has(persist_q, {"GET_LIFETIME_KWH"}) => Has(persist_q', {"GET_LIFETIME_KWH"})
        BY <1>3, <3>3
      <4> QED BY <1>0, <2>1, <4>1, <4>2, <4>3 DEF Known, TotalKnown
    <3> QED BY <3>1, <3>2, <3>3
  <2> QED BY <2>1, <2>2, <2>3 DEF Known, TotalKnown
<1> QED BY <1>0, <1>4, <1>5, <1>6, <1>7, <1>8 DEF Known

-----------------------------------------------------------------------------
(* The module: a frame changes the mirror and may make it ask.              *)

RfidMirror == <<fc.require, fc.switch, fc.authorized>>
PolicyMirror == <<fc.policy, fc.select>>

LEMMA MirrorSays ==
  ASSUME LinkShape, NEW f, fc' = Mirror(f)
  PROVE  /\ DOMAIN fc' = DOMAIN fc
         /\ IF f.cmd = "RFID_CONFIG"
            THEN fc'.require = f.arg.require /\ fc'.switch = f.arg.require /\ fc'.authorized = f.arg.authorized
            ELSE RfidMirror' = RfidMirror
         /\ IF f.cmd = "GFCI_POLICY" THEN fc'.policy = f.arg /\ fc'.select = f.arg ELSE PolicyMirror' = PolicyMirror
         /\ fc'.count = IF f.cmd = "RFID_LIST_END" THEN f.arg ELSE fc.count
         /\ fc'.lifetime = IF f.cmd = "LIFETIME_KWH" THEN f.arg ELSE fc.lifetime
<1> DEFINE m == IF f.cmd \in Alive THEN [fc EXCEPT !.age = 0] ELSE fc
<1>0. DOMAIN fc = {"mac", "build", "report", "age", "lifetime", "count", "require", "authorized", "policy", "clock",
                   "present", "number", "switch", "select"}
  BY DEF LinkShape, FcReset
<1>1. /\ DOMAIN m = DOMAIN fc /\ m.require = fc.require /\ m.switch = fc.switch /\ m.authorized = fc.authorized
      /\ m.policy = fc.policy /\ m.select = fc.select /\ m.count = fc.count /\ m.lifetime = fc.lifetime
  BY <1>0
<1>2. fc' = CASE f.cmd = "STATE_REPORT" -> OnReport(m, f)
              [] f.cmd \in {"DEVICE_ID", "BUILD_INFO", "LIFETIME_KWH", "TIME"} -> OnInfo(m, f)
              [] f.cmd \in {"RFID_CONFIG", "RFID_LIST_END", "RFID_SWIPE"} -> OnRfid(m, f)
              [] f.cmd = "GFCI_POLICY" -> OnPolicy(m, f)
              [] OTHER -> m
  BY DEF Mirror
<1> HIDE DEF m
<1> USE DEF RfidMirror, PolicyMirror
<1>3. CASE f.cmd = "STATE_REPORT"
  <2>1. fc' = [m EXCEPT !.report = f.arg, !.number = f.arg.amps]
    BY <1>2, <1>3 DEF OnReport
  <2> QED BY <1>0, <1>1, <1>3, <2>1
<1>4. CASE f.cmd = "LIFETIME_KWH"
  <2>1. fc' = [m EXCEPT !.lifetime = f.arg]
    BY <1>2, <1>4 DEF OnInfo
  <2> QED BY <1>0, <1>1, <1>4, <2>1
<1>5. CASE f.cmd \in {"DEVICE_ID", "BUILD_INFO", "TIME"}
  <2>1. fc' = [m EXCEPT !.mac = TRUE] \/ fc' = [m EXCEPT !.build = TRUE] \/ fc' = [m EXCEPT !.clock = f.arg]
    BY <1>2, <1>5 DEF OnInfo
  <2> QED BY <1>0, <1>1, <1>5, <2>1
<1>6. CASE f.cmd = "RFID_CONFIG"
  <2>1. fc' = [m EXCEPT !.require = f.arg.require, !.switch = f.arg.require, !.authorized = f.arg.authorized]
    BY <1>2, <1>6 DEF OnRfid
  <2> QED BY <1>0, <1>1, <1>6, <2>1
<1>7. CASE f.cmd = "RFID_LIST_END"
  <2>1. fc' = [m EXCEPT !.count = f.arg]
    BY <1>2, <1>7 DEF OnRfid
  <2> QED BY <1>0, <1>1, <1>7, <2>1
<1>8. CASE f.cmd = "RFID_SWIPE"
  <2>1. fc' = [m EXCEPT !.present = TRUE]
    BY <1>2, <1>8 DEF OnRfid
  <2> QED BY <1>0, <1>1, <1>8, <2>1
<1>9. CASE f.cmd = "GFCI_POLICY"
  <2>1. fc' = [m EXCEPT !.policy = f.arg, !.select = f.arg]
    BY <1>2, <1>9 DEF OnPolicy
  <2> QED BY <1>0, <1>1, <1>9, <2>1
<1>10. CASE f.cmd \notin {"STATE_REPORT", "DEVICE_ID", "BUILD_INFO", "LIFETIME_KWH", "TIME", "RFID_CONFIG",
                          "RFID_LIST_END", "RFID_SWIPE", "GFCI_POLICY"}
  <2>1. fc' = m
    BY <1>2, <1>10
  <2> QED BY <1>1, <1>10, <2>1
<1> QED BY <1>3, <1>4, <1>5, <1>6, <1>7, <1>8, <1>9, <1>10

LEMMA PullsAsk ==
  ASSUME NEW f
  PROVE  /\ IsSeq(Pulls(f)) /\ ~Has(Pulls(f), CardChanges)
         /\ f.cmd = "RFID_AUTH_RESULT" /\ f.arg = "learned" => Has(Pulls(f), {"RFID_GET_LIST"})
         /\ f.cmd = "SESSION_ENDED" => Has(Pulls(f), {"GET_LIFETIME_KWH"})
<1>1. \A n \in {"GET_STATE", "GET_LIFETIME_KWH", "RFID_GET_LIST"} :
        IsSeq(<<Plain(n)>>) /\ ~Has(<<Plain(n)>>, CardChanges) /\ Has(<<Plain(n)>>, {n})
  <2>1. \A n : Plain(n).cmd = n
    BY DEF Plain, Frame
  <2> QED BY <2>1, One, HasInOne DEF CardChanges
<1>2. CASE f.cmd \in {"STATE_CHANGED", "FAULT_RAISED", "FAULT_CLEARED", "SESSION_BEGAN"}
  BY <1>1, <1>2 DEF Pulls
<1>3. CASE f.cmd = "SESSION_ENDED"
  BY <1>1, <1>3 DEF Pulls
<1>4. CASE f.cmd = "BOOT_COMPLETE"
  <2> DEFINE t == <<Plain("GET_STATE"), Plain("GET_BUILD_INFO"), Plain("GET_LIFETIME_KWH")>>
  <2>1. Pulls(f) = t
    BY <1>4 DEF Pulls
  <2>2. t \in Seq({Plain("GET_STATE"), Plain("GET_BUILD_INFO"), Plain("GET_LIFETIME_KWH")}) /\ Len(t) = 3
    OBVIOUS
  <2>3. \A i \in 1..3 : t[i].cmd \notin CardChanges
    BY DEF Plain, Frame, CardChanges
  <2> HIDE DEF t
  <2>4. IsSeq(t) /\ ~Has(t, CardChanges)
    BY <2>2, <2>3 DEF IsSeq, Has
  <2> QED BY <1>4, <2>1, <2>4
<1>5. CASE f.cmd = "RFID_AUTH_RESULT" /\ f.arg = "learned"
  BY <1>1, <1>5 DEF Pulls
<1>6. CASE /\ f.cmd \notin {"STATE_CHANGED", "FAULT_RAISED", "FAULT_CLEARED", "SESSION_BEGAN", "SESSION_ENDED", "BOOT_COMPLETE"}
           /\ ~(f.cmd = "RFID_AUTH_RESULT" /\ f.arg = "learned")
  <2>1. Pulls(f) = <<>>
    BY <1>6 DEF Pulls
  <2> QED BY <1>6, <2>1, EmptyIsSeq, HasInOne
<1> QED BY <1>2, <1>3, <1>4, <1>5, <1>6

LEMMA FcKeeps == ASSUME LinkShape, Known, FcDispatch PROVE clean' = clean /\ LinkShape' /\ Known'
<1> DEFINE f == Head(to_fc)
<1>0. /\ IsSeq(to_mcu) /\ IsSeq(to_fc) /\ to_fc # <<>> /\ to_fc' = Tail(to_fc) /\ to_mcu' = to_mcu \o Pulls(f)
      /\ fc' = Mirror(f) /\ UNCHANGED <<cfg, cards, authorized, kwh, persist_q, inbox, clean>>
  BY DEF LinkShape, FcDispatch, charger, queues
<1>1. /\ IsSeq(Pulls(f)) /\ ~Has(Pulls(f), CardChanges)
      /\ f.cmd = "RFID_AUTH_RESULT" /\ f.arg = "learned" => Has(Pulls(f), {"RFID_GET_LIST"})
      /\ f.cmd = "SESSION_ENDED" => Has(Pulls(f), {"GET_LIFETIME_KWH"})
  BY PullsAsk
<1>2. /\ DOMAIN fc' = DOMAIN fc
      /\ IF f.cmd = "RFID_CONFIG"
         THEN fc'.require = f.arg.require /\ fc'.switch = f.arg.require /\ fc'.authorized = f.arg.authorized
         ELSE RfidMirror' = RfidMirror
      /\ IF f.cmd = "GFCI_POLICY" THEN fc'.policy = f.arg /\ fc'.select = f.arg ELSE PolicyMirror' = PolicyMirror
      /\ fc'.count = IF f.cmd = "RFID_LIST_END" THEN f.arg ELSE fc.count
      /\ fc'.lifetime = IF f.cmd = "LIFETIME_KWH" THEN f.arg ELSE fc.lifetime
  BY <1>0, MirrorSays
<1>3. \A C : Has(to_mcu', C) <=> Has(to_mcu, C) \/ Has(Pulls(f), C)
  BY <1>0, <1>1, HasInTwo
<1>4. LinkShape'
  <2>1. IsSeq(Tail(to_fc)) /\ IsSeq(to_mcu \o Pulls(f))
    BY <1>0, <1>1, TailIsRest, Joined DEF IsRest
  <2> QED BY <1>0, <1>2, <2>1 DEF LinkShape, FcReset
<1>5. RfidKnown'
  <2>1. RfidAsked => RfidAsked'
    BY <1>0, <1>3 DEF RfidAsked
  <2> DEFINE v == [require |-> cfg.require, authorized |-> authorized]
  <2>2. IF f.cmd = "RFID_CONFIG" THEN f.arg = v => RfidShown' ELSE RfidShown => RfidShown'
    BY <1>0, <1>2 DEF RfidShown, RfidMirror
  <2> HIDE DEF v
  <2>3. LastWord(to_fc, "RFID_CONFIG", v, RfidShown) => LastWord(to_fc', "RFID_CONFIG", v, RfidShown')
    BY <1>0, <2>2, LastWordHeard
  <2> QED BY <1>0, <2>1, <2>3 DEF Known, RfidKnown, v
<1>6. PolicyKnown'
  <2>1. PolicyAsked => PolicyAsked'
    BY <1>0, <1>3 DEF PolicyAsked
  <2>2. IF f.cmd = "GFCI_POLICY" THEN f.arg = cfg.policy => PolicyShown' ELSE PolicyShown => PolicyShown'
    BY <1>0, <1>2 DEF PolicyShown, PolicyMirror
  <2>3. LastWord(to_fc, "GFCI_POLICY", cfg.policy, PolicyShown) => LastWord(to_fc', "GFCI_POLICY", cfg.policy, PolicyShown')
    BY <1>0, <2>2, LastWordHeard
  <2> QED BY <1>0, <2>1, <2>3 DEF Known, PolicyKnown
<1>7. ListKnown'
  <2>1. Followed(to_mcu', CardChanges, "RFID_GET_LIST")
    BY <1>0, <1>1, FollowedIfNone, FollowedInTwo DEF Known, ListKnown
  <2>2. ListComes => ListComes'
    <3>1. SaysLearned(to_fc) => (f.cmd = "RFID_AUTH_RESULT" /\ f.arg = "learned") \/ SaysLearned(to_fc')
      BY <1>0, LearnedInTail
    <3> QED BY <1>1, <1>3, <3>1 DEF ListComes
  <2>3. IF f.cmd = "RFID_LIST_END" THEN f.arg = Cardinality(cards) => fc'.count = Cardinality(cards)
                                   ELSE fc.count = Cardinality(cards) => fc'.count = Cardinality(cards)
    BY <1>2
  <2>4. LastWord(to_fc, "RFID_LIST_END", Cardinality(cards), fc.count = Cardinality(cards))
          => LastWord(to_fc', "RFID_LIST_END", Cardinality(cards), fc'.count = Cardinality(cards))
    BY <1>0, <2>3, LastWordHeard
  <2> QED BY <1>0, <2>1, <2>2, <2>4 DEF Known, ListKnown
<1>8. TotalKnown'
  <2>1. TotalComes => TotalComes'
    <3>1. Has(to_fc, {"SESSION_ENDED"}) => f.cmd = "SESSION_ENDED" \/ Has(to_fc', {"SESSION_ENDED"})
      BY <1>0, HasInTail
    <3> QED BY <1>1, <1>3, <3>1 DEF TotalComes
  <2>2. IF f.cmd = "LIFETIME_KWH" THEN f.arg = kwh => fc'.lifetime = kwh ELSE fc.lifetime = kwh => fc'.lifetime = kwh
    BY <1>2
  <2>3. LastWord(to_fc, "LIFETIME_KWH", kwh, fc.lifetime = kwh) => LastWord(to_fc', "LIFETIME_KWH", kwh, fc'.lifetime = kwh)
    BY <1>0, <2>2, LastWordHeard
  <2> QED BY <1>0, <2>1, <2>3 DEF Known, TotalKnown
<1> QED BY <1>0, <1>4, <1>5, <1>6, <1>7, <1>8 DEF Known

\* Frames the module sends of its own accord; what it sets before the answer, it asks for.
LEMMA AsksKeeps ==
  ASSUME LinkShape, Known, NEW t, IsSeq(t), Followed(t, CardChanges, "RFID_GET_LIST"), to_mcu' = to_mcu \o t,
         UNCHANGED <<to_fc, persist_q, inbox, cfg, cards, authorized, kwh>>, DOMAIN fc' = DOMAIN fc,
         RfidMirror' = RfidMirror \/ Has(t, {"GET_RFID_CONFIG", "SET_REQUIRE_RFID_AUTH"}),
         PolicyMirror' = PolicyMirror \/ Has(t, {"GET_GFCI_POLICY", "SET_GFCI_POLICY"}),
         fc'.count = fc.count \/ Has(t, {"RFID_GET_LIST"}),
         fc'.lifetime = fc.lifetime \/ Has(t, {"GET_LIFETIME_KWH"})
  PROVE  LinkShape' /\ Known'
<1>0. IsSeq(to_mcu) /\ IsSeq(to_mcu')
  BY Joined DEF LinkShape
<1>1. \A C : Has(to_mcu', C) <=> Has(to_mcu, C) \/ Has(t, C)
  BY <1>0, HasInTwo
<1>2. LinkShape'
  BY <1>0 DEF LinkShape, FcReset
<1>3. RfidKnown'
  <2>1. RfidAsked => RfidAsked'
    BY <1>1 DEF RfidAsked
  <2>2. RfidAsked' \/ RfidShown' = RfidShown
    BY <1>1 DEF RfidAsked, RfidShown, RfidMirror
  <2> QED BY <2>1, <2>2 DEF Known, RfidKnown
<1>4. PolicyKnown'
  <2>1. PolicyAsked => PolicyAsked'
    BY <1>1 DEF PolicyAsked
  <2>2. PolicyAsked' \/ PolicyShown' = PolicyShown
    BY <1>1 DEF PolicyAsked, PolicyShown, PolicyMirror
  <2> QED BY <2>1, <2>2 DEF Known, PolicyKnown
<1>5. ListKnown'
  <2>1. Followed(to_mcu', CardChanges, "RFID_GET_LIST")
    BY <1>0, FollowedInTwo DEF Known, ListKnown
  <2>2. (ListComes => ListComes') /\ (ListComes' \/ fc'.count = fc.count)
    BY <1>1 DEF ListComes
  <2> QED BY <2>1, <2>2 DEF Known, ListKnown
<1>6. TotalKnown'
  <2>1. (TotalComes => TotalComes') /\ (TotalComes' \/ fc'.lifetime = fc.lifetime)
    BY <1>1 DEF TotalComes
  <2> QED BY <2>1 DEF Known, TotalKnown
<1> QED BY <1>2, <1>3, <1>4, <1>5, <1>6 DEF Known

LEMMA LoopKeeps == ASSUME LinkShape, Known, FcLoop PROVE clean' = clean /\ LinkShape' /\ Known'
<1> DEFINE s == IF fc.mac THEN <<>> ELSE <<Plain("GET_DEVICE_ID")>>
           u == IF polls' = 0 THEN <<Plain("GET_LIFETIME_KWH")>> ELSE <<>>
           g == <<Plain("GET_STATE")>>
           t == s \o g \o u
<1>1. /\ to_mcu = <<>> /\ to_mcu' = t /\ fc' = [fc EXCEPT !.age = Min({LINK_POLLS, @ + 1})]
      /\ UNCHANGED <<to_fc, persist_q, inbox, cfg, cards, authorized, kwh, clean>>
  BY DEF FcLoop, charger, queues
<1>2. \A n : Plain(n).cmd = n
  BY DEF Plain, Frame
<1>3. IsSeq(s) /\ IsSeq(g) /\ IsSeq(u) /\ ~Has(s, CardChanges) /\ ~Has(g, CardChanges) /\ ~Has(u, CardChanges)
  BY <1>2, One, EmptyIsSeq, HasInOne DEF CardChanges
<1> HIDE DEF s, g, u
<1>4. IsSeq(s \o g) /\ ~Has(s \o g, CardChanges)
  BY <1>3, Joined, HasInTwo
<1>5. IsSeq(t) /\ ~Has(t, CardChanges)
  BY <1>3, <1>4, Joined, HasInTwo
<1> HIDE DEF t
<1>6. to_mcu \o t = t
  <2>1. PICK S : t \in Seq(S)
    BY <1>5 DEF IsSeq
  <2> QED BY <1>1, <2>1, ConcatEmptySeq
<1>7. Followed(t, CardChanges, "RFID_GET_LIST")
  BY <1>5, FollowedIfNone
<1>8. /\ DOMAIN fc' = DOMAIN fc /\ RfidMirror' = RfidMirror /\ PolicyMirror' = PolicyMirror
      /\ fc'.count = fc.count /\ fc'.lifetime = fc.lifetime
  BY <1>1 DEF LinkShape, FcReset, RfidMirror, PolicyMirror
<1>9. to_mcu' = to_mcu \o t
  BY <1>1, <1>6
<1>10. LinkShape' /\ Known'
  BY <1>1, <1>5, <1>7, <1>8, <1>9, AsksKeeps
<1> QED BY <1>1, <1>10

\* A change of the list is followed by the question for it, a setting is sent.
LEMMA OperationAsks ==
  ASSUME NEW op \in Operations
  PROVE  /\ IsSeq(op.frames) /\ Followed(op.frames, CardChanges, "RFID_GET_LIST")
         /\ op.name = "switch" => Has(op.frames, {"SET_REQUIRE_RFID_AUTH"})
         /\ op.name = "select" => Has(op.frames, {"SET_GFCI_POLICY"})
<1>1. ASSUME NEW n, NEW f, f.cmd \notin CardChanges, op = [name |-> n, frames |-> <<f>>],
             n = "switch" => f.cmd = "SET_REQUIRE_RFID_AUTH", n = "select" => f.cmd = "SET_GFCI_POLICY"
      PROVE  /\ IsSeq(op.frames) /\ Followed(op.frames, CardChanges, "RFID_GET_LIST")
             /\ op.name = "switch" => Has(op.frames, {"SET_REQUIRE_RFID_AUTH"})
             /\ op.name = "select" => Has(op.frames, {"SET_GFCI_POLICY"})
  <2>1. op.frames = <<f>> /\ op.name = n
    BY <1>1
  <2> QED BY <1>1, <2>1, One, HasInOne, FollowedIfNone
<1>2. ASSUME NEW n, NEW f, NEW g, f.cmd \notin CardChanges \/ g.cmd = "RFID_GET_LIST", g.cmd \notin CardChanges,
             op = [name |-> n, frames |-> <<f, g>>], n # "switch", n # "select"
      PROVE  /\ IsSeq(op.frames) /\ Followed(op.frames, CardChanges, "RFID_GET_LIST")
             /\ op.name # "switch" /\ op.name # "select"
  <2>1. op.frames = <<f, g>> /\ op.name = n
    BY <1>2
  <2>2. IsSeq(<<f>>) /\ <<f, g>> = Append(<<f>>, g)
    BY One
  <2>3. IsSeq(Append(<<f>>, g))
    BY <2>2, Appended
  <2>4. Followed(Append(<<f>>, g), CardChanges, "RFID_GET_LIST")
    <3>1. CASE g.cmd = "RFID_GET_LIST"
      BY <1>2, <2>2, <3>1, FollowedByLast
    <3>2. CASE f.cmd \notin CardChanges
      <4>1. Followed(<<f>>, CardChanges, "RFID_GET_LIST")
        BY <3>2, HasInOne, FollowedIfNone
      <4> QED BY <1>2, <2>2, <4>1, FollowedInMore
    <3> QED BY <1>2, <3>1, <3>2
  <2> QED BY <1>2, <2>1, <2>2, <2>3, <2>4
<1>3. \A n, a : Plain(n).cmd = n /\ Frame(n, a).cmd = n
  BY DEF Plain, Frame
<1>4. \/ \E n : /\ op = [name |-> n, frames |-> <<Plain(n)>>] /\ n \notin CardChanges /\ n # "switch" /\ n # "select"
      \/ \E n : /\ op = [name |-> n, frames |-> <<Plain(n), Plain("GET_STATE")>>]
                /\ n \in {"REQUEST_STOP", "REQUEST_START_RESUME"}
      \/ op = [name |-> "RFID_CLEAR_LIST", frames |-> <<Plain("RFID_CLEAR_LIST"), Plain("RFID_GET_LIST")>>]
      \/ \E c : op = [name |-> "RFID_REMOVE_UID", frames |-> <<Frame("RFID_REMOVE_UID", c), Plain("RFID_GET_LIST")>>]
      \/ \E x : op = [name |-> "SET_TIME", frames |-> <<Frame("SET_TIME", x)>>]
      \/ \E x : op = [name |-> "WRITE_CALIBRATION", frames |-> <<Frame("WRITE_CALIBRATION", x)>>]
      \/ \E a : op = [name |-> "number", frames |-> <<Frame("SET_ADVERTISED_AMPS", a), Plain("GET_STATE")>>]
      \/ \E b : op = [name |-> "switch", frames |-> <<Frame("SET_REQUIRE_RFID_AUTH", b)>>]
      \/ \E p : op = [name |-> "select", frames |-> <<Frame("SET_GFCI_POLICY", p)>>]
  BY DEF Operations, CardChanges
<1>5. /\ "GET_STATE" \notin CardChanges /\ "RFID_GET_LIST" \notin CardChanges /\ "SET_TIME" \notin CardChanges
      /\ "WRITE_CALIBRATION" \notin CardChanges /\ "SET_ADVERTISED_AMPS" \notin CardChanges
      /\ "SET_REQUIRE_RFID_AUTH" \notin CardChanges /\ "SET_GFCI_POLICY" \notin CardChanges
      /\ "REQUEST_STOP" \notin CardChanges /\ "REQUEST_START_RESUME" \notin CardChanges
  BY DEF CardChanges
<1>6. ASSUME NEW n, op = [name |-> n, frames |-> <<Plain(n)>>], n \notin CardChanges, n # "switch", n # "select"
      PROVE  /\ IsSeq(op.frames) /\ Followed(op.frames, CardChanges, "RFID_GET_LIST")
             /\ op.name = "switch" => Has(op.frames, {"SET_REQUIRE_RFID_AUTH"})
             /\ op.name = "select" => Has(op.frames, {"SET_GFCI_POLICY"})
  <2> DEFINE f == Plain(n)
  <2>1. f.cmd = n
    BY <1>3
  <2> HIDE DEF f
  <2> QED BY <1>1, <1>6, <2>1 DEF f
<1>7. ASSUME NEW n, NEW x, NEW k, op = [name |-> n, frames |-> <<Frame(k, x)>>], k \notin CardChanges,
             n = "switch" => k = "SET_REQUIRE_RFID_AUTH", n = "select" => k = "SET_GFCI_POLICY"
      PROVE  /\ IsSeq(op.frames) /\ Followed(op.frames, CardChanges, "RFID_GET_LIST")
             /\ op.name = "switch" => Has(op.frames, {"SET_REQUIRE_RFID_AUTH"})
             /\ op.name = "select" => Has(op.frames, {"SET_GFCI_POLICY"})
  <2> DEFINE f == Frame(k, x)
  <2>1. f.cmd = k
    BY <1>3
  <2> HIDE DEF f
  <2> QED BY <1>1, <1>7, <2>1 DEF f
<1>8. ASSUME NEW n, NEW k, NEW x, NEW l, op = [name |-> n, frames |-> <<Frame(k, x), Plain(l)>>],
             k \notin CardChanges \/ l = "RFID_GET_LIST", l \notin CardChanges, n # "switch", n # "select"
      PROVE  /\ IsSeq(op.frames) /\ Followed(op.frames, CardChanges, "RFID_GET_LIST")
             /\ op.name # "switch" /\ op.name # "select"
  <2> DEFINE f == Frame(k, x)  g == Plain(l)
  <2>1. f.cmd = k /\ g.cmd = l
    BY <1>3
  <2> HIDE DEF f, g
  <2> QED BY <1>2, <1>8, <2>1 DEF f, g
<1>9. \A n : Plain(n) = Frame(n, 0)
  BY DEF Plain
<1> QED
  <2>1. CASE \E n : /\ op = [name |-> n, frames |-> <<Plain(n)>>] /\ n \notin CardChanges /\ n # "switch" /\ n # "select"
    BY <1>6, <2>1
  <2>2. CASE \/ \E x : op = [name |-> "SET_TIME", frames |-> <<Frame("SET_TIME", x)>>]
             \/ \E x : op = [name |-> "WRITE_CALIBRATION", frames |-> <<Frame("WRITE_CALIBRATION", x)>>]
             \/ \E b : op = [name |-> "switch", frames |-> <<Frame("SET_REQUIRE_RFID_AUTH", b)>>]
             \/ \E p : op = [name |-> "select", frames |-> <<Frame("SET_GFCI_POLICY", p)>>]
    BY <1>5, <1>7, <2>2
  <2>3. CASE \E n : /\ op = [name |-> n, frames |-> <<Plain(n), Plain("GET_STATE")>>]
                    /\ n \in {"REQUEST_STOP", "REQUEST_START_RESUME"}
    <3>1. PICK n \in {"REQUEST_STOP", "REQUEST_START_RESUME"} :
             op = [name |-> n, frames |-> <<Frame(n, 0), Plain("GET_STATE")>>]
      BY <1>9, <2>3
    <3> QED BY <1>5, <1>8, <3>1
  <2>4. CASE op = [name |-> "RFID_CLEAR_LIST", frames |-> <<Plain("RFID_CLEAR_LIST"), Plain("RFID_GET_LIST")>>]
    <3>1. op = [name |-> "RFID_CLEAR_LIST", frames |-> <<Frame("RFID_CLEAR_LIST", 0), Plain("RFID_GET_LIST")>>]
      BY <1>9, <2>4
    <3> QED BY <1>5, <1>8, <3>1
  <2>5. CASE \/ \E c : op = [name |-> "RFID_REMOVE_UID", frames |-> <<Frame("RFID_REMOVE_UID", c), Plain("RFID_GET_LIST")>>]
             \/ \E a : op = [name |-> "number", frames |-> <<Frame("SET_ADVERTISED_AMPS", a), Plain("GET_STATE")>>]
    BY <1>5, <1>8, <2>5
  <2> QED BY <1>4, <2>1, <2>2, <2>3, <2>4, <2>5

LEMMA OperateKeeps == ASSUME LinkShape, Known, NEW op \in Operations, Operate(op) PROVE clean' = clean /\ LinkShape' /\ Known'
<1>1. /\ to_mcu' = to_mcu \o op.frames /\ UNCHANGED <<to_fc, persist_q, inbox, cfg, cards, authorized, kwh, clean>>
      /\ fc' = IF op.name \in {"number", "switch", "select"} THEN [fc EXCEPT ![op.name] = op.frames[1].arg] ELSE fc
  BY DEF Operate, charger, queues
<1>2. /\ DOMAIN fc' = DOMAIN fc /\ fc'.count = fc.count /\ fc'.lifetime = fc.lifetime
      /\ op.name # "switch" => RfidMirror' = RfidMirror
      /\ op.name # "select" => PolicyMirror' = PolicyMirror
  <2>1. CASE op.name \in {"number", "switch", "select"}
    <3> DEFINE v == op.frames[1].arg
    <3>1. fc' = [fc EXCEPT ![op.name] = v]
      BY <1>1, <2>1
    <3> HIDE DEF v
    <3> QED BY <2>1, <3>1 DEF LinkShape, FcReset, RfidMirror, PolicyMirror
  <2>2. CASE op.name \notin {"number", "switch", "select"}
    <3>1. fc' = fc
      BY <1>1, <2>2
    <3> QED BY <3>1 DEF RfidMirror, PolicyMirror
  <2> QED BY <2>1, <2>2
<1>3. /\ IsSeq(op.frames) /\ Followed(op.frames, CardChanges, "RFID_GET_LIST")
      /\ op.name = "switch" => Has(op.frames, {"GET_RFID_CONFIG", "SET_REQUIRE_RFID_AUTH"})
      /\ op.name = "select" => Has(op.frames, {"GET_GFCI_POLICY", "SET_GFCI_POLICY"})
  BY OperationAsks DEF Has
<1>4. LinkShape' /\ Known'
  BY <1>1, <1>2, <1>3, AsksKeeps
<1> QED BY <1>1, <1>4

\* After a reset the module asks for everything the mirror holds.
LEMMA SetupAsks ==
  /\ IsSeq(SetupFrames) /\ Followed(SetupFrames, CardChanges, "RFID_GET_LIST")
  /\ Has(SetupFrames, {"GET_RFID_CONFIG", "SET_REQUIRE_RFID_AUTH"})
  /\ Has(SetupFrames, {"GET_GFCI_POLICY", "SET_GFCI_POLICY"})
  /\ Has(SetupFrames, {"RFID_GET_LIST"}) /\ Has(SetupFrames, {"GET_LIFETIME_KWH"})
<1>1. \A n : Plain(n).cmd = n
  BY DEF Plain, Frame
<1> HIDE DEF Plain
<1>2. /\ Len(SetupFrames) = 7
      /\ SetupFrames[1] = Plain("GET_DEVICE_ID") /\ SetupFrames[2] = Plain("GET_BUILD_INFO")
      /\ SetupFrames[3] = Plain("GET_STATE") /\ SetupFrames[4] = Plain("GET_LIFETIME_KWH")
      /\ SetupFrames[5] = Plain("RFID_GET_LIST") /\ SetupFrames[6] = Plain("GET_RFID_CONFIG")
      /\ SetupFrames[7] = Plain("GET_GFCI_POLICY")
  BY DEF SetupFrames
<1>3. IsSeq(SetupFrames)
  <2>1. SetupFrames \in Seq({Plain("GET_DEVICE_ID"), Plain("GET_BUILD_INFO"), Plain("GET_STATE"), Plain("GET_LIFETIME_KWH"),
                             Plain("RFID_GET_LIST"), Plain("GET_RFID_CONFIG"), Plain("GET_GFCI_POLICY")})
    BY DEF SetupFrames
  <2> QED BY <2>1 DEF IsSeq
<1>4. ~Has(SetupFrames, CardChanges)
  <2>1. \A i \in 1..7 : i = 1 \/ i = 2 \/ i = 3 \/ i = 4 \/ i = 5 \/ i = 6 \/ i = 7
    OBVIOUS
  <2> QED BY <1>1, <1>2, <2>1 DEF Has, CardChanges
<1>5. Has(SetupFrames, {"RFID_GET_LIST"}) /\ Has(SetupFrames, {"GET_LIFETIME_KWH"})
  BY <1>1, <1>2 DEF Has
<1>6. Has(SetupFrames, {"GET_RFID_CONFIG", "SET_REQUIRE_RFID_AUTH"})
      /\ Has(SetupFrames, {"GET_GFCI_POLICY", "SET_GFCI_POLICY"})
  BY <1>1, <1>2 DEF Has
<1> QED BY <1>3, <1>4, <1>5, <1>6, FollowedIfNone

LEMMA RebootKeeps == ASSUME LinkShape, Known, FcReboot, clean' PROVE clean /\ LinkShape' /\ Known'
<1>1. /\ clean /\ to_fc' = to_fc /\ to_mcu' = to_mcu \o SetupFrames /\ fc' = FcReset
      /\ UNCHANGED <<persist_q, inbox, cfg, cards, authorized, kwh>>
  BY DEF FcReboot, charger, queues
<1>2. DOMAIN fc' = DOMAIN fc
  BY <1>1 DEF LinkShape
<1>3. LinkShape' /\ Known'
  BY <1>1, <1>2, SetupAsks, AsksKeeps
<1> QED BY <1>1, <1>3

-----------------------------------------------------------------------------

LEMMA MirrorStart == LinkInit => MirrorInv
<1> SUFFICES ASSUME LinkInit PROVE LinkShape /\ Known
  BY DEF MirrorInv
<1>1. /\ to_fc = <<>> /\ persist_q = <<>> /\ inbox = <<>> /\ cfg = [amps |-> 0, require |-> FALSE, policy |-> 0]
      /\ authorized = FALSE /\ kwh = 0
      /\ \/ to_mcu = SetupFrames /\ fc = FcReset
         \/ /\ to_mcu = <<>>
            /\ fc = [FcReset EXCEPT !.mac = TRUE, !.build = TRUE, !.report = Snapshot, !.age = 0, !.count = Cardinality(cards)]
  BY DEF LinkInit
<1>2. /\ DOMAIN fc = DOMAIN FcReset /\ fc.require = FALSE /\ fc.switch = FALSE /\ fc.authorized = FALSE
      /\ fc.policy = 0 /\ fc.select = 0 /\ fc.lifetime = 0
      /\ to_mcu = SetupFrames \/ (to_mcu = <<>> /\ fc.count = Cardinality(cards))
  <2>1. CASE to_mcu = SetupFrames /\ fc = FcReset
    BY <2>1 DEF FcReset
  <2>2. CASE /\ to_mcu = <<>>
             /\ fc = [FcReset EXCEPT !.mac = TRUE, !.build = TRUE, !.report = Snapshot, !.age = 0, !.count = Cardinality(cards)]
    BY <2>2 DEF FcReset
  <2> QED BY <1>1, <2>1, <2>2
<1>3. LinkShape
  <2>1. DOMAIN cfg = {"amps", "require", "policy"}
    BY <1>1
  <2> QED BY <1>1, <1>2, <2>1, EmptyIsSeq, SetupAsks DEF LinkShape
<1>4. \A cmd, v : \A b : b => LastWord(to_fc, cmd, v, b)
  BY <1>1, EmptyIsSeq DEF LastWord
<1>5. RfidKnown /\ PolicyKnown
  <2>1. RfidShown /\ PolicyShown
    <3>1. cfg.require = FALSE /\ cfg.policy = 0
      BY <1>1
    <3> QED BY <1>1, <1>2, <3>1 DEF RfidShown, PolicyShown
  <2> QED BY <1>4, <2>1 DEF RfidKnown, PolicyKnown
<1>6. Followed(persist_q, CardChanges, "RFID_GET_LIST") /\ Followed(persist_q, {"SESSION"}, "GET_LIFETIME_KWH")
      /\ Followed(<<>>, CardChanges, "RFID_GET_LIST")
  BY <1>1, HasInOne, FollowedIfNone
<1>7. ListKnown
  BY <1>2, <1>4, <1>6, SetupAsks DEF ListKnown, ListComes
<1>8. TotalKnown
  BY <1>1, <1>2, <1>4, <1>6 DEF TotalKnown
<1> QED BY <1>3, <1>5, <1>7, <1>8 DEF Known

\* What was lost stays lost.
LEMMA CleanStays == ASSUME [LinkNext]_linkVars, clean' PROVE clean
<1> USE Posted
<1>1. CASE CommsDispatch
  <2> DEFINE f == Head(to_mcu)
  <2>1. handle_reply(f) \/ handle_panel(f) => clean
    BY DEF handle_reply, handle_panel
  <2>2. handle_to_safety(f) \/ handle_to_persist(f) => clean
    BY DEF handle_to_safety, handle_to_persist
  <2>3. handle_set_advertised_amps(f) \/ handle_write_calibration(f) => clean
    BY DEF handle_set_advertised_amps, handle_write_calibration
  <2>4. ~handle_restart(f)
    BY DEF handle_restart, Restart
  <2> HIDE DEF f
  <2>5. \/ handle_reply(f) \/ handle_to_safety(f) \/ handle_to_persist(f) \/ handle_set_advertised_amps(f)
        \/ handle_write_calibration(f) \/ handle_panel(f) \/ handle_restart(f)
    BY <1>1 DEF CommsDispatch, f
  <2> QED BY <2>1, <2>2, <2>3, <2>4, <2>5
<1>2. CASE PersistSetting \/ PersistRecord
  <2>1. clean' = clean \/ \E q : PostSafety(q)
    BY <1>2 DEF PersistSetting, PersistRecord
  <2> QED BY <2>1
<1>3. CASE SafetyServe
  <2>1. clean' = clean \/ \E mode : Transition(mode)
    <3> DEFINE r == Head(inbox)
    <3>1. CASE r \in {"GET_RFID_CONFIG", "GET_GFCI_POLICY"} \/ (r = "CLEAR_FAULT" /\ evse.fault)
      BY <1>3, <3>1 DEF SafetyServe
    <3>2. CASE r = "REQUEST_STOP" /\ evse.mode \in {"READY", "CHARGING"}
      <4>1. Transition("USER_PAUSED")
        BY <1>3, <3>2 DEF SafetyServe
      <4> QED BY <4>1
    <3>3. CASE r = "REQUEST_START_RESUME" /\ evse.mode = "USER_PAUSED"
      <4>1. Transition("READY")
        BY <1>3, <3>3 DEF SafetyServe
      <4> QED BY <4>1
    <3>4. CASE r = "SIMULATE_REPLUG" /\ evse.car /\ evse.mode \in {"READY", "CHARGING", "USER_PAUSED"}
      <4>1. Transition("USER_PAUSED") \/ clean' = clean
        BY <1>3, <3>4 DEF SafetyServe
      <4> QED BY <4>1
    <3>5. CASE /\ r \notin {"GET_RFID_CONFIG", "GET_GFCI_POLICY"} /\ ~(r = "CLEAR_FAULT" /\ evse.fault)
               /\ ~(r = "REQUEST_STOP" /\ evse.mode \in {"READY", "CHARGING"})
               /\ ~(r = "REQUEST_START_RESUME" /\ evse.mode = "USER_PAUSED")
               /\ ~(r = "SIMULATE_REPLUG" /\ evse.car /\ evse.mode \in {"READY", "CHARGING", "USER_PAUSED"})
      BY <1>3, <3>5 DEF SafetyServe
    <3> QED BY <3>1, <3>2, <3>3, <3>4, <3>5
  <2>2. ASSUME NEW mode, Transition(mode) PROVE clean
    BY <2>2 DEF Transition
  <2> QED BY <2>1, <2>2
<1>4. CASE VehicleCharges \/ LearnTimesOut \/ UnpluggedEndsAuth \/ ReplugEnds
  BY <1>4 DEF VehicleCharges, LearnTimesOut, UnpluggedEndsAuth, ReplugEnds
<1>5. CASE Unplug \/ FaultRaised
  BY <1>5, PostedAll DEF Unplug, FaultRaised
<1>6. ASSUME NEW u, Swipe(u) PROVE clean
  <2>1. LearnCard(u) \/ ListedCard \/ RejectedCard
    BY <1>6 DEF Swipe
  <2>2. LearnCard(u) => clean
    BY DEF LearnCard
  <2>3. ListedCard => clean
    <3>1. ListedCard => clean' = clean \/ \E r : PostSafety(r)
      BY DEF ListedCard
    <3> QED BY <3>1
  <2>4. RejectedCard => clean
    BY DEF RejectedCard
  <2> QED BY <2>1, <2>2, <2>3, <2>4
<1>7. CASE McuReset \/ Lose \/ FcReboot
  BY <1>7 DEF McuReset, Restart, Lose, FcReboot
<1>8. CASE FcDispatch \/ FcLoop \/ \E op \in Operations : Operate(op)
  BY <1>8 DEF FcDispatch, FcLoop, Operate
<1>9. CASE UNCHANGED linkVars
  BY <1>9 DEF linkVars
<1> QED BY <1>1, <1>2, <1>3, <1>4, <1>5, <1>6, <1>7, <1>8, <1>9 DEF LinkNext

LEMMA MirrorStep == MirrorInv /\ [LinkNext]_linkVars => MirrorInv'
<1> SUFFICES ASSUME MirrorInv, [LinkNext]_linkVars, clean' PROVE LinkShape' /\ Known'
  BY DEF MirrorInv
<1>0. LinkShape /\ Known
  BY CleanStays DEF MirrorInv
<1>1. CASE CommsDispatch
  BY <1>0, <1>1, CommsKeeps
<1>2. CASE PersistSetting
  BY <1>0, <1>2, SettingKeeps
<1>3. CASE PersistRecord
  BY <1>0, <1>3, RecordKeeps
<1>4. CASE SafetyServe
  BY <1>0, <1>4, ServeTells, TellsKeeps
<1>5. CASE Events
  BY <1>0, <1>5, EventTells, TellsKeeps
<1>6. CASE UnpluggedEndsAuth
  BY <1>0, <1>6, AuthEndTells, TellsKeeps
<1>7. ASSUME NEW u \in Cards, Swipe(u) PROVE LinkShape' /\ Known'
  BY <1>0, <1>7, SwipeTells, TellsKeeps
<1>8. CASE McuReset \/ Lose
  BY <1>8 DEF McuReset, Restart, Lose
<1>9. CASE FcDispatch
  BY <1>0, <1>9, FcKeeps
<1>10. CASE FcLoop
  BY <1>0, <1>10, LoopKeeps
<1>11. ASSUME NEW op \in Operations, Operate(op) PROVE LinkShape' /\ Known'
  BY <1>0, <1>11, OperateKeeps
<1>12. CASE FcReboot
  BY <1>0, <1>12, RebootKeeps
<1>13. CASE UNCHANGED linkVars
  <2>1. UNCHANGED <<cfg, cards, authorized, kwh, persist_q, inbox, to_mcu, to_fc, fc>>
    BY <1>13 DEF linkVars, charger, queues
  <2>2. LinkShape'
    BY <1>0, <2>1 DEF LinkShape, FcReset
  <2>3. RfidKnown' /\ PolicyKnown'
    BY <1>0, <2>1 DEF Known, RfidKnown, RfidAsked, RfidShown, PolicyKnown, PolicyAsked, PolicyShown
  <2>4. ListKnown' /\ TotalKnown'
    BY <1>0, <2>1 DEF Known, ListKnown, ListComes, TotalKnown, TotalComes
  <2> QED BY <2>2, <2>3, <2>4 DEF Known
<1> QED
  BY <1>1, <1>2, <1>3, <1>4, <1>5, <1>6, <1>7, <1>8, <1>9, <1>10, <1>11, <1>12, <1>13 DEF LinkNext, Events

LEMMA MirrorSuffices == MirrorInv => QuietMirror
<1> SUFFICES ASSUME MirrorInv, clean, to_mcu = <<>>, to_fc = <<>>, persist_q = <<>>, inbox = <<>>
             PROVE  /\ fc.require = cfg.require /\ fc.switch = cfg.require /\ fc.authorized = authorized
                    /\ fc.policy = cfg.policy /\ fc.select = cfg.policy
                    /\ fc.count = Cardinality(cards) /\ fc.lifetime = kwh
  BY DEF QuietMirror
<1>1. \A C : ~Has(<<>>, C)
  BY HasInOne
<1>2. \A r : ~Waits(<<>>, r)
  BY EmptyIsSeq DEF Waits
<1>3. \A cmd, v : \A b : LastWord(<<>>, cmd, v, b) => b
  BY EmptyIsSeq DEF LastWord
<1>4. ~SaysLearned(<<>>)
  BY LearnedInOne
<1>5. Known
  BY DEF MirrorInv
<1>6. RfidShown /\ PolicyShown
  BY <1>1, <1>2, <1>3, <1>5 DEF Known, RfidKnown, RfidAsked, PolicyKnown, PolicyAsked
<1>7. fc.count = Cardinality(cards)
  BY <1>1, <1>3, <1>4, <1>5 DEF Known, ListKnown, ListComes
<1>8. fc.lifetime = kwh
  BY <1>1, <1>3, <1>5 DEF Known, TotalKnown, TotalComes
<1> QED BY <1>6, <1>7, <1>8 DEF RfidShown, PolicyShown

\* Between operations the module shows what is in force: the answers that are under way,
\* or still to be asked for, are enough to make every field right.
THEOREM MirrorInvariant == LinkSpec => []MirrorInv
<1>1. LinkSpec => LinkInit /\ [][LinkNext]_linkVars
  BY DEF LinkSpec
<1> QED BY <1>1, MirrorStart, MirrorStep, PTL

\* The authorization, the settings, the number of cards and the lifetime total agree at both
\* ends when every request, answer and event has arrived and none was lost or dropped.
THEOREM MirrorIsRight == LinkSpec => []QuietMirror
BY MirrorInvariant, MirrorSuffices, PTL
=============================================================================
