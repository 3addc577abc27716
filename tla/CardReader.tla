----------------------------- MODULE CardReader -----------------------------
(***************************************************************************)
(* The RFID reader on USART1: hal/gd32f205/rfid.c, core/rfid.c and the     *)
(* part of the safety task that drains and keeps it alive.  The reader     *)
(* answers each keepalive with one frame, idle or with the UID of the card *)
(* on it; frames carry no checksum.                                        *)
(***************************************************************************)
EXTENDS Integers, SequencesExt

CONSTANTS
  Uids,             \* UIDs, sequences of four bytes
  Cuts,             \* bound: how many bytes of a frame arrive before a tick, if not all
  KEEPALIVE_TICKS,  \* RFID_KEEPALIVE_TICKS, 17
  MAX_CARD_MOVES, MAX_HITS  \* bounds on cards put down and lifted, and on disturbed bytes

RFID_FRAME_MAX_LEN == 16
READER_RING == 64
ASSUME ReaderAssumption ==
  KEEPALIVE_TICKS \in Nat \ {0} /\ Cuts \subseteq Nat /\ \A u \in Uids : u \in Seq(STRING) /\ Len(u) = 4

VARIABLES
  card,        \* the UID on the reader, or NoCard
  wire,        \* what the reader has yet to transmit
  rfid_ring,   \* s_rx_ring
  rfid,        \* rfid_ctx: buf, and the latched uid (NoCard: card_present = 0)
  keepalive,   \* rfid_keepalive_div
  swipes,      \* history: card-present edges reported
  laid,        \* history: cards put down
  card_moves, hits   \* for the bounds

readerVars == <<card, wire, rfid_ring, rfid, keepalive, swipes, laid, card_moves, hits>>

NoCard == <<>>
Preamble == <<"AA", "D1", "D0", "02">>
ReaderFrame(c) == Preamble \o (IF c = NoCard THEN <<"0", "00">> ELSE <<"4", "00">> \o c) \o <<"state">>

ReaderInit ==
  /\ card = NoCard /\ wire = <<>> /\ rfid_ring = <<>> /\ rfid = [buf |-> <<>>, uid |-> NoCard]
  /\ keepalive = 0 /\ swipes = 0 /\ laid = 0 /\ card_moves = 0 /\ hits = 0

-----------------------------------------------------------------------------
FromPreamble(buf) ==
  LET at == {i \in DOMAIN buf : buf[i] = "AA"}
  IN  IF at = {} THEN <<>> ELSE SubSeq(buf, Min(at), Len(buf))

Mismatch(b) == SubSeq(b, 1, 4) # Preamble \/ b[5] \notin {"0", "4"}
FrameLength(b) == IF b[5] = "0" THEN 7 ELSE 11
FrameUid(b) == IF b[5] = "0" THEN NoCard ELSE SubSeq(b, 7, 10)

\* Mutant: the UID is latched and the presence is not, so each card frame is an edge.
Edge_Unlatched(old, uid) == uid # old \/ uid # NoCard
Edge(old, uid) == uid # old

\* One round of rfid_feed's loop around try_parse_one: c.more says whether it goes on.
\* After a mismatch one byte is dropped and the rest waits for the next feed.
try_parse_one(c) ==
  LET b == FromPreamble(c.buf) IN
  CASE Len(b) < 5 -> [c EXCEPT !.buf = b, !.more = FALSE]
    [] Len(b) >= 5 /\ Mismatch(b) -> [c EXCEPT !.buf = Tail(b), !.more = FALSE]
    [] Len(b) >= 5 /\ ~Mismatch(b) /\ Len(b) < FrameLength(b) -> [c EXCEPT !.buf = b, !.more = FALSE]
    [] OTHER -> [buf |-> SubSeq(b, FrameLength(b) + 1, Len(b)), uid |-> FrameUid(b), more |-> TRUE,
                 edge |-> c.edge \/ Edge(c.uid, FrameUid(b))]

\* A full buffer drops its oldest byte.
Kept(all) == SubSeq(all, Max({1, Len(all) - RFID_FRAME_MAX_LEN + 1}), Len(all))

\* rfid_feed, as the set of its one result: the buffer has room for two frames, and of
\* several edges the last one is reported.
rfid_feed(ctx, bytes) ==
  LET round(S) == {IF c.more THEN try_parse_one(c) ELSE c : c \in S}
  IN  round(round(round({[buf |-> Kept(ctx.buf \o bytes), uid |-> ctx.uid, edge |-> FALSE, more |-> TRUE]})))

\* Mutant: the reader is not asked while a frame is incomplete.
Due_Complete(ctx) == keepalive + 1 = KEEPALIVE_TICKS /\ ctx.buf = <<>>
Due(ctx) == keepalive + 1 = KEEPALIVE_TICKS

\* The reader's part of a safety tick: pop, feed, report, and every KEEPALIVE_TICKS ticks
\* a keepalive, which the reader answers within those 340 ms.
ReaderTick ==
  /\ LET n == Min({Len(rfid_ring), 2 * RFID_FRAME_MAX_LEN}) IN
     IF n = 0 THEN UNCHANGED <<rfid_ring, rfid, swipes>>
     ELSE \E r \in rfid_feed(rfid, SubSeq(rfid_ring, 1, n)) :
            /\ rfid_ring' = SubSeq(rfid_ring, n + 1, Len(rfid_ring))
            /\ rfid' = [buf |-> r.buf, uid |-> r.uid]
            /\ swipes' = IF r.edge /\ r.uid # NoCard THEN swipes + 1 ELSE swipes
  /\ keepalive' = (keepalive + 1) % KEEPALIVE_TICKS
  /\ IF Due(rfid) THEN wire = <<>> /\ wire' = ReaderFrame(card) ELSE UNCHANGED wire
  /\ UNCHANGED <<card, laid, card_moves, hits>>

-----------------------------------------------------------------------------
CardMoves == card_moves < MAX_CARD_MOVES /\ card_moves' = card_moves + 1
             /\ UNCHANGED <<wire, rfid_ring, rfid, keepalive, swipes, hits>>
LayCard(u) == CardMoves /\ card = NoCard /\ card' = u /\ laid' = laid + 1
LiftCard   == CardMoves /\ card # NoCard /\ card' = NoCard /\ UNCHANGED laid

\* USART1_IRQHandler, for bytes that come between two ticks: a full ring drops them.
Isr(bytes) == rfid_ring' = SubSeq(rfid_ring \o bytes, 1, Min({READER_RING - 1, Len(rfid_ring) + Len(bytes)}))

ReaderSends ==
  /\ wire # <<>> /\ \E n \in Cuts \cup {Len(wire)} :
       n <= Len(wire) /\ wire' = SubSeq(wire, n + 1, Len(wire)) /\ Isr(SubSeq(wire, 1, n))
  /\ UNCHANGED <<card, rfid, keepalive, swipes, laid, card_moves, hits>>

\* An error flag drops a byte; noise may spoil it without one.
DisturbedByte ==
  /\ wire # <<>> /\ hits < MAX_HITS /\ hits' = hits + 1
  /\ \E i \in DOMAIN wire : wire' = RemoveAt(wire, i) \/ wire' = ReplaceAt(wire, i, "??")
  /\ UNCHANGED <<card, rfid_ring, rfid, keepalive, swipes, laid, card_moves>>

ReaderNext ==
  \/ ReaderTick \/ (\E u \in Uids : LayCard(u)) \/ LiftCard \/ ReaderSends \/ DisturbedByte

\* The safety task, the UART and the reader run forever.
ReaderFairness == WF_readerVars(ReaderTick) /\ WF_readerVars(ReaderSends)

ReaderSpec == ReaderInit /\ [][ReaderNext]_readerVars /\ ReaderFairness

-----------------------------------------------------------------------------
\* What the task has latched comes to agree with the card on the reader, whatever was lost
\* or spoilt before and whichever cards were there, unless the byte that starts a frame
\* occurs in the UID itself: then that holds as long as no byte is disturbed.
ReaderConverges == <>[](hits = 0 \/ ~Contains(card, "AA") => rfid.uid = card)

\* A card put down is reported once, however its frames are cut into ticks; a disturbed
\* byte costs at most two reports, of a UID nobody holds and of the card again.
SwipesAreCards == swipes <= laid + 2 * hits
=============================================================================
