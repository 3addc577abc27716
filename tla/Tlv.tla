-------------------------------- MODULE Tlv --------------------------------
(***************************************************************************)
(* The serial line between the charger and its Wi-Fi module, byte by byte: *)
(* frames, the transmitters, and the two receivers, which resynchronise    *)
(* differently.  The charger's side is proto/tlv.c, hal/gd32f205/uart5.c   *)
(* and the loop of tasks/comms_task.c, the module's side process_byte_ and *)
(* try_parse_ of openevcharger_tlv.cpp.  LEN, CMD with SEQ, and CRC16 are  *)
(* one byte each here; the CRC is the bytes it covers.                     *)
(***************************************************************************)
EXTENDS Integers, SequencesExt

CONSTANTS
  Payloads,        \* payloads, sequences of bytes
  PAYLOAD_MAX,     \* 56
  RING_LEN,        \* UART5_RX_RING_LEN, 256
  Senders,         \* tasks of the charger that send: comms, safety, persist
  MAX_FRAMES,      \* bound on the frames
  MAX_FAULTS,      \* bound on the bytes the line loses or spoils
  Receivers        \* "mcu", "fc41d"

VARIABLES
  end,         \* the receiver of this behaviour
  sent,        \* history: the frames, in the order in which their transmission began
  tx,          \* what each sender still has to transmit
  tx_mutex,    \* s_tx_mutex: the sender that holds it
  rx_ring,     \* s_rx_ring
  accum,       \* accum of comms_task_run, or rx_buf_
  dispatched,  \* history: the frames handed to dispatch
  hit,         \* history: the frames with a lost or spoilt byte
  faults       \* for the bound

tlvVars == <<end, sent, tx, tx_mutex, rx_ring, accum, dispatched, hit, faults>>

\* A byte: what it stands for and its value, read as a LEN.
Byte(k, v, of) == [k |-> k, v |-> v, of |-> of]
SOF0  == Byte("sof0", 165, <<>>)
SOF1  == Byte("sof1", 90, <<>>)
PlainByte == Byte("plain", 0, <<>>)
Noise == Byte("noise", 2, <<>>)
LenByte(n) == Byte("len", n, <<>>)
Id(i)  == Byte("id", i, <<>>)
Crc(s) == Byte("crc", 1, s)

MIN_LEN   == 5                      \* TLV_HDR_LEN + TLV_CRC_LEN
FRAME_MAX == MIN_LEN + PAYLOAD_MAX

\* tlv_build: LEN counts from CMD to the end of the payload, the CRC covers LEN too.
tlv_build(i, payload) ==
  LET covered == <<LenByte(1 + Len(payload)), Id(i)>> \o payload
  IN  <<SOF0, SOF1>> \o covered \o <<Crc(covered)>>

\* A payload may hold start bytes, but not the CRC of what is sent: a CRC is taken to match
\* only the bytes it was computed over.
ASSUME TlvAssumption ==
  /\ PAYLOAD_MAX \in Nat /\ RING_LEN \in Nat \ {0} /\ MAX_FRAMES \in Nat /\ "none" \notin Senders
  /\ \A p \in Payloads :
       p \in Seq([k : {"sof0", "sof1", "plain"}, v : Nat, of : {<<>>}]) /\ Len(p) <= PAYLOAD_MAX

TlvInit ==
  /\ end \in Receivers /\ sent = <<>> /\ tx = [s \in Senders |-> <<>>] /\ tx_mutex = "none"
  /\ rx_ring = <<>> /\ accum = <<>> /\ dispatched = <<>> /\ hit = {} /\ faults = 0

-----------------------------------------------------------------------------
(* The charger's receiver. *)

\* tlv_parse: the length of the frame, 0 if more bytes are needed, -1 to resynchronise.
tlv_parse(buf) ==
  IF Len(buf) < MIN_LEN THEN 0
  ELSE IF buf[1] # SOF0 \/ buf[2] # SOF1 \/ buf[3].v \notin 1..(1 + PAYLOAD_MAX) THEN -1
  ELSE LET total == 4 + (buf[3].v - 1) + 1 IN
       IF Len(buf) < total THEN 0
       ELSE IF buf[total] # Crc(SubSeq(buf, 3, total - 1)) THEN -1
       ELSE total

\* uart5_rx_pop into the room that is left, once nothing more can be parsed; a buffer that
\* is full by then is emptied.
CommsPoll ==
  /\ end = "mcu" /\ rx_ring # <<>> /\ tlv_parse(accum) = 0
  /\ LET n   == Min({Len(rx_ring), FRAME_MAX - Len(accum)})
         buf == accum \o SubSeq(rx_ring, 1, n)
     IN  /\ rx_ring' = SubSeq(rx_ring, n + 1, Len(rx_ring))
         /\ accum' = IF tlv_parse(buf) = 0 /\ Len(buf) = FRAME_MAX THEN <<>> ELSE buf
  /\ UNCHANGED <<end, sent, tx, tx_mutex, dispatched, hit, faults>>

\* Mutant: on an error everything in the buffer is dropped.
Resync_Flush(buf) == <<>>

\* On an error one byte is dropped.
Resync(buf) == Tail(buf)

\* A round of the loop of comms_task_run: the frame at the head is dispatched, or the
\* receiver resynchronises.
CommsParse ==
  /\ end = "mcu" /\ tlv_parse(accum) # 0
  /\ LET n == tlv_parse(accum)
     IN  IF n > 0
         THEN /\ accum' = SubSeq(accum, n + 1, Len(accum))
              /\ dispatched' = Append(dispatched, SubSeq(accum, 1, n))
         ELSE accum' = Resync(accum) /\ UNCHANGED dispatched
  /\ UNCHANGED <<end, sent, tx, tx_mutex, rx_ring, hit, faults>>

-----------------------------------------------------------------------------
(* The module's receiver. *)

FromSof0(buf) ==
  LET at == {i \in DOMAIN buf : buf[i] = SOF0}
  IN  IF at = {} THEN <<>> ELSE SubSeq(buf, Min(at), Len(buf))

\* Mutant: a frame is taken without a look at its CRC.
try_parse_Blind(buf) ==
  LET total == 4 + (buf[3].v - 1) + 1 IN
  IF Len(buf) < MIN_LEN \/ Len(buf) < total THEN [buf |-> buf, out |-> <<>>]
  ELSE [buf |-> SubSeq(buf, total + 1, Len(buf)), out |-> <<SubSeq(buf, 1, total)>>]

\* try_parse_: SOF1 and the range of LEN are not looked at again.
try_parse(buf) ==
  LET total == 4 + (buf[3].v - 1) + 1 IN
  IF Len(buf) < MIN_LEN \/ Len(buf) < total THEN [buf |-> buf, out |-> <<>>]
  ELSE IF total < MIN_LEN \/ buf[total] # Crc(SubSeq(buf, 3, total - 1))
       THEN [buf |-> FromSof0(Tail(buf)), out |-> <<>>]
       ELSE [buf |-> SubSeq(buf, total + 1, Len(buf)), out |-> <<SubSeq(buf, 1, total)>>]

\* process_byte_ on one byte: the new buffer and at most one frame.
process_byte(buf, b) ==
  LET kept(s) == [buf |-> s, out |-> <<>>] IN
  CASE Len(buf) = 0 -> kept(IF b = SOF0 THEN <<b>> ELSE <<>>)
    [] Len(buf) = 1 -> kept(IF b = SOF1 THEN Append(buf, b) ELSE IF b = SOF0 THEN <<b>> ELSE <<>>)
    [] Len(buf) >= FRAME_MAX -> kept(<<>>)
    [] Len(buf) = 2 /\ FRAME_MAX > 2 ->
         IF b.v \notin 1..(1 + PAYLOAD_MAX) THEN kept(<<>>) ELSE try_parse(Append(buf, b))
    [] OTHER -> try_parse(Append(buf, b))

-----------------------------------------------------------------------------
(* The line. *)

\* send_frame, up to the mutex; one that cannot have it within 50 ms is not sent.
\* The module has one thread and needs no mutex.
SendFrame(s, p) ==
  /\ Len(sent) < MAX_FRAMES /\ tx_mutex = "none" /\ tx[s] = <<>>
  /\ LET f == tlv_build(Len(sent) + 1, p)
     IN  sent' = Append(sent, f) /\ tx' = [tx EXCEPT ![s] = f]
  /\ tx_mutex' = s
  /\ UNCHANGED <<end, rx_ring, accum, dispatched, hit, faults>>

\* What the receiver makes of a byte: the ISR drops it if the ring is full.
Receive(b) ==
  IF end = "mcu"
  THEN /\ rx_ring' = IF Len(rx_ring) < RING_LEN - 1 THEN Append(rx_ring, b) ELSE rx_ring
       /\ UNCHANGED <<accum, dispatched>>
  ELSE LET r == process_byte(accum, b)
       IN  accum' = r.buf /\ dispatched' = dispatched \o r.out /\ UNCHANGED rx_ring

\* The frame a sender is transmitting.
Current(s) == CHOOSE i \in DOMAIN sent : \E p \in 0..Len(sent[i]) : SubSeq(sent[i], p + 1, Len(sent[i])) = tx[s]

Sent(s) ==
  /\ tx[s] # <<>> /\ tx' = [tx EXCEPT ![s] = Tail(tx[s])]
  /\ tx_mutex' = IF Len(tx[s]) = 1 THEN "none" ELSE tx_mutex
  /\ UNCHANGED <<end, sent>>

\* uart5_send: one byte goes over the line.
SendByte(s) ==
  /\ Sent(s) /\ Receive(Head(tx[s])) /\ UNCHANGED faults
  /\ hit' = IF end = "mcu" /\ Len(rx_ring) >= RING_LEN - 1 THEN hit \cup {Current(s)} ELSE hit

\* A byte is lost (an error flag of the UART, an interrupt that comes late), or spoilt.
LineFault(s) ==
  /\ Sent(s) /\ faults < MAX_FAULTS /\ faults' = faults + 1 /\ hit' = hit \cup {Current(s)}
  /\ Receive(Noise) \/ UNCHANGED <<rx_ring, accum, dispatched>>

TlvNext ==
  \/ \E s \in Senders, p \in Payloads : SendFrame(s, p)
  \/ \E s \in Senders : SendByte(s) \/ LineFault(s)
  \/ CommsPoll \/ CommsParse

TlvSpec == TlvInit /\ [][TlvNext]_tlvVars

-----------------------------------------------------------------------------
\* LEN to CRC; the module also takes a frame whose second start byte was spoilt.
Body(f) == SubSeq(f, 3, Len(f))

\* What is dispatched was sent, each frame at most once and in order, through lost and
\* spoilt bytes, payloads that look like a frame's start, and several sending tasks.
Line == INSTANCE FrameLine
  WITH Frames    <- {Body(tlv_build(i, p)) : i \in 1..MAX_FRAMES, p \in Payloads},
       sent      <- [i \in DOMAIN sent |-> Body(sent[i])],
       delivered <- [i \in DOMAIN dispatched |-> Body(dispatched[i])],
       last      <- IF dispatched = <<>> THEN 0 ELSE dispatched[Len(dispatched)][4].v
OnlySentFrames == Line!Spec

Within(f, buf) == \E i \in 1..(Len(buf) - Len(f) + 1) : SubSeq(buf, i, i + Len(f) - 1) = f

\* The charger loses no frame that arrives whole: whatever came before it, it is
\* dispatched or still waits in the buffer for the bytes behind it.
IntactFrameKept ==
  end = "mcu" =>
    \A i \in DOMAIN sent :
      \/ i \in hit \/ \E s \in Senders : tx[s] # <<>> /\ Current(s) = i
      \/ \E k \in DOMAIN dispatched : dispatched[k] = sent[i]
      \/ Within(sent[i], accum \o rx_ring)
=============================================================================
