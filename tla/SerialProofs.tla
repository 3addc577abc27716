---------------------------- MODULE SerialProofs ----------------------------
(***************************************************************************)
(* Proofs about the two serial lines, for every sequence of bytes they can *)
(* carry.  Tlv: the line to the Wi-Fi module implements FrameLine, and the *)
(* charger loses no intact frame; both rest on the CRCs of the bytes that  *)
(* wait, which are those of frames sent, in order (LineInv).  CardReader:  *)
(* a card put down is reported once, up to two reports per disturbed byte, *)
(* from the frame each waiting byte was sent in (ReaderInv).               *)
(***************************************************************************)
EXTENDS Tlv, CardReader, SequenceTheorems, WellFoundedInduction, TLAPS

-----------------------------------------------------------------------------
(* Sequences, of whatever elements. *)

IsSeq(s) == \E S : s \in Seq(S)

LEMMA EmptyIsSeq == IsSeq(<<>>) /\ Len(<<>>) = 0
BY EmptySeq DEF IsSeq

LEMMA LenIsNat == ASSUME NEW s, IsSeq(s) PROVE Len(s) \in Nat /\ (s # <<>> => Len(s) > 0)
BY EmptySeq, LenProperties DEF IsSeq

LEMMA Appended ==
  ASSUME NEW s, IsSeq(s), NEW e
  PROVE  /\ IsSeq(Append(s, e)) /\ Len(Append(s, e)) = Len(s) + 1
         /\ \A i \in 1..Len(s) + 1 : Append(s, e)[i] = IF i <= Len(s) THEN s[i] ELSE e
<1>1. PICK S : s \in Seq(S)
  BY DEF IsSeq
<1> DEFINE T == S \cup {e}
<1>2. s \in Seq(T)
  <2> S \subseteq T OBVIOUS
  <2> QED BY <1>1, SeqMonotonic
<1>3. e \in T OBVIOUS
<1> HIDE DEF T
<1>4. Append(s, e) \in Seq(T) /\ Len(Append(s, e)) = Len(s) + 1
      /\ \A i \in 1..Len(s) + 1 : Append(s, e)[i] = IF i <= Len(s) THEN s[i] ELSE e
  BY <1>2, <1>3, AppendProperties, LenProperties
<1> QED BY <1>4 DEF IsSeq

\* What is left of a queue when its first n frames are gone.
IsRest(t, s, n) ==
  /\ IsSeq(t) /\ Len(t) = Len(s) - n
  /\ \A i \in 1..Len(s) - n : t[i] = s[i + n]

LEMMA TailIsRest ==
  ASSUME NEW s, IsSeq(s), s # <<>>
  PROVE  IsRest(Tail(s), s, 1) /\ Head(s) = s[1] /\ 1 \in 1..Len(s)
<1>1. PICK S : s \in Seq(S)
  BY DEF IsSeq
<1>2. Tail(s) \in Seq(S) /\ Len(Tail(s)) = Len(s) - 1
      /\ \A i \in 1..Len(Tail(s)) : Tail(s)[i] = s[i + 1]
  BY <1>1, HeadTailProperties
<1>3. Len(s) \in Nat \ {0}
  BY <1>1, EmptySeq
<1>4. IsSeq(Tail(s))
  BY <1>2 DEF IsSeq
<1>5. \A i \in 1..Len(s) - 1 : Tail(s)[i] = s[i + 1]
  BY <1>2
<1>6. IsRest(Tail(s), s, 1)
  BY <1>2, <1>4, <1>5 DEF IsRest
<1>7. 1 \in 1..Len(s) /\ Len(s) \in 1..Len(s)
  BY <1>3
<1>8. Head(s) = s[1]
  BY <1>1, <1>7, HeadTailOfSubSeq, SubSeqFull
<1> QED BY <1>6, <1>7, <1>8

LEMMA SuffixIsRest ==
  ASSUME NEW s, IsSeq(s), NEW n \in 0..Len(s)
  PROVE  IsRest(SubSeq(s, n + 1, Len(s)), s, n)
<1>1. PICK S : s \in Seq(S)
  BY DEF IsSeq
<1>2. Len(s) \in Nat
  BY LenIsNat
<1>3. \A i \in n + 1..Len(s) : s[i] \in S
  BY <1>1, <1>2, ElementOfSeq
<1> DEFINE t == SubSeq(s, n + 1, Len(s))
<1>4. /\ t \in Seq(S) /\ Len(t) = IF n + 1 <= Len(s) THEN Len(s) - (n + 1) + 1 ELSE 0
      /\ \A i \in 1..Len(s) - (n + 1) + 1 : t[i] = s[n + 1 + i - 1]
  <2>1. n + 1 \in Int /\ Len(s) \in Int
    BY <1>2
  <2> QED BY <1>3, <2>1, SubSeqProperties
<1>5. IsSeq(t)
  BY <1>4 DEF IsSeq
<1> HIDE DEF t
<1>6. Len(t) = Len(s) - n
  BY <1>2, <1>4
<1>7. \A i \in 1..Len(s) - n : t[i] = s[i + n]
  <2> TAKE i \in 1..Len(s) - n
  <2>1. n + 1 + i - 1 = i + n /\ i \in 1..Len(s) - (n + 1) + 1
    BY <1>2
  <2> QED BY <1>4, <2>1
<1>8. IsRest(t, s, n)
  BY <1>5, <1>6, <1>7 DEF IsRest
<1> QED BY <1>8 DEF t

LEMMA OneMore == ASSUME NEW s, IsSeq(s), NEW e PROVE s \o <<e>> = Append(s, e) /\ s \o <<>> = s
<1>1. PICK S : s \in Seq(S)
  BY DEF IsSeq
<1>2. s \o <<>> = s
  BY <1>1, ConcatEmptySeq
<1>3. s \o <<e>> = Append(s, e)
  <2>1. s \in Seq(S \cup {e})
    BY <1>1, SeqMonotonic, S \subseteq S \cup {e}
  <2> QED BY <2>1, AppendIsConcat
<1> QED BY <1>2, <1>3

LEMMA Joined ==
  ASSUME NEW s, IsSeq(s), NEW t, IsSeq(t)
  PROVE  /\ IsSeq(s \o t) /\ Len(s \o t) = Len(s) + Len(t)
         /\ \A i \in 1..Len(s) + Len(t) : (s \o t)[i] = IF i <= Len(s) THEN s[i] ELSE t[i - Len(s)]
<1>1. PICK S : s \in Seq(S)
  BY DEF IsSeq
<1>2. PICK T : t \in Seq(T)
  BY DEF IsSeq
<1>3. s \in Seq(S \cup T) /\ t \in Seq(S \cup T)
  BY <1>1, <1>2, SeqMonotonic, S \subseteq S \cup T, T \subseteq S \cup T
<1> QED BY <1>3, ConcatProperties DEF IsSeq

LEMMA One == ASSUME NEW e PROVE IsSeq(<<e>>) /\ Len(<<e>>) = 1 /\ <<e>>[1] = e
<1>1. <<e>> \in Seq({e})
  OBVIOUS
<1> QED BY <1>1 DEF IsSeq

LEMMA SlicedSeq ==
  ASSUME NEW s, IsSeq(s), NEW a \in 1..Len(s) + 1, NEW b \in a - 1..Len(s)
  PROVE  /\ IsSeq(SubSeq(s, a, b)) /\ Len(SubSeq(s, a, b)) = b - a + 1
         /\ \A i \in 1..b - a + 1 : SubSeq(s, a, b)[i] = s[a + i - 1]
<1>1. PICK S : s \in Seq(S)
  BY DEF IsSeq
<1>2. Len(s) \in Nat
  BY LenIsNat
<1>3. \A i \in a..b : s[i] \in S
  BY <1>1, <1>2, ElementOfSeq
<1>4. /\ SubSeq(s, a, b) \in Seq(S) /\ Len(SubSeq(s, a, b)) = IF a <= b THEN b - a + 1 ELSE 0
      /\ \A i \in 1..b - a + 1 : SubSeq(s, a, b)[i] = s[a + i - 1]
  <2>1. a \in Int /\ b \in Int
    BY <1>2
  <2> QED BY <1>3, <2>1, SubSeqProperties
<1>5. Len(SubSeq(s, a, b)) = b - a + 1
  BY <1>2, <1>4
<1> QED BY <1>4, <1>5 DEF IsSeq

LEMMA SameSeq ==
  ASSUME NEW s, IsSeq(s), NEW t, IsSeq(t), Len(s) = Len(t), \A i \in 1..Len(s) : s[i] = t[i]
  PROVE  s = t
<1>1. PICK S : s \in Seq(S)
  BY DEF IsSeq
<1>2. PICK T : t \in Seq(T)
  BY DEF IsSeq
<1>3. s \in Seq(S \cup T) /\ t \in Seq(S \cup T)
  BY <1>1, <1>2, SeqMonotonic, S \subseteq S \cup T, T \subseteq S \cup T
<1> QED BY <1>3, SeqEqual

LEMMA DomainOfSeq == ASSUME NEW s, IsSeq(s) PROVE DOMAIN s = 1..Len(s)
BY LenProperties DEF IsSeq

LEMMA MinExists ==
  ASSUME NEW S \in SUBSET Nat, S # {}
  PROVE  Min(S) \in S /\ \A x \in S : Min(S) <= x
<1>1. IsWellFoundedOn(OpToRel(<, Nat), Nat)
  BY NatLessThanWellFounded
<1>2. PICK n \in S : \A x \in S : ~(<<x, n>> \in OpToRel(<, Nat))
  BY <1>1, WFMin
<1>3. \A x \in S : ~(x < n)
  BY <1>2 DEF OpToRel
<1>4. \A x \in S : n <= x
  BY <1>3
<1>5. \E x \in S : \A y \in S : x <= y
  BY <1>4
<1> QED BY <1>5 DEF Min

-----------------------------------------------------------------------------
(* Frames. *)

\* What the CRC of a frame covers, LEN to the end of the payload, and the frame's number.
Covered(f) == SubSeq(f, 3, Len(f) - 1)
IsCrc(b) == b.k = "crc"
Number(b) == b.of[2].v

\* All that is used of a frame.
IsFrame(f, i) ==
  /\ IsSeq(f) /\ Len(f) \in MIN_LEN..FRAME_MAX
  /\ f[1] = SOF0 /\ f[2] = SOF1 /\ f[3].v = Len(f) - 4 /\ f[4].v = i
  /\ f[Len(f)] = Crc(Covered(f)) /\ Covered(f)[2].v = i
  /\ \A n \in 1..Len(f) - 1 : ~IsCrc(f[n])
  /\ \A n \in 1..Len(f) : f[n].v \in Nat

LEMMA BytesAre ==
  /\ ~IsCrc(SOF0) /\ ~IsCrc(SOF1) /\ ~IsCrc(Noise) /\ SOF0.v \in Nat /\ SOF1.v \in Nat /\ Noise.v \in Nat
  /\ \A n : ~IsCrc(LenByte(n)) /\ LenByte(n).v = n
  /\ \A n : ~IsCrc(Id(n)) /\ Id(n).v = n
  /\ \A s : IsCrc(Crc(s)) /\ Crc(s).of = s /\ Crc(s).v = 1
BY DEF IsCrc, Byte, SOF0, SOF1, Noise, LenByte, Id, Crc

LEMMA Limits == MIN_LEN = 5 /\ FRAME_MAX = 5 + PAYLOAD_MAX /\ PAYLOAD_MAX \in Nat /\ RING_LEN \in Nat
BY TlvAssumption DEF MIN_LEN, FRAME_MAX

LEMMA PayloadIs ==
  ASSUME NEW p \in Payloads
  PROVE  IsSeq(p) /\ Len(p) \in 0..PAYLOAD_MAX /\ \A i \in 1..Len(p) : ~IsCrc(p[i]) /\ p[i].v \in Nat
<1> DEFINE B == [k : {"sof0", "sof1", "plain"}, v : Nat, of : {<<>>}]
<1>1. p \in Seq(B) /\ Len(p) <= PAYLOAD_MAX
  BY TlvAssumption
<1>2. \A b \in B : ~IsCrc(b) /\ b.v \in Nat
  BY DEF IsCrc
<1> HIDE DEF B
<1>3. IsSeq(p) /\ Len(p) \in Nat
  BY <1>1, LenIsNat DEF IsSeq
<1>4. \A i \in 1..Len(p) : p[i] \in B
  BY <1>1, ElementOfSeq
<1>5. Len(p) \in 0..PAYLOAD_MAX
  BY <1>1, <1>3, Limits
<1> QED BY <1>2, <1>3, <1>4, <1>5

\* tlv_build: what a frame is made of.
LEMMA BuildsFrame == ASSUME NEW i \in Nat, NEW p \in Payloads PROVE IsFrame(tlv_build(i, p), i)
<1> DEFINE h == <<LenByte(1 + Len(p)), Id(i)>>
<1> DEFINE c == h \o p
<1> DEFINE z == <<Crc(c)>>
<1> DEFINE sc == <<SOF0, SOF1>> \o c
<1> DEFINE f == sc \o z
<1>1. IsSeq(p) /\ Len(p) \in 0..PAYLOAD_MAX /\ Len(p) \in Nat /\ \A n \in 1..Len(p) : ~IsCrc(p[n]) /\ p[n].v \in Nat
  BY PayloadIs, Limits
<1>2. IsSeq(h) /\ Len(h) = 2 /\ h[1] = LenByte(1 + Len(p)) /\ h[2] = Id(i)
  <2>1. h \in Seq({LenByte(1 + Len(p)), Id(i)})
    OBVIOUS
  <2> QED BY <2>1 DEF IsSeq
<1>3. IsSeq(<<SOF0, SOF1>>) /\ Len(<<SOF0, SOF1>>) = 2 /\ <<SOF0, SOF1>>[1] = SOF0 /\ <<SOF0, SOF1>>[2] = SOF1
  <2>1. <<SOF0, SOF1>> \in Seq({SOF0, SOF1})
    OBVIOUS
  <2> QED BY <2>1 DEF IsSeq
<1>4. IsSeq(z) /\ Len(z) = 1 /\ z[1] = Crc(c)
  BY One
<1> HIDE DEF h, z
<1>5. /\ IsSeq(c) /\ Len(c) = 2 + Len(p)
      /\ \A n \in 1..2 + Len(p) : c[n] = IF n <= 2 THEN h[n] ELSE p[n - 2]
  <2>1. Len(h) + Len(p) = 2 + Len(p)
    BY <1>2
  <2>2. /\ IsSeq(c) /\ Len(c) = Len(h) + Len(p)
        /\ \A n \in 1..Len(h) + Len(p) : c[n] = IF n <= Len(h) THEN h[n] ELSE p[n - Len(h)]
    BY <1>1, <1>2, Joined
  <2> HIDE DEF c
  <2> QED BY <1>2, <2>1, <2>2
<1> HIDE DEF c
<1>6. /\ IsSeq(sc) /\ Len(sc) = 4 + Len(p)
      /\ \A n \in 1..4 + Len(p) : sc[n] = IF n <= 2 THEN <<SOF0, SOF1>>[n] ELSE c[n - 2]
  <2>1. Len(<<SOF0, SOF1>>) + Len(c) = 4 + Len(p)
    BY <1>1, <1>3, <1>5
  <2> QED BY <2>1, <1>3, <1>5, Joined
<1> HIDE DEF sc
<1>7. /\ IsSeq(f) /\ Len(f) = 5 + Len(p)
      /\ \A n \in 1..5 + Len(p) : f[n] = IF n <= 4 + Len(p) THEN sc[n] ELSE z[n - (4 + Len(p))]
  <2>1. Len(sc) + Len(z) = 5 + Len(p)
    BY <1>1, <1>4, <1>6
  <2>2. /\ IsSeq(f) /\ Len(f) = Len(sc) + Len(z)
        /\ \A n \in 1..Len(sc) + Len(z) : f[n] = IF n <= Len(sc) THEN sc[n] ELSE z[n - Len(sc)]
    BY <1>4, <1>6, Joined
  <2> HIDE DEF f
  <2> QED BY <1>6, <2>1, <2>2
<1>8. tlv_build(i, p) = f
  BY DEF tlv_build, f, sc, z, c, h
<1> HIDE DEF f
<1>9. \A n \in 1..2 + Len(p) : f[n + 2] = c[n] /\ ~IsCrc(c[n]) /\ c[n].v \in Nat
  <2> TAKE n \in 1..2 + Len(p)
  <2>1. n + 2 \in 1..5 + Len(p) /\ n + 2 \in 1..4 + Len(p) /\ n + 2 <= 4 + Len(p) /\ ~(n + 2 <= 2) /\ n + 2 - 2 = n
    BY <1>1
  <2>2. f[n + 2] = c[n]
    BY <1>6, <1>7, <2>1
  <2>3. CASE n = 1
    BY <1>1, <1>2, <1>5, <2>2, <2>3, BytesAre
  <2>4. CASE n = 2
    BY <1>1, <1>2, <1>5, <2>2, <2>4, BytesAre
  <2>5. CASE n > 2
    <3>1. n - 2 \in 1..Len(p) /\ ~(n <= 2)
      BY <1>1, <2>5
    <3> QED BY <1>1, <1>5, <2>2, <3>1
  <2> QED BY <2>3, <2>4, <2>5
<1>10. f[1] = SOF0 /\ f[2] = SOF1
  <2>1. 1 \in 1..5 + Len(p) /\ 2 \in 1..5 + Len(p) /\ 1 \in 1..4 + Len(p) /\ 2 \in 1..4 + Len(p)
        /\ 1 <= 4 + Len(p) /\ 2 <= 4 + Len(p)
    BY <1>1
  <2> QED BY <1>3, <1>6, <1>7, <2>1
<1>11. f[Len(f)] = Crc(c)
  <2>1. 5 + Len(p) \in 1..5 + Len(p) /\ ~(5 + Len(p) <= 4 + Len(p)) /\ 5 + Len(p) - (4 + Len(p)) = 1
    BY <1>1
  <2> QED BY <1>4, <1>7, <2>1
<1>12. Covered(f) = c
  <2>1. 3 \in 1..Len(f) + 1 /\ Len(f) - 1 \in 2..Len(f) /\ 3 - 1 = 2 /\ Len(f) - 1 - 3 + 1 = 2 + Len(p)
    BY <1>1, <1>7
  <2>2. /\ IsSeq(Covered(f)) /\ Len(Covered(f)) = 2 + Len(p)
        /\ \A n \in 1..2 + Len(p) : Covered(f)[n] = f[3 + n - 1]
    BY <1>7, <2>1, SlicedSeq DEF Covered
  <2>3. \A n \in 1..2 + Len(p) : Covered(f)[n] = c[n]
    <3> TAKE n \in 1..2 + Len(p)
    <3>1. 3 + n - 1 = n + 2
      BY <1>1
    <3> QED BY <1>9, <2>2, <3>1
  <2> QED BY <1>5, <2>2, <2>3, SameSeq
<1>13. c[1] = LenByte(1 + Len(p)) /\ c[2] = Id(i) /\ 1 \in 1..2 + Len(p) /\ 2 \in 1..2 + Len(p)
  <2>1. 1 \in 1..2 + Len(p) /\ 2 \in 1..2 + Len(p)
    BY <1>1
  <2> QED BY <1>2, <1>5, <2>1
<1>14. f[3].v = Len(f) - 4 /\ f[4].v = i
  <2>1. f[1 + 2] = c[1] /\ f[2 + 2] = c[2]
    BY <1>9, <1>13
  <2>2. f[3].v = 1 + Len(p) /\ f[4].v = i
    BY <1>13, <2>1, BytesAre
  <2> QED BY <1>1, <1>7, <2>2
<1>15. \A n \in 1..Len(f) - 1 : ~IsCrc(f[n]) /\ f[n].v \in Nat
  <2> TAKE n \in 1..Len(f) - 1
  <2>1. n \in 1..4 + Len(p)
    BY <1>1, <1>7
  <2>2. CASE n <= 2
    <3>1. n = 1 \/ n = 2
      BY <2>1, <2>2
    <3> QED BY <1>10, <3>1, BytesAre
  <2>3. CASE n > 2
    <3>1. n - 2 \in 1..2 + Len(p) /\ n - 2 + 2 = n
      BY <1>1, <2>1, <2>3
    <3>2. f[n] = c[n - 2]
      BY <1>9, <3>1
    <3> QED BY <1>9, <3>1, <3>2
  <2> QED BY <2>1, <2>2, <2>3
<1>16. \A n \in 1..Len(f) : f[n].v \in Nat
  <2> TAKE n \in 1..Len(f)
  <2>1. CASE n = Len(f)
    <3>1. Crc(c).v \in Nat
      BY BytesAre
    <3> QED BY <1>11, <2>1, <3>1
  <2>2. CASE n # Len(f)
    <3>1. n \in 1..Len(f) - 1
      BY <1>1, <1>7, <2>2
    <3> QED BY <1>15, <3>1
  <2> QED BY <2>1, <2>2
<1>17. Len(f) \in MIN_LEN..FRAME_MAX
  BY <1>1, <1>7, Limits
<1>18. f[Len(f)] = Crc(Covered(f)) /\ Covered(f)[2].v = i
  BY <1>11, <1>12, <1>13, BytesAre
<1> QED BY <1>7, <1>8, <1>10, <1>14, <1>15, <1>16, <1>17, <1>18 DEF IsFrame

-----------------------------------------------------------------------------
(* The receivers: what either does to the bytes it holds. *)

\* The first m bytes of q are taken for a frame.
Taken(q, m) == m \in MIN_LEN..Len(q) /\ q[m] = Crc(SubSeq(q, 3, m - 1))

LEMMA RestOfRest ==
  ASSUME NEW s, IsSeq(s), NEW t, NEW m \in 0..Len(s), IsRest(t, s, m), NEW u, NEW n \in 0..Len(t), IsRest(u, t, n)
  PROVE  m + n \in 0..Len(s) /\ IsRest(u, s, m + n)
<1>1. Len(s) \in Nat /\ Len(t) = Len(s) - m /\ Len(u) = Len(t) - n /\ IsSeq(u)
      /\ (\A i \in 1..Len(s) - m : t[i] = s[i + m]) /\ \A i \in 1..Len(t) - n : u[i] = t[i + n]
  BY LenIsNat DEF IsRest
<1>2. m + n \in 0..Len(s) /\ Len(u) = Len(s) - (m + n)
  BY <1>1
<1>3. \A i \in 1..Len(s) - (m + n) : u[i] = s[i + (m + n)]
  <2> TAKE i \in 1..Len(s) - (m + n)
  <2>1. i \in 1..Len(t) - n /\ i + n \in 1..Len(s) - m /\ i + n + m = i + (m + n)
    BY <1>1
  <2> QED BY <1>1, <2>1
<1> QED BY <1>1, <1>2, <1>3 DEF IsRest

LEMMA NoneIsRest ==
  ASSUME NEW s, IsSeq(s)
  PROVE  /\ Len(s) \in 0..Len(s) /\ IsRest(<<>>, s, Len(s))
         /\ 0 \in 0..Len(s) /\ IsRest(s, s, 0)
<1>1. Len(s) \in Nat
  BY LenIsNat
<1> QED BY <1>1, EmptyIsSeq DEF IsRest

\* tlv_parse: a full buffer is never one that needs more bytes.
LEMMA ParseOf ==
  ASSUME NEW buf, IsSeq(buf)
  PROVE  \/ tlv_parse(buf) = 0 /\ Len(buf) < FRAME_MAX
         \/ tlv_parse(buf) = -1 /\ Len(buf) >= MIN_LEN
         \/ /\ Taken(buf, tlv_parse(buf)) /\ buf[1] = SOF0 /\ buf[2] = SOF1 /\ buf[3].v = tlv_parse(buf) - 4
            /\ tlv_parse(buf) > 0
<1>1. Len(buf) \in Nat /\ MIN_LEN = 5 /\ FRAME_MAX = 5 + PAYLOAD_MAX /\ PAYLOAD_MAX \in Nat
  BY LenIsNat, Limits
<1>2. CASE Len(buf) < MIN_LEN
  BY <1>1, <1>2 DEF tlv_parse
<1>3. CASE ~(Len(buf) < MIN_LEN) /\ (buf[1] # SOF0 \/ buf[2] # SOF1 \/ buf[3].v \notin 1..(1 + PAYLOAD_MAX))
  <2>1. tlv_parse(buf) = -1
    BY <1>3 DEF tlv_parse
  <2> QED BY <1>1, <1>3, <2>1
<1>4. CASE ~(Len(buf) < MIN_LEN) /\ buf[1] = SOF0 /\ buf[2] = SOF1 /\ buf[3].v \in 1..(1 + PAYLOAD_MAX)
  <2> DEFINE total == 4 + (buf[3].v - 1) + 1
  <2>1. total \in 5..FRAME_MAX /\ total > 0 /\ buf[3].v = total - 4
    BY <1>1, <1>4
  <2>2. tlv_parse(buf) = IF Len(buf) < total THEN 0
                         ELSE IF buf[total] # Crc(SubSeq(buf, 3, total - 1)) THEN -1 ELSE total
    BY <1>4 DEF tlv_parse
  <2> HIDE DEF total
  <2>3. CASE Len(buf) < total
    BY <1>1, <2>1, <2>2, <2>3
  <2>4. CASE ~(Len(buf) < total) /\ buf[total] # Crc(SubSeq(buf, 3, total - 1))
    BY <1>1, <1>4, <2>2, <2>4
  <2>5. CASE ~(Len(buf) < total) /\ buf[total] = Crc(SubSeq(buf, 3, total - 1))
    <3>1. tlv_parse(buf) = total
      BY <2>2, <2>5
    <3>2. total \in MIN_LEN..Len(buf)
      BY <1>1, <2>1, <2>5
    <3> QED BY <1>4, <2>1, <2>5, <3>1, <3>2 DEF Taken
  <2> QED BY <2>3, <2>4, <2>5
<1> QED BY <1>2, <1>3, <1>4

LEMMA FromSof0IsRest == ASSUME NEW s, IsSeq(s) PROVE \E m \in 0..Len(s) : IsRest(FromSof0(s), s, m)
<1> DEFINE at == {i \in DOMAIN s : s[i] = SOF0}
<1>1. DOMAIN s = 1..Len(s) /\ Len(s) \in Nat
  BY DomainOfSeq, LenIsNat
<1>2. FromSof0(s) = IF at = {} THEN <<>> ELSE SubSeq(s, Min(at), Len(s))
  BY DEF FromSof0
<1>3. CASE at = {}
  BY <1>2, <1>3, NoneIsRest
<1>4. CASE at # {}
  <2>1. at \in SUBSET Nat
    BY <1>1
  <2>2. Min(at) \in at
    BY <1>4, <2>1, MinExists
  <2> DEFINE m == Min(at) - 1
  <2>3. m \in 0..Len(s) /\ Min(at) = m + 1
    BY <1>1, <2>2
  <2> HIDE DEF m, at
  <2>4. IsRest(SubSeq(s, m + 1, Len(s)), s, m)
    BY <2>3, SuffixIsRest
  <2> QED BY <1>2, <1>4, <2>3, <2>4
<1> QED BY <1>3, <1>4

\* process_byte_ and try_parse_: what is left is a rest of the buffer with the new byte; a
\* frame that is dispatched is what was taken off.
LeavesFrom(r, q, m) == IsRest(r.buf, q, m) /\ (r.out = <<>> \/ (r.out = <<SubSeq(q, 1, m)>> /\ Taken(q, m)))
Leaves(r, q) == \E m \in 0..Len(q) : LeavesFrom(r, q, m)

LEMMA LeavesRest ==
  ASSUME NEW q, NEW m \in 0..Len(q), NEW t, IsRest(t, q, m)
  PROVE  Leaves([buf |-> t, out |-> <<>>], q)
<1> DEFINE r == [buf |-> t, out |-> <<>>]
<1>1. r.buf = t /\ r.out = <<>>
  OBVIOUS
<1> HIDE DEF r
<1>2. LeavesFrom(r, q, m)
  BY <1>1 DEF LeavesFrom
<1>3. Leaves(r, q)
  BY <1>2 DEF Leaves
<1> QED BY <1>3 DEF r

LEMMA LeavesTaken ==
  ASSUME NEW q, NEW m \in 0..Len(q), NEW t, IsRest(t, q, m), Taken(q, m)
  PROVE  Leaves([buf |-> t, out |-> <<SubSeq(q, 1, m)>>], q)
<1> DEFINE r == [buf |-> t, out |-> <<SubSeq(q, 1, m)>>]
<1>1. r.buf = t /\ r.out = <<SubSeq(q, 1, m)>>
  OBVIOUS
<1> HIDE DEF r
<1>2. LeavesFrom(r, q, m)
  BY <1>1 DEF LeavesFrom
<1>3. Leaves(r, q)
  BY <1>2 DEF Leaves
<1> QED BY <1>3 DEF r

LEMMA TryParseLeaves ==
  ASSUME NEW q, IsSeq(q), \A n \in 1..Len(q) : q[n].v \in Nat
  PROVE  Leaves(try_parse(q), q)
<1> DEFINE total == 4 + (q[3].v - 1) + 1
<1>1. Len(q) \in Nat /\ MIN_LEN = 5
  BY LenIsNat, Limits
<1>2. CASE Len(q) < MIN_LEN \/ Len(q) < total
  <2>1. try_parse(q) = [buf |-> q, out |-> <<>>]
    BY <1>2 DEF try_parse
  <2> QED BY <2>1, NoneIsRest, LeavesRest
<1>3. CASE ~(Len(q) < MIN_LEN \/ Len(q) < total) /\ (total < MIN_LEN \/ q[total] # Crc(SubSeq(q, 3, total - 1)))
  <2>1. try_parse(q) = [buf |-> FromSof0(Tail(q)), out |-> <<>>]
    BY <1>3 DEF try_parse
  <2>2. q # <<>> /\ 1 \in 0..Len(q)
    BY <1>1, <1>3, EmptyIsSeq
  <2>3. IsRest(Tail(q), q, 1) /\ IsSeq(Tail(q))
    BY <2>2, TailIsRest DEF IsRest
  <2>4. PICK m \in 0..Len(Tail(q)) : IsRest(FromSof0(Tail(q)), Tail(q), m)
    BY <2>3, FromSof0IsRest
  <2>5. 1 + m \in 0..Len(q) /\ IsRest(FromSof0(Tail(q)), q, 1 + m)
    BY <2>2, <2>3, <2>4, RestOfRest
  <2> QED BY <2>1, <2>5, LeavesRest
<1>4. CASE ~(Len(q) < MIN_LEN \/ Len(q) < total) /\ ~(total < MIN_LEN \/ q[total] # Crc(SubSeq(q, 3, total - 1)))
  <2>1. try_parse(q) = [buf |-> SubSeq(q, total + 1, Len(q)), out |-> <<SubSeq(q, 1, total)>>]
    BY <1>4 DEF try_parse
  <2>2. q[3].v \in Nat
    <3>1. 3 \in 1..Len(q)
      BY <1>1, <1>4
    <3> QED BY <3>1
  <2>3. total \in Nat
    BY <1>1, <1>4, <2>2
  <2> HIDE DEF total
  <2>4. total \in MIN_LEN..Len(q) /\ total \in 0..Len(q)
    BY <1>1, <1>4, <2>3
  <2>5. IsRest(SubSeq(q, total + 1, Len(q)), q, total)
    BY <2>4, SuffixIsRest
  <2>6. Taken(q, total)
    BY <1>4, <2>4 DEF Taken, total
  <2> QED BY <2>1, <2>4, <2>5, <2>6, LeavesTaken
<1> QED BY <1>2, <1>3, <1>4

LEMMA ProcessByteLeaves ==
  ASSUME NEW s, IsSeq(s), NEW b, \A n \in 1..Len(s) : s[n].v \in Nat, b.v \in Nat
  PROVE  Leaves(process_byte(s, b), Append(s, b))
<1> DEFINE q == Append(s, b)
<1>1. IsSeq(q) /\ Len(q) = Len(s) + 1 /\ Len(s) \in Nat /\ q[Len(s) + 1] = b
      /\ \A i \in 1..Len(s) + 1 : q[i] = IF i <= Len(s) THEN s[i] ELSE b
  <2>1. Len(s) \in Nat /\ Len(s) + 1 \in 1..Len(s) + 1 /\ ~(Len(s) + 1 <= Len(s))
    BY LenIsNat
  <2>2. /\ IsSeq(q) /\ Len(q) = Len(s) + 1
        /\ \A i \in 1..Len(s) + 1 : q[i] = IF i <= Len(s) THEN s[i] ELSE b
    BY Appended
  <2> QED BY <2>1, <2>2
<1>2. \A n \in 1..Len(q) : q[n].v \in Nat
  <2> TAKE n \in 1..Len(q)
  <2>1. n <= Len(s) => n \in 1..Len(s)
    BY <1>1
  <2> QED BY <1>1, <2>1
<1>3. Leaves([buf |-> <<>>, out |-> <<>>], q)
  <2> HIDE DEF q
  <2> QED BY <1>1, NoneIsRest, LeavesRest
<1>4. Leaves([buf |-> <<b>>, out |-> <<>>], q)
  <2> HIDE DEF q
  <2>1. Len(s) \in 0..Len(q) /\ Len(<<b>>) = Len(q) - Len(s) /\ IsSeq(<<b>>) /\ <<b>>[1] = b
    BY <1>1, One
  <2>2. \A i \in 1..Len(q) - Len(s) : <<b>>[i] = q[i + Len(s)]
    <3> TAKE i \in 1..Len(q) - Len(s)
    <3>1. i = 1 /\ i + Len(s) = Len(s) + 1
      BY <1>1
    <3> QED BY <1>1, <2>1, <3>1
  <2>3. IsRest(<<b>>, q, Len(s))
    BY <2>1, <2>2 DEF IsRest
  <2> QED BY <2>1, <2>3, LeavesRest
<1>5. Leaves([buf |-> q, out |-> <<>>], q)
  <2> HIDE DEF q
  <2> QED BY <1>1, NoneIsRest, LeavesRest
<1>6. Leaves(try_parse(q), q)
  <2> HIDE DEF q
  <2> QED BY <1>1, <1>2, TryParseLeaves
<1>7. \/ process_byte(s, b) = [buf |-> <<>>, out |-> <<>>] \/ process_byte(s, b) = [buf |-> <<b>>, out |-> <<>>]
      \/ process_byte(s, b) = [buf |-> q, out |-> <<>>] \/ process_byte(s, b) = try_parse(q)
  <2>1. CASE Len(s) = 0
    BY <2>1 DEF process_byte
  <2>2. CASE Len(s) = 1
    BY <2>2 DEF process_byte
  <2>3. CASE Len(s) \notin {0, 1} /\ Len(s) >= FRAME_MAX
    BY <1>1, <2>3, Limits DEF process_byte
  <2>4. CASE Len(s) \notin {0, 1} /\ ~(Len(s) >= FRAME_MAX) /\ Len(s) = 2 /\ FRAME_MAX > 2
    BY <1>1, <2>4, Limits DEF process_byte
  <2>5. CASE Len(s) \notin {0, 1} /\ ~(Len(s) >= FRAME_MAX) /\ ~(Len(s) = 2 /\ FRAME_MAX > 2)
    BY <1>1, <2>5, Limits DEF process_byte
  <2> QED BY <2>1, <2>2, <2>3, <2>4, <2>5
<1> HIDE DEF q
<1>8. QED BY <1>3, <1>4, <1>5, <1>6, <1>7 DEF q

-----------------------------------------------------------------------------
(* What the line, the buffers and the frames dispatched have to do with what was sent. *)

Stream == accum \o rx_ring

\* The frames that have left their sender altogether.
Ended == IF tx_mutex = "none" THEN Len(sent) ELSE Len(sent) - 1

AreFrames(S, n) == \A i \in 1..n : IsFrame(S[i], i)
SentShape == IsSeq(sent) /\ AreFrames(sent, Len(sent))

\* The holder of the mutex has an end of the last frame left to transmit, the others nothing.
TxShape ==
  /\ tx = [s \in Senders |-> tx[s]] /\ tx_mutex \in Senders \cup {"none"}
  /\ \A s \in Senders : tx[s] # <<>> <=> s = tx_mutex
  /\ tx_mutex # "none" =>
       sent # <<>> /\ \E n \in 0..Len(sent[Len(sent)]) - 1 : IsRest(tx[tx_mutex], sent[Len(sent)], n)

HeldShape ==
  /\ IsSeq(accum) /\ IsSeq(rx_ring) /\ IsSeq(dispatched)
  /\ IF end = "mcu" THEN Len(accum) <= FRAME_MAX ELSE rx_ring = <<>>

\* Every CRC in q is that of a frame among the first n, and they are in order.
CrcsTrue(S, q, n) ==
  /\ \A x \in 1..Len(q) :
       q[x].v \in Nat /\ (IsCrc(q[x]) => Number(q[x]) \in 1..n /\ q[x] = Crc(Covered(S[Number(q[x])])))
  /\ \A x, y \in 1..Len(q) : x < y /\ IsCrc(q[x]) /\ IsCrc(q[y]) => Number(q[x]) < Number(q[y])

\* What was dispatched is among the first n frames and before all that still waits.
OutTrue(S, q, out, n) ==
  /\ \A d \in 1..Len(out) : out[d][4].v \in 1..n /\ Body(out[d]) = Body(S[out[d][4].v])
  /\ \A d, e \in 1..Len(out) : d < e => out[d][4].v < out[e][4].v
  /\ \A d \in 1..Len(out), x \in 1..Len(q) : IsCrc(q[x]) => out[d][4].v < Number(q[x])

TlvShape == SentShape /\ TxShape /\ HeldShape
LineInv  == TlvShape /\ CrcsTrue(sent, Stream, Ended) /\ OutTrue(sent, Stream, dispatched, Ended)

\* The first k bytes of f are in q, from a on.
AtPlace(q, f, k, a) == a + k <= Len(q) + 1 /\ \A x \in 1..k : q[a + x - 1] = f[x]

\* A frame that nothing disturbed was dispatched, or it waits, whole, or as the last bytes
\* that have come and up to what its sender has left.
Waits(q, f) == \E a \in 1..Len(q) + 1 : AtPlace(q, f, Len(f), a)
Comes(q, f, k) == \E a \in 1..Len(q) + 1 : AtPlace(q, f, k, a) /\ a + k = Len(q) + 1

FrameSafe(i) ==
  \/ i \in hit \/ \E d \in 1..Len(dispatched) : dispatched[d] = sent[i]
  \/ IF i <= Ended THEN Waits(Stream, sent[i]) ELSE Comes(Stream, sent[i], Len(sent[i]) - Len(tx[tx_mutex]))
FramesInv == end = "mcu" => \A i \in 1..Len(sent) : FrameSafe(i)

-----------------------------------------------------------------------------
(* Only what was sent is dispatched. *)

LEMMA AppendedTrue ==
  ASSUME NEW S, NEW q, IsSeq(q), NEW out, NEW n \in Nat, CrcsTrue(S, q, n), OutTrue(S, q, out, n),
         NEW b, b.v \in Nat, ~IsCrc(b)
  PROVE  CrcsTrue(S, Append(q, b), n) /\ OutTrue(S, Append(q, b), out, n)
<1> DEFINE r == Append(q, b)
<1>1. Len(r) = Len(q) + 1 /\ Len(q) \in Nat /\ \A i \in 1..Len(q) + 1 : r[i] = IF i <= Len(q) THEN q[i] ELSE b
  BY Appended, LenIsNat
<1> HIDE DEF r
<1>2. \A x \in 1..Len(r) : IF x <= Len(q) THEN x \in 1..Len(q) /\ r[x] = q[x] ELSE r[x] = b
  BY <1>1
<1>3. CrcsTrue(S, r, n)
  <2>1. \A x \in 1..Len(r) :
          r[x].v \in Nat /\ (IsCrc(r[x]) => Number(r[x]) \in 1..n /\ r[x] = Crc(Covered(S[Number(r[x])])))
    BY <1>2 DEF CrcsTrue
  <2>2. \A x, y \in 1..Len(r) : x < y /\ IsCrc(r[x]) /\ IsCrc(r[y]) => Number(r[x]) < Number(r[y])
    BY <1>2 DEF CrcsTrue
  <2> QED BY <2>1, <2>2 DEF CrcsTrue
<1>4. OutTrue(S, r, out, n)
  <2>1. \A d \in 1..Len(out), x \in 1..Len(r) : IsCrc(r[x]) => out[d][4].v < Number(r[x])
    BY <1>2 DEF OutTrue
  <2> QED BY <2>1 DEF OutTrue
<1> QED BY <1>3, <1>4 DEF r

\* The CRC of the next frame comes after all others.
LEMMA ClosedTrue ==
  ASSUME NEW S, NEW q, IsSeq(q), NEW out, NEW n \in Nat, CrcsTrue(S, q, n), OutTrue(S, q, out, n),
         NEW b, b = Crc(Covered(S[n + 1])), Covered(S[n + 1])[2].v = n + 1
  PROVE  CrcsTrue(S, Append(q, b), n + 1) /\ OutTrue(S, Append(q, b), out, n + 1)
<1> DEFINE r == Append(q, b)
<1>1. Len(r) = Len(q) + 1 /\ Len(q) \in Nat /\ \A i \in 1..Len(q) + 1 : r[i] = IF i <= Len(q) THEN q[i] ELSE b
  BY Appended, LenIsNat
<1> HIDE DEF r
<1>2. \A x \in 1..Len(r) : IF x <= Len(q) THEN x \in 1..Len(q) /\ r[x] = q[x] ELSE r[x] = b
  BY <1>1
<1>3. b.v \in Nat /\ IsCrc(b) /\ Number(b) = n + 1 /\ b = Crc(Covered(S[Number(b)]))
  <2>1. Number(b) = n + 1
    BY BytesAre DEF Number
  <2> QED BY <2>1, BytesAre
<1>4. CrcsTrue(S, r, n + 1)
  <2>1. ASSUME NEW x \in 1..Len(r)
        PROVE  r[x].v \in Nat /\ (IsCrc(r[x]) => Number(r[x]) \in 1..n + 1 /\ r[x] = Crc(Covered(S[Number(r[x])])))
    <3>1. CASE x <= Len(q)
      <4>1. x \in 1..Len(q) /\ r[x] = q[x]
        BY <1>2, <3>1
      <4>2. q[x].v \in Nat /\ (IsCrc(q[x]) => Number(q[x]) \in 1..n /\ q[x] = Crc(Covered(S[Number(q[x])])))
        BY <4>1 DEF CrcsTrue
      <4>3. \A j \in 1..n : j \in 1..n + 1
        OBVIOUS
      <4> QED BY <4>1, <4>2, <4>3
    <3>2. CASE ~(x <= Len(q))
      <4>1. r[x] = b /\ n + 1 \in 1..n + 1
        BY <1>2, <3>2
      <4> QED BY <1>3, <4>1
    <3> QED BY <3>1, <3>2
  <2>2. ASSUME NEW x \in 1..Len(r), NEW y \in 1..Len(r), x < y, IsCrc(r[x]), IsCrc(r[y])
        PROVE  Number(r[x]) < Number(r[y])
    <3>1. x <= Len(q) /\ x \in 1..Len(q) /\ r[x] = q[x]
      BY <1>1, <1>2, <2>2
    <3>2. Number(q[x]) \in 1..n
      BY <2>2, <3>1 DEF CrcsTrue
    <3>3. CASE y <= Len(q)
      BY <1>2, <2>2, <3>1, <3>3 DEF CrcsTrue
    <3>4. CASE ~(y <= Len(q))
      BY <1>2, <1>3, <3>1, <3>2, <3>4
    <3> QED BY <3>3, <3>4
  <2> QED BY <2>1, <2>2 DEF CrcsTrue
<1>5. OutTrue(S, r, out, n + 1)
  <2>1. ASSUME NEW d \in 1..Len(out), NEW x \in 1..Len(r), IsCrc(r[x]) PROVE out[d][4].v < Number(r[x])
    <3>1. out[d][4].v \in 1..n
      BY DEF OutTrue
    <3>2. CASE x <= Len(q)
      BY <1>2, <2>1, <3>2 DEF OutTrue
    <3>3. CASE ~(x <= Len(q))
      BY <1>2, <1>3, <3>1, <3>3
    <3> QED BY <3>2, <3>3
  <2>2. \A d \in 1..Len(out) : out[d][4].v \in 1..n + 1 /\ Body(out[d]) = Body(S[out[d][4].v])
    <3>1. \A j \in 1..n : j \in 1..n + 1
      OBVIOUS
    <3> QED BY <3>1 DEF OutTrue
  <2> QED BY <2>1, <2>2 DEF OutTrue
<1> QED BY <1>4, <1>5 DEF r

LEMMA RestTrue ==
  ASSUME NEW S, NEW q, IsSeq(q), NEW out, NEW n \in Nat, CrcsTrue(S, q, n), OutTrue(S, q, out, n),
         NEW m \in 0..Len(q), NEW t, IsRest(t, q, m)
  PROVE  CrcsTrue(S, t, n) /\ OutTrue(S, t, out, n)
<1>1. Len(t) = Len(q) - m /\ Len(q) \in Nat /\ \A i \in 1..Len(q) - m : t[i] = q[i + m]
  BY LenIsNat DEF IsRest
<1>2. \A x \in 1..Len(t) : x + m \in 1..Len(q) /\ t[x] = q[x + m]
  BY <1>1
<1>3. \A x, y \in 1..Len(t) : x < y => x + m < y + m
  BY <1>1
<1>4. CrcsTrue(S, t, n)
  <2>1. \A x \in 1..Len(t) :
          t[x].v \in Nat /\ (IsCrc(t[x]) => Number(t[x]) \in 1..n /\ t[x] = Crc(Covered(S[Number(t[x])])))
    BY <1>2 DEF CrcsTrue
  <2>2. \A x, y \in 1..Len(t) : x < y /\ IsCrc(t[x]) /\ IsCrc(t[y]) => Number(t[x]) < Number(t[y])
    BY <1>2, <1>3 DEF CrcsTrue
  <2> QED BY <2>1, <2>2 DEF CrcsTrue
<1>5. OutTrue(S, t, out, n)
  <2>1. \A d \in 1..Len(out), x \in 1..Len(t) : IsCrc(t[x]) => out[d][4].v < Number(t[x])
    BY <1>2 DEF OutTrue
  <2> QED BY <2>1 DEF OutTrue
<1> QED BY <1>4, <1>5

\* What a receiver takes for a frame ends with the CRC of one that was sent, and so it is
\* that frame from LEN on.
IsTheFrame(S, q, n, m) ==
  /\ IsCrc(q[m]) /\ Number(q[m]) \in 1..n /\ Len(S[Number(q[m])]) = m
  /\ Body(SubSeq(q, 1, m)) = Body(S[Number(q[m])]) /\ SubSeq(q, 1, m)[4].v = Number(q[m])
  /\ IsSeq(SubSeq(q, 1, m)) /\ Len(SubSeq(q, 1, m)) = m
  /\ \A x \in 1..m : SubSeq(q, 1, m)[x] = q[x] /\ (x >= 3 => q[x] = S[Number(q[m])][x])

LEMMA TakenIsSent ==
  ASSUME NEW S, NEW q, IsSeq(q), NEW n \in Nat, CrcsTrue(S, q, n),
         AreFrames(S, n), NEW m, Taken(q, m)
  PROVE  IsTheFrame(S, q, n, m)
<1> DEFINE j == Number(q[m])
<1> DEFINE f == S[j]
<1> DEFINE g == SubSeq(q, 1, m)
<1>1. m \in MIN_LEN..Len(q) /\ q[m] = Crc(SubSeq(q, 3, m - 1)) /\ Len(q) \in Nat /\ MIN_LEN = 5 /\ m \in 1..Len(q) /\ m \in Nat
  BY LenIsNat, Limits DEF Taken
<1>2. IsCrc(q[m])
  BY <1>1, BytesAre
<1>3. j \in 1..n /\ q[m] = Crc(Covered(f))
  BY <1>1, <1>2 DEF CrcsTrue
<1>4. IsFrame(f, j)
  BY <1>3 DEF AreFrames
<1> HIDE DEF j, f
<1>5. /\ IsSeq(f) /\ Len(f) \in Nat /\ Len(f) >= 5 /\ f[Len(f)] = Crc(Covered(f)) /\ f[4].v = j
  BY <1>4, Limits DEF IsFrame
<1>6. SubSeq(q, 3, m - 1) = SubSeq(f, 3, Len(f) - 1)
  <2>1. \A a, b : Crc(a) = Crc(b) => a = b
    BY DEF Crc, Byte
  <2> QED BY <1>1, <1>3, <2>1, Zenon DEF Covered
<1>7. /\ Len(SubSeq(q, 3, m - 1)) = m - 1 - 3 + 1
      /\ \A x \in 1..m - 1 - 3 + 1 : SubSeq(q, 3, m - 1)[x] = q[3 + x - 1]
  <2>1. 3 \in 1..Len(q) + 1 /\ m - 1 \in 3 - 1..Len(q)
    BY <1>1
  <2> QED BY <2>1, SlicedSeq
<1>8. /\ Len(SubSeq(f, 3, Len(f) - 1)) = Len(f) - 1 - 3 + 1
      /\ \A x \in 1..Len(f) - 1 - 3 + 1 : SubSeq(f, 3, Len(f) - 1)[x] = f[3 + x - 1]
  <2>1. 3 \in 1..Len(f) + 1 /\ Len(f) - 1 \in 3 - 1..Len(f)
    BY <1>5
  <2> QED BY <1>5, <2>1, SlicedSeq
<1>9. Len(f) = m
  BY <1>1, <1>5, <1>6, <1>7, <1>8
<1>10. \A x \in 3..m : q[x] = f[x]
  <2> TAKE x \in 3..m
  <2>1. CASE x = m
    BY <1>3, <1>5, <1>9, <2>1
  <2>2. CASE x # m
    <3>1. x - 2 \in 1..m - 1 - 3 + 1 /\ 3 + (x - 2) - 1 = x /\ x - 2 \in 1..Len(f) - 1 - 3 + 1
      BY <1>1, <1>9, <2>2
    <3>2. SubSeq(q, 3, m - 1)[x - 2] = q[x] /\ SubSeq(f, 3, Len(f) - 1)[x - 2] = f[x]
      BY <1>7, <1>8, <3>1
    <3> QED BY <1>6, <3>2
  <2> QED BY <2>1, <2>2
<1>11. IsSeq(g) /\ Len(g) = m /\ \A x \in 1..m : g[x] = q[x]
  <2>1. 1 \in 1..Len(q) + 1 /\ m \in 1 - 1..Len(q) /\ m - 1 + 1 = m
    BY <1>1
  <2>2. IsSeq(g) /\ Len(g) = m - 1 + 1 /\ \A x \in 1..m - 1 + 1 : g[x] = q[1 + x - 1]
    BY <2>1, SlicedSeq
  <2>3. \A x \in 1..m : 1 + x - 1 = x
    BY <1>1
  <2> HIDE DEF g
  <2> QED BY <2>1, <2>2, <2>3
<1> HIDE DEF g
<1>12. Body(g) = Body(f)
  <2>1. 3 \in 1..m + 1 /\ m \in 3 - 1..m /\ m - 3 + 1 = m - 2
    BY <1>1
  <2>2. /\ IsSeq(Body(g)) /\ Len(Body(g)) = m - 2 /\ \A x \in 1..m - 2 : Body(g)[x] = g[3 + x - 1]
    BY <1>11, <2>1, SlicedSeq DEF Body
  <2>3. /\ IsSeq(Body(f)) /\ Len(Body(f)) = m - 2 /\ \A x \in 1..m - 2 : Body(f)[x] = f[3 + x - 1]
    BY <1>5, <1>9, <2>1, SlicedSeq DEF Body
  <2>4. \A x \in 1..m - 2 : g[3 + x - 1] = f[3 + x - 1]
    <3> TAKE x \in 1..m - 2
    <3>1. 3 + x - 1 \in 3..m /\ 3 + x - 1 \in 1..m
      BY <1>1
    <3> QED BY <1>10, <1>11, <3>1
  <2> QED BY <2>2, <2>3, <2>4, SameSeq
<1>13. g[4].v = j
  <2>1. 4 \in 3..m /\ 4 \in 1..m
    BY <1>1
  <2> QED BY <1>5, <1>10, <1>11, <2>1
<1>14. \A x \in 1..m : g[x] = q[x] /\ (x >= 3 => q[x] = f[x])
  <2>1. \A x \in 1..m : x >= 3 => x \in 3..m
    BY <1>1
  <2> QED BY <1>10, <1>11, <2>1
<1> QED BY <1>2, <1>3, <1>9, <1>11, <1>12, <1>13, <1>14 DEF j, f, g, IsTheFrame

LEMMA TakenTrue ==
  ASSUME NEW S, NEW q, IsSeq(q), NEW out, IsSeq(out), NEW n \in Nat, CrcsTrue(S, q, n), OutTrue(S, q, out, n),
         AreFrames(S, n), NEW m, Taken(q, m), NEW t, IsRest(t, q, m)
  PROVE  CrcsTrue(S, t, n) /\ OutTrue(S, t, Append(out, SubSeq(q, 1, m)), n)
<1>0. IsCrc(q[m]) /\ Number(q[m]) \in 1..n /\ Body(SubSeq(q, 1, m)) = Body(S[Number(q[m])])
      /\ SubSeq(q, 1, m)[4].v = Number(q[m])
  <2>1. IsTheFrame(S, q, n, m)
    BY TakenIsSent
  <2> QED BY <2>1 DEF IsTheFrame
<1> DEFINE g == SubSeq(q, 1, m)
<1> DEFINE o == Append(out, g)
<1>1. Len(q) \in Nat /\ m \in 1..Len(q) /\ m \in 0..Len(q)
  BY LenIsNat, Limits DEF Taken
<1>2. IsCrc(q[m]) /\ Number(q[m]) \in 1..n /\ Body(g) = Body(S[Number(q[m])]) /\ g[4].v = Number(q[m])
  BY <1>0
<1> HIDE DEF g
<1>3. CrcsTrue(S, t, n) /\ OutTrue(S, t, out, n)
  BY <1>1, RestTrue
<1>4. Len(o) = Len(out) + 1 /\ Len(out) \in Nat /\ \A i \in 1..Len(out) + 1 : o[i] = IF i <= Len(out) THEN out[i] ELSE g
  BY Appended, LenIsNat
<1> HIDE DEF o
<1>5. \A d \in 1..Len(o) : IF d <= Len(out) THEN d \in 1..Len(out) /\ o[d] = out[d] ELSE o[d] = g
  BY <1>4
<1>6. \A d \in 1..Len(o) : o[d][4].v \in 1..n /\ Body(o[d]) = Body(S[o[d][4].v])
  BY <1>2, <1>3, <1>5 DEF OutTrue
<1>7. ASSUME NEW d \in 1..Len(o), NEW e \in 1..Len(o), d < e PROVE o[d][4].v < o[e][4].v
  <2>1. d <= Len(out) /\ d \in 1..Len(out) /\ o[d] = out[d]
    BY <1>4, <1>5, <1>7
  <2>2. CASE e <= Len(out)
    BY <1>3, <1>5, <1>7, <2>1, <2>2 DEF OutTrue
  <2>3. CASE ~(e <= Len(out))
    <3>1. o[e][4].v = Number(q[m])
      BY <1>2, <1>5, <2>3
    <3>2. out[d][4].v < Number(q[m])
      BY <1>1, <1>2, <2>1 DEF OutTrue
    <3> QED BY <2>1, <3>1, <3>2
  <2> QED BY <2>2, <2>3
<1>8. ASSUME NEW d \in 1..Len(o), NEW x \in 1..Len(t), IsCrc(t[x]) PROVE o[d][4].v < Number(t[x])
  <2>1. CASE d <= Len(out)
    BY <1>3, <1>5, <1>8, <2>1 DEF OutTrue
  <2>2. CASE ~(d <= Len(out))
    <3>1. x + m \in 1..Len(q) /\ t[x] = q[x + m] /\ m < x + m
      BY <1>1 DEF IsRest
    <3>2. Number(q[m]) < Number(q[x + m])
      BY <1>1, <1>2, <1>8, <3>1 DEF CrcsTrue
    <3> QED BY <1>2, <1>5, <2>2, <3>1, <3>2
  <2> QED BY <2>1, <2>2
<1>9. OutTrue(S, t, o, n)
  BY <1>6, <1>7, <1>8 DEF OutTrue
<1> QED BY <1>3, <1>9 DEF o, g

\* What a step does to the bytes that wait: the first of q are taken off, perhaps as a frame.
ReadsFrom(q, m) ==
  /\ IsRest(Stream', q, m)
  /\ \/ dispatched' = dispatched
     \/ dispatched' = Append(dispatched, SubSeq(q, 1, m)) /\ Taken(q, m)
Reads(q) == \E m \in 0..Len(q) : ReadsFrom(q, m)

LEMMA SameIsReads == ASSUME IsSeq(Stream), Stream' = Stream, dispatched' = dispatched PROVE Reads(Stream)
<1>1. ReadsFrom(Stream, 0) /\ 0 \in 0..Len(Stream)
  BY NoneIsRest DEF ReadsFrom
<1> QED BY <1>1 DEF Reads

LEMMA StreamIs ==
  ASSUME HeldShape
  PROVE  /\ IsSeq(Stream) /\ Len(Stream) = Len(accum) + Len(rx_ring) /\ Len(accum) \in Nat /\ Len(rx_ring) \in Nat
         /\ Len(Stream) \in Nat
         /\ \A i \in 1..Len(accum) + Len(rx_ring) :
              Stream[i] = IF i <= Len(accum) THEN accum[i] ELSE rx_ring[i - Len(accum)]
BY Joined, LenIsNat DEF HeldShape, Stream

LEMMA ReadsTrue ==
  ASSUME NEW q, IsSeq(q), Reads(q), IsSeq(dispatched), NEW S, NEW n \in Nat,
         CrcsTrue(S, q, n), OutTrue(S, q, dispatched, n), AreFrames(S, n)
  PROVE  CrcsTrue(S, Stream', n) /\ OutTrue(S, Stream', dispatched', n) /\ IsSeq(dispatched')
<1>1. PICK m \in 0..Len(q) : ReadsFrom(q, m)
  BY DEF Reads
<1>2. IsRest(Stream', q, m)
  BY <1>1 DEF ReadsFrom
<1>3. CASE dispatched' = dispatched
  <2>1. CrcsTrue(S, Stream', n) /\ OutTrue(S, Stream', dispatched, n)
    BY <1>2, RestTrue
  <2> QED BY <1>3, <2>1
<1>4. CASE dispatched' = Append(dispatched, SubSeq(q, 1, m)) /\ Taken(q, m)
  <2>1. CrcsTrue(S, Stream', n) /\ OutTrue(S, Stream', Append(dispatched, SubSeq(q, 1, m)), n)
    BY <1>2, <1>4, TakenTrue
  <2>2. IsSeq(Append(dispatched, SubSeq(q, 1, m)))
    BY Appended
  <2> QED BY <1>4, <2>1, <2>2
<1> QED BY <1>1, <1>3, <1>4 DEF ReadsFrom

\* The charger's receiver keeps every byte until it has looked at it: CommsPoll never finds
\* the buffer full.
LEMMA PollKeeps == ASSUME HeldShape, CommsPoll PROVE HeldShape' /\ Stream' = Stream /\ dispatched' = dispatched
<1> DEFINE n == Min({Len(rx_ring), FRAME_MAX - Len(accum)})
<1> DEFINE head == SubSeq(rx_ring, 1, n)
<1> DEFINE rest == SubSeq(rx_ring, n + 1, Len(rx_ring))
<1> DEFINE buf == accum \o head
<1>1. /\ IsSeq(accum) /\ IsSeq(rx_ring) /\ Len(accum) \in Nat /\ Len(rx_ring) \in Nat /\ FRAME_MAX \in Nat
      /\ end = "mcu" /\ Len(accum) <= FRAME_MAX
  BY LenIsNat, Limits DEF HeldShape, CommsPoll
<1>2. n \in 0..Len(rx_ring) /\ n <= FRAME_MAX - Len(accum)
  <2> DEFINE T == {Len(rx_ring), FRAME_MAX - Len(accum)}
  <2>1. T \in SUBSET Nat /\ T # {} /\ Len(rx_ring) \in T /\ FRAME_MAX - Len(accum) \in T
    BY <1>1
  <2>2. Min(T) \in T /\ \A x \in T : Min(T) <= x
    BY <2>1, MinExists
  <2>3. Min(T) <= Len(rx_ring) /\ Min(T) <= FRAME_MAX - Len(accum) /\ Min(T) \in Nat
    BY <2>1, <2>2
  <2> QED BY <1>1, <2>3
<1>3. /\ rx_ring' = rest /\ accum' = IF tlv_parse(buf) = 0 /\ Len(buf) = FRAME_MAX THEN <<>> ELSE buf
      /\ end' = end /\ dispatched' = dispatched
  BY DEF CommsPoll
<1> HIDE DEF n
<1>4. IsSeq(head) /\ Len(head) = n /\ \A i \in 1..n : head[i] = rx_ring[i]
  <2>1. 1 \in 1..Len(rx_ring) + 1 /\ n \in 1 - 1..Len(rx_ring) /\ n - 1 + 1 = n
    BY <1>1, <1>2
  <2>2. IsSeq(head) /\ Len(head) = n - 1 + 1 /\ \A i \in 1..n - 1 + 1 : head[i] = rx_ring[1 + i - 1]
    BY <1>1, <2>1, SlicedSeq
  <2>3. \A i \in 1..n : 1 + i - 1 = i
    BY <1>1, <1>2
  <2> HIDE DEF head
  <2> QED BY <2>1, <2>2, <2>3
<1>5. IsSeq(rest) /\ Len(rest) = Len(rx_ring) - n /\ \A i \in 1..Len(rx_ring) - n : rest[i] = rx_ring[i + n]
  BY <1>1, <1>2, SuffixIsRest DEF IsRest
<1> HIDE DEF head, rest
<1>6. /\ IsSeq(buf) /\ Len(buf) = Len(accum) + n
      /\ \A i \in 1..Len(accum) + n : buf[i] = IF i <= Len(accum) THEN accum[i] ELSE head[i - Len(accum)]
  <2>1. /\ IsSeq(buf) /\ Len(buf) = Len(accum) + Len(head)
        /\ \A i \in 1..Len(accum) + Len(head) : buf[i] = IF i <= Len(accum) THEN accum[i] ELSE head[i - Len(accum)]
    BY <1>1, <1>4, Joined
  <2> HIDE DEF buf
  <2> QED BY <1>4, <2>1
<1> HIDE DEF buf
<1>7. accum' = buf
  <2>1. ~(tlv_parse(buf) = 0 /\ Len(buf) = FRAME_MAX)
    <3>1. tlv_parse(buf) = 0 => Len(buf) < FRAME_MAX
      BY <1>6, ParseOf
    <3> QED BY <1>1, <3>1
  <2> QED BY <1>3, <2>1
<1>8. HeldShape'
  <2>1. Len(buf) <= FRAME_MAX
    BY <1>1, <1>2, <1>6
  <2> QED BY <1>1, <1>3, <1>5, <1>6, <1>7, <2>1 DEF HeldShape
<1>9. Stream' = Stream
  <2>1. /\ IsSeq(Stream) /\ Len(Stream) = Len(accum) + Len(rx_ring)
        /\ \A i \in 1..Len(accum) + Len(rx_ring) :
              Stream[i] = IF i <= Len(accum) THEN accum[i] ELSE rx_ring[i - Len(accum)]
    BY StreamIs
  <2>2. Stream' = buf \o rest
    BY <1>3, <1>7 DEF Stream
  <2> DEFINE q == buf \o rest
  <2>3. /\ IsSeq(q) /\ Len(q) = Len(buf) + Len(rest)
        /\ \A i \in 1..Len(buf) + Len(rest) : q[i] = IF i <= Len(buf) THEN buf[i] ELSE rest[i - Len(buf)]
    BY <1>5, <1>6, Joined
  <2> HIDE DEF q
  <2>4. Len(q) = Len(Stream)
    BY <1>1, <1>2, <1>5, <1>6, <2>1, <2>3
  <2>5. ASSUME NEW i \in 1..Len(q) PROVE q[i] = Stream[i]
    <3>1. i \in 1..Len(accum) + Len(rx_ring) /\ i \in 1..Len(buf) + Len(rest)
      BY <2>1, <2>3, <2>4
    <3>2. CASE i <= Len(accum)
      <4>1. i <= Len(buf) /\ i \in 1..Len(accum) + n
        BY <1>1, <1>2, <1>6, <3>1, <3>2
      <4> QED BY <1>6, <2>1, <2>3, <3>1, <3>2, <4>1
    <3>3. CASE ~(i <= Len(accum)) /\ i <= Len(accum) + n
      <4>1. i \in 1..Len(accum) + n /\ i - Len(accum) \in 1..n /\ i <= Len(buf)
        BY <1>1, <1>2, <1>6, <3>1, <3>3
      <4> QED BY <1>4, <1>6, <2>1, <2>3, <3>1, <3>3, <4>1
    <3>4. CASE ~(i <= Len(accum) + n)
      <4>1. i - Len(buf) \in 1..Len(rx_ring) - n /\ i - Len(buf) + n = i - Len(accum) /\ ~(i <= Len(buf)) /\ ~(i <= Len(accum))
        BY <1>1, <1>2, <1>6, <1>5, <3>1, <3>4
      <4>2. q[i] = rest[i - Len(buf)] /\ Stream[i] = rx_ring[i - Len(accum)]
        BY <2>1, <2>3, <3>1, <4>1
      <4>3. rest[i - Len(buf)] = rx_ring[i - Len(buf) + n]
        BY <1>5, <4>1
      <4> QED BY <4>1, <4>2, <4>3
    <3> QED BY <3>2, <3>3, <3>4
  <2>6. q = Stream
    BY <2>1, <2>3, <2>4, <2>5, SameSeq
  <2> QED BY <2>2, <2>6 DEF q
<1> QED BY <1>3, <1>8, <1>9

LEMMA SliceOfAccum ==
  ASSUME HeldShape, NEW a \in 1..Len(accum) + 1, NEW b \in a - 1..Len(accum)
  PROVE  SubSeq(Stream, a, b) = SubSeq(accum, a, b)
<1>1. /\ IsSeq(Stream) /\ Len(Stream) = Len(accum) + Len(rx_ring) /\ Len(accum) \in Nat /\ Len(rx_ring) \in Nat
      /\ \A i \in 1..Len(accum) + Len(rx_ring) : Stream[i] = IF i <= Len(accum) THEN accum[i] ELSE rx_ring[i - Len(accum)]
  BY StreamIs
<1>2. IsSeq(accum)
  BY DEF HeldShape
<1>3. a \in 1..Len(Stream) + 1 /\ b \in a - 1..Len(Stream)
  BY <1>1
<1>4. /\ IsSeq(SubSeq(Stream, a, b)) /\ Len(SubSeq(Stream, a, b)) = b - a + 1
      /\ \A i \in 1..b - a + 1 : SubSeq(Stream, a, b)[i] = Stream[a + i - 1]
  BY <1>1, <1>3, SlicedSeq
<1>5. /\ IsSeq(SubSeq(accum, a, b)) /\ Len(SubSeq(accum, a, b)) = b - a + 1
      /\ \A i \in 1..b - a + 1 : SubSeq(accum, a, b)[i] = accum[a + i - 1]
  BY <1>2, SlicedSeq
<1>6. \A i \in 1..b - a + 1 : Stream[a + i - 1] = accum[a + i - 1]
  <2> TAKE i \in 1..b - a + 1
  <2>1. a + i - 1 \in 1..Len(accum) + Len(rx_ring) /\ a + i - 1 <= Len(accum)
    BY <1>1
  <2> QED BY <1>1, <2>1
<1> QED BY <1>4, <1>5, <1>6, SameSeq

\* The first m bytes of the buffer are taken off.
LEMMA TakenOff ==
  ASSUME HeldShape, NEW m \in 0..Len(accum), IsRest(accum', accum, m), rx_ring' = rx_ring
  PROVE  IsRest(Stream', Stream, m) /\ m \in 0..Len(Stream)
<1>1. /\ IsSeq(Stream) /\ Len(Stream) = Len(accum) + Len(rx_ring) /\ Len(accum) \in Nat /\ Len(rx_ring) \in Nat
      /\ \A i \in 1..Len(accum) + Len(rx_ring) : Stream[i] = IF i <= Len(accum) THEN accum[i] ELSE rx_ring[i - Len(accum)]
  BY StreamIs
<1>2. IsSeq(accum') /\ Len(accum') = Len(accum) - m /\ \A i \in 1..Len(accum) - m : accum'[i] = accum[i + m]
  BY DEF IsRest
<1>3. IsSeq(rx_ring)
  BY DEF HeldShape
<1>4. Stream' = accum' \o rx_ring
  BY DEF Stream
<1>5. /\ IsSeq(Stream') /\ Len(Stream') = Len(accum') + Len(rx_ring)
      /\ \A i \in 1..Len(accum') + Len(rx_ring) :
           Stream'[i] = IF i <= Len(accum') THEN accum'[i] ELSE rx_ring[i - Len(accum')]
  BY <1>2, <1>3, <1>4, Joined
<1>6. m \in 0..Len(Stream) /\ Len(Stream') = Len(Stream) - m
  BY <1>1, <1>2, <1>5
<1>7. ASSUME NEW i \in 1..Len(Stream) - m PROVE Stream'[i] = Stream[i + m]
  <2>1. i \in 1..Len(accum') + Len(rx_ring) /\ i + m \in 1..Len(accum) + Len(rx_ring)
    BY <1>1, <1>2
  <2>2. CASE i <= Len(accum')
    <3>1. i \in 1..Len(accum) - m /\ i + m <= Len(accum)
      BY <1>1, <1>2, <2>1, <2>2
    <3> QED BY <1>1, <1>2, <1>5, <2>1, <2>2, <3>1
  <2>3. CASE ~(i <= Len(accum'))
    <3>1. ~(i + m <= Len(accum)) /\ i - Len(accum') = i + m - Len(accum)
      BY <1>1, <1>2, <2>1, <2>3
    <3> QED BY <1>1, <1>5, <2>1, <2>3, <3>1
  <2> QED BY <2>2, <2>3
<1> QED BY <1>5, <1>6, <1>7 DEF IsRest

LEMMA ParseReads ==
  ASSUME HeldShape, CommsParse
  PROVE  /\ HeldShape' /\ Reads(Stream) /\ end = "mcu"
         /\ \E m \in 1..Len(accum) :
              /\ ReadsFrom(Stream, m)
              /\ (dispatched' = dispatched /\ m = 1 /\ tlv_parse(accum) = -1)
                 \/ (/\ dispatched' = Append(dispatched, SubSeq(Stream, 1, m)) /\ Taken(Stream, m)
                     /\ Stream[1] = SOF0 /\ Stream[2] = SOF1)
<1> DEFINE n == tlv_parse(accum)
<1>1. /\ end = "mcu" /\ n # 0 /\ rx_ring' = rx_ring /\ end' = end /\ IsSeq(accum) /\ IsSeq(dispatched)
      /\ IF n > 0 THEN /\ accum' = SubSeq(accum, n + 1, Len(accum))
                       /\ dispatched' = Append(dispatched, SubSeq(accum, 1, n))
         ELSE accum' = Tail(accum) /\ dispatched' = dispatched
  BY DEF CommsParse, HeldShape, Resync
<1>2. /\ IsSeq(Stream) /\ Len(Stream) = Len(accum) + Len(rx_ring) /\ Len(accum) \in Nat /\ Len(rx_ring) \in Nat
      /\ \A i \in 1..Len(accum) + Len(rx_ring) : Stream[i] = IF i <= Len(accum) THEN accum[i] ELSE rx_ring[i - Len(accum)]
  BY StreamIs
<1>3. \/ n = -1 /\ Len(accum) >= 5
      \/ n > 0 /\ Taken(accum, n) /\ accum[1] = SOF0 /\ accum[2] = SOF1
  BY <1>1, ParseOf, Limits
<1> HIDE DEF n
<1> SUFFICES \E m \in 1..Len(accum) :
               /\ IsRest(accum', accum, m) /\ ReadsFrom(Stream, m) /\ IsSeq(dispatched')
               /\ (dispatched' = dispatched /\ m = 1 /\ n = -1)
                  \/ (/\ dispatched' = Append(dispatched, SubSeq(Stream, 1, m)) /\ Taken(Stream, m)
                      /\ Stream[1] = SOF0 /\ Stream[2] = SOF1)
  <2>1. PICK m \in 1..Len(accum) :
               /\ IsRest(accum', accum, m) /\ ReadsFrom(Stream, m) /\ IsSeq(dispatched')
               /\ (dispatched' = dispatched /\ m = 1 /\ n = -1)
                  \/ (/\ dispatched' = Append(dispatched, SubSeq(Stream, 1, m)) /\ Taken(Stream, m)
                      /\ Stream[1] = SOF0 /\ Stream[2] = SOF1)
    OBVIOUS
  <2>2. m \in 0..Len(Stream)
    BY <1>2
  <2>3. Reads(Stream)
    BY <2>1, <2>2 DEF Reads
  <2>4. IsSeq(accum') /\ Len(accum') <= FRAME_MAX
    <3>1. IsSeq(accum') /\ Len(accum') = Len(accum) - m
      BY <2>1 DEF IsRest
    <3>2. Len(accum) <= FRAME_MAX /\ FRAME_MAX \in Nat
      BY <1>1, Limits DEF HeldShape
    <3> QED BY <1>2, <3>1, <3>2
  <2>5. HeldShape'
    BY <1>1, <2>1, <2>4 DEF HeldShape
  <2> QED BY <1>1, <2>1, <2>3, <2>5 DEF n
<1>4. CASE n = -1 /\ Len(accum) >= 5
  <2>1. accum # <<>> /\ 1 \in 1..Len(accum) /\ 1 \in 0..Len(accum)
    BY <1>2, <1>4, EmptyIsSeq
  <2>2. accum' = Tail(accum) /\ dispatched' = dispatched
    BY <1>1, <1>4
  <2>3. IsRest(accum', accum, 1)
    BY <1>1, <2>1, <2>2, TailIsRest
  <2>4. IsRest(Stream', Stream, 1)
    BY <1>1, <2>1, <2>3, TakenOff
  <2>5. ReadsFrom(Stream, 1)
    BY <2>2, <2>4 DEF ReadsFrom
  <2> QED BY <1>1, <1>4, <2>1, <2>2, <2>3, <2>5
<1>5. CASE n > 0 /\ Taken(accum, n) /\ accum[1] = SOF0 /\ accum[2] = SOF1
  <2>1. n \in 5..Len(accum) /\ n \in 1..Len(accum) /\ n \in 0..Len(accum) /\ accum[n] = Crc(SubSeq(accum, 3, n - 1))
        /\ n \in MIN_LEN..Len(Stream)
    BY <1>2, <1>5, Limits DEF Taken
  <2>2. IsRest(accum', accum, n)
    BY <1>1, <1>5, <2>1, SuffixIsRest
  <2>3. IsRest(Stream', Stream, n)
    BY <1>1, <2>1, <2>2, TakenOff
  <2>4. SubSeq(Stream, 1, n) = SubSeq(accum, 1, n) /\ SubSeq(Stream, 3, n - 1) = SubSeq(accum, 3, n - 1)
    <3>1. 1 \in 1..Len(accum) + 1 /\ n \in 1 - 1..Len(accum) /\ 3 \in 1..Len(accum) + 1 /\ n - 1 \in 3 - 1..Len(accum)
      BY <1>2, <2>1
    <3> QED BY <3>1, SliceOfAccum
  <2>5. Stream[n] = accum[n] /\ Stream[1] = accum[1] /\ Stream[2] = accum[2]
    <3>1. /\ n \in 1..Len(accum) + Len(rx_ring) /\ 1 \in 1..Len(accum) + Len(rx_ring) /\ 2 \in 1..Len(accum) + Len(rx_ring)
          /\ n <= Len(accum) /\ 1 <= Len(accum) /\ 2 <= Len(accum)
      BY <1>2, <2>1
    <3> QED BY <1>2, <3>1
  <2>6. Taken(Stream, n)
    BY <2>1, <2>4, <2>5 DEF Taken
  <2>7. dispatched' = Append(dispatched, SubSeq(Stream, 1, n)) /\ IsSeq(dispatched')
    <3>1. dispatched' = Append(dispatched, SubSeq(accum, 1, n))
      BY <1>1, <1>5
    <3> QED BY <1>1, <2>4, <3>1, Appended
  <2>8. ReadsFrom(Stream, n)
    BY <2>3, <2>6, <2>7 DEF ReadsFrom
  <2> QED BY <1>5, <2>1, <2>2, <2>5, <2>6, <2>7, <2>8
<1> QED BY <1>3, <1>4, <1>5

\* What a byte does that arrives, at either end.
LEMMA ReceiveReads ==
  ASSUME HeldShape, NEW b, b.v \in Nat, \A x \in 1..Len(Stream) : Stream[x].v \in Nat, Receive(b), end' = end
  PROVE  /\ HeldShape' /\ (Reads(Stream) \/ Reads(Append(Stream, b)))
         /\ end = "mcu" => /\ dispatched' = dispatched
                           /\ Stream' = IF Len(rx_ring) < RING_LEN - 1 THEN Append(Stream, b) ELSE Stream
<1> DEFINE q == Append(Stream, b)
<1>1. /\ IsSeq(Stream) /\ Len(Stream) = Len(accum) + Len(rx_ring) /\ Len(accum) \in Nat /\ Len(rx_ring) \in Nat
      /\ \A i \in 1..Len(accum) + Len(rx_ring) : Stream[i] = IF i <= Len(accum) THEN accum[i] ELSE rx_ring[i - Len(accum)]
  BY StreamIs
<1>2. IsSeq(accum) /\ IsSeq(rx_ring) /\ IsSeq(dispatched)
  BY DEF HeldShape
<1>3. IsSeq(q)
  BY <1>1, Appended
<1>4. CASE end = "mcu" /\ Len(rx_ring) < RING_LEN - 1
  <2>1. rx_ring' = Append(rx_ring, b) /\ accum' = accum /\ dispatched' = dispatched
    BY <1>4 DEF Receive
  <2>2. Stream' = q
    <3>1. Stream' = accum \o Append(rx_ring, b)
      BY <2>1 DEF Stream
    <3>2. Append(rx_ring, b) = rx_ring \o <<b>> /\ q = Stream \o <<b>>
      BY <1>1, <1>2, OneMore
    <3>3. accum \o (rx_ring \o <<b>>) = (accum \o rx_ring) \o <<b>>
      <4>1. PICK S : accum \in Seq(S)
        BY <1>2 DEF IsSeq
      <4>2. PICK T : rx_ring \in Seq(T)
        BY <1>2 DEF IsSeq
      <4>3. accum \in Seq(S \cup T \cup {b}) /\ rx_ring \in Seq(S \cup T \cup {b}) /\ <<b>> \in Seq(S \cup T \cup {b})
        <5>1. S \subseteq S \cup T \cup {b} /\ T \subseteq S \cup T \cup {b} /\ b \in S \cup T \cup {b}
          OBVIOUS
        <5>2. accum \in Seq(S \cup T \cup {b}) /\ rx_ring \in Seq(S \cup T \cup {b})
          BY <4>1, <4>2, <5>1, SeqMonotonic
        <5> QED BY <5>1, <5>2
      <4> QED BY <4>3, ConcatAssociative
    <3> QED BY <3>1, <3>2, <3>3 DEF Stream
  <2>3. IsSeq(rx_ring')
    BY <1>2, <2>1, Appended
  <2>4. HeldShape'
    BY <1>4, <2>1, <2>3 DEF HeldShape
  <2>5. Reads(q)
    <3>1. ReadsFrom(q, 0) /\ 0 \in 0..Len(q)
      BY <1>3, <2>1, <2>2, NoneIsRest DEF ReadsFrom
    <3> QED BY <3>1 DEF Reads
  <2> QED BY <1>4, <2>1, <2>2, <2>4, <2>5
<1>5. CASE end = "mcu" /\ ~(Len(rx_ring) < RING_LEN - 1)
  <2>1. rx_ring' = rx_ring /\ accum' = accum /\ dispatched' = dispatched
    BY <1>5 DEF Receive
  <2>2. Stream' = Stream
    BY <2>1 DEF Stream
  <2>3. HeldShape'
    BY <2>1 DEF HeldShape
  <2> QED BY <1>1, <1>5, <2>1, <2>2, <2>3, SameIsReads
<1>6. CASE end # "mcu"
  <2> DEFINE r == process_byte(accum, b)
  <2>1. accum' = r.buf /\ dispatched' = dispatched \o r.out /\ rx_ring' = rx_ring /\ rx_ring = <<>>
    BY <1>6 DEF Receive, HeldShape
  <2>2. Stream = accum
    BY <1>2, <2>1, OneMore DEF Stream
  <2>3. Leaves(r, q)
    BY <1>2, <2>2, ProcessByteLeaves
  <2> HIDE DEF r, q
  <2>4. PICK m \in 0..Len(q) : LeavesFrom(r, q, m)
    BY <2>3 DEF Leaves
  <2>5. IsRest(r.buf, q, m) /\ (r.out = <<>> \/ (r.out = <<SubSeq(q, 1, m)>> /\ Taken(q, m)))
    BY <2>4 DEF LeavesFrom
  <2>6. IsSeq(accum')
    BY <2>1, <2>5 DEF IsRest
  <2>7. Stream' = accum'
    <3>1. Stream' = accum' \o <<>>
      BY <2>1 DEF Stream
    <3> QED BY <2>6, <3>1, OneMore
  <2>8. ReadsFrom(q, m) /\ IsSeq(dispatched')
    <3>1. IsRest(Stream', q, m)
      BY <2>1, <2>5, <2>7
    <3>2. CASE r.out = <<>>
      <4>1. dispatched' = dispatched
        BY <1>2, <2>1, <3>2, OneMore
      <4> QED BY <1>2, <3>1, <4>1 DEF ReadsFrom
    <3>3. CASE r.out = <<SubSeq(q, 1, m)>> /\ Taken(q, m)
      <4>1. dispatched' = dispatched \o <<SubSeq(q, 1, m)>>
        BY <2>1, <3>3
      <4>2. dispatched' = Append(dispatched, SubSeq(q, 1, m))
        BY <1>2, <4>1, OneMore
      <4>3. IsSeq(dispatched')
        BY <1>2, <4>2, Appended
      <4> QED BY <3>1, <3>3, <4>2, <4>3 DEF ReadsFrom
    <3> QED BY <2>5, <3>2, <3>3
  <2>9. Reads(q)
    BY <2>8 DEF Reads
  <2>10. HeldShape'
    BY <1>6, <2>1, <2>6, <2>8, EmptyIsSeq DEF HeldShape
  <2> QED BY <1>6, <2>9, <2>10 DEF q
<1> QED BY <1>4, <1>5, <1>6

LastFrame == sent[Len(sent)]

\* One byte goes out: the (k + 1)th of the last frame.
Sends(s, k) ==
  /\ s = tx_mutex /\ sent' = sent /\ Len(sent) \in Nat \ {0} /\ IsFrame(LastFrame, Len(sent))
  /\ k \in 0..Len(LastFrame) - 1 /\ IsRest(tx[s], LastFrame, k) /\ Head(tx[s]) = LastFrame[k + 1]
  /\ Ended = Len(sent) - 1 /\ Ended' = IF k = Len(LastFrame) - 1 THEN Len(sent) ELSE Len(sent) - 1
  /\ k # Len(LastFrame) - 1 => tx_mutex' = s /\ Len(tx'[s]) = Len(LastFrame) - (k + 1)

LEMMA SentSends ==
  ASSUME SentShape, TxShape, NEW s \in Senders, Sent(s)
  PROVE  SentShape' /\ TxShape' /\ \E k \in 0..Len(LastFrame) - 1 : Sends(s, k)
<1> DEFINE f == LastFrame
<1>1. /\ tx[s] # <<>> /\ tx' = [tx EXCEPT ![s] = Tail(tx[s])] /\ sent' = sent
      /\ tx_mutex' = IF Len(tx[s]) = 1 THEN "none" ELSE tx_mutex
  BY DEF Sent
<1>2. /\ s = tx_mutex /\ "none" \notin Senders /\ tx_mutex # "none" /\ sent # <<>>
      /\ tx = [r \in Senders |-> tx[r]] /\ \A r \in Senders : tx[r] # <<>> <=> r = tx_mutex
  BY <1>1, TlvAssumption DEF TxShape
<1>3. PICK k \in 0..Len(f) - 1 : IsRest(tx[s], f, k)
  BY <1>2 DEF TxShape, LastFrame
<1>4. Len(sent) \in Nat \ {0} /\ IsFrame(f, Len(sent))
  <2>1. Len(sent) \in Nat /\ Len(sent) > 0
    BY <1>2, LenIsNat DEF SentShape
  <2>2. Len(sent) \in 1..Len(sent)
    BY <2>1
  <2> QED BY <2>1, <2>2 DEF SentShape, AreFrames, LastFrame
<1>5. IsSeq(f) /\ Len(f) \in Nat /\ Len(f) >= 5
  BY <1>4, Limits DEF IsFrame
<1> HIDE DEF f
<1>6. IsSeq(tx[s]) /\ Len(tx[s]) = Len(f) - k /\ \A i \in 1..Len(f) - k : tx[s][i] = f[i + k]
  BY <1>3 DEF IsRest
<1>7. IsRest(Tail(tx[s]), tx[s], 1) /\ Head(tx[s]) = tx[s][1]
  BY <1>1, <1>6, TailIsRest
<1>8. Head(tx[s]) = f[k + 1]
  <2>1. 1 \in 1..Len(f) - k /\ 1 + k = k + 1
    BY <1>3, <1>5
  <2> QED BY <1>6, <1>7, <2>1
<1> DEFINE u == Tail(tx[s])
<1>9. Len(u) = Len(tx[s]) - 1 /\ IsSeq(u) /\ IsRest(u, tx[s], 1) /\ u = Tail(tx[s])
  BY <1>7 DEF IsRest
<1> HIDE DEF u
<1>10. IsRest(u, f, k + 1)
  <2>1. k \in 0..Len(f) /\ 1 \in 0..Len(tx[s])
    BY <1>3, <1>5, <1>6
  <2> QED BY <1>3, <1>5, <1>9, <2>1, RestOfRest
<1>11. tx' = [r \in Senders |-> IF r = s THEN u ELSE tx[r]]
  BY <1>1, <1>2, <1>9
<1>12. tx'[s] = u /\ \A r \in Senders : r # s => tx'[r] = <<>>
  <2>1. \A r \in Senders : r # s => tx[r] = <<>>
    BY <1>2
  <2> QED BY <1>11, <2>1
<1>13. tx' = [r \in Senders |-> tx'[r]]
  BY <1>11
<1>14. LastFrame' = f
  BY <1>1 DEF LastFrame, f
<1>15. CASE k = Len(f) - 1
  <2>1. Len(tx[s]) = 1 /\ Len(u) = 0
    BY <1>5, <1>6, <1>9, <1>15
  <2>2. tx_mutex' = "none" /\ u = <<>>
    <3>1. u # <<>> => Len(u) > 0
      BY <1>9, LenIsNat
    <3>2. tx_mutex' = "none"
      BY <1>1, <2>1
    <3> QED BY <2>1, <3>1, <3>2
  <2>3. TxShape'
    <3>1. \A r \in Senders : tx'[r] # <<>> <=> r = tx_mutex'
      BY <1>2, <1>12, <2>2
    <3> QED BY <1>13, <2>2, <3>1 DEF TxShape
  <2>4. Ended = Len(sent) - 1 /\ Ended' = Len(sent)
    BY <1>1, <1>2, <2>2 DEF Ended
  <2>5. SentShape'
    BY <1>1 DEF SentShape, AreFrames
  <2>6. Sends(s, k)
    BY <1>1, <1>2, <1>3, <1>4, <1>8, <1>15, <2>4 DEF Sends, f
  <2> QED BY <1>3, <2>3, <2>5, <2>6 DEF f
<1>16. CASE k # Len(f) - 1
  <2>1. Len(tx[s]) # 1 /\ Len(u) # 0 /\ k + 1 \in 0..Len(f) - 1 /\ Len(u) = Len(f) - (k + 1)
    <3>1. k \in 0..Len(f) - 2 /\ Len(tx[s]) = Len(f) - k /\ Len(u) = Len(f) - k - 1
      BY <1>3, <1>5, <1>6, <1>9, <1>16
    <3> QED BY <1>5, <3>1
  <2>2. tx_mutex' = s /\ u # <<>>
    BY <1>1, <1>2, <2>1, EmptyIsSeq
  <2>3. TxShape'
    <3>1. \A r \in Senders : tx'[r] # <<>> <=> r = tx_mutex'
      BY <1>2, <1>12, <2>2
    <3>2. IsRest(tx'[tx_mutex'], sent'[Len(sent')], k + 1) /\ sent' # <<>> /\ k + 1 \in 0..Len(sent'[Len(sent')]) - 1
      BY <1>1, <1>2, <1>10, <1>12, <2>1, <2>2 DEF f, LastFrame
    <3> QED BY <1>2, <1>13, <2>2, <3>1, <3>2 DEF TxShape
  <2>4. Ended = Len(sent) - 1 /\ Ended' = Len(sent) - 1
    BY <1>1, <1>2, <2>2 DEF Ended
  <2>5. SentShape'
    BY <1>1 DEF SentShape, AreFrames
  <2>6. Sends(s, k)
    BY <1>1, <1>2, <1>3, <1>4, <1>8, <1>12, <1>16, <2>1, <2>2, <2>4 DEF Sends, f
  <2> QED BY <1>3, <2>3, <2>5, <2>6 DEF f
<1> QED BY <1>15, <1>16

LEMMA LineInit == TlvInit => LineInv
<1> SUFFICES ASSUME TlvInit PROVE LineInv
  OBVIOUS
<1> USE DEF TlvInit
<1>1. IsSeq(<<>>) /\ Len(<<>>) = 0 /\ FRAME_MAX \in Nat
  BY EmptyIsSeq, Limits
<1>2. Stream = <<>>
  BY <1>1, OneMore DEF Stream
<1>3. SentShape /\ HeldShape
  BY <1>1 DEF SentShape, AreFrames, HeldShape
<1>4. TxShape
  <2>1. tx = [s \in Senders |-> tx[s]]
    OBVIOUS
  <2>2. \A s \in Senders : tx[s] # <<>> <=> s = tx_mutex
    BY TlvAssumption
  <2> QED BY <2>1, <2>2 DEF TxShape
<1>5. CrcsTrue(sent, Stream, Ended) /\ OutTrue(sent, Stream, dispatched, Ended)
  BY <1>1, <1>2 DEF CrcsTrue, OutTrue
<1> QED BY <1>3, <1>4, <1>5 DEF LineInv, TlvShape

LEMMA EndedIs == ASSUME TlvShape PROVE Ended \in Nat /\ Ended <= Len(sent) /\ Len(sent) \in Nat /\ AreFrames(sent, Ended)
<1>1. Len(sent) \in Nat /\ (tx_mutex # "none" => Len(sent) > 0)
  BY LenIsNat DEF TlvShape, SentShape, TxShape
<1>2. Ended \in Nat /\ Ended <= Len(sent)
  BY <1>1 DEF Ended
<1>3. \A i \in 1..Ended : i \in 1..Len(sent)
  BY <1>1, <1>2
<1> QED BY <1>1, <1>2, <1>3 DEF TlvShape, SentShape, AreFrames

\* A frame that is begun changes nothing of what was sent before.
LEMMA BeginKeeps ==
  ASSUME LineInv, NEW s \in Senders, NEW p \in Payloads, SendFrame(s, p)
  PROVE  LineInv' /\ Ended' = Ended /\ Stream' = Stream /\ Len(sent') = Len(sent) + 1
         /\ (\A i \in 1..Len(sent) : sent'[i] = sent[i]) /\ tx'[tx_mutex'] = sent'[Len(sent')] /\ Ended = Len(sent)
         /\ tx_mutex' # "none"
<1> DEFINE f == tlv_build(Len(sent) + 1, p)
<1>1. /\ tx_mutex = "none" /\ tx_mutex' = s /\ sent' = Append(sent, f) /\ tx' = [tx EXCEPT ![s] = f]
      /\ UNCHANGED <<end, rx_ring, accum, dispatched>>
  BY DEF SendFrame
<1>2. TlvShape
  BY DEF LineInv
<1>3. Len(sent) \in Nat /\ IsSeq(sent) /\ Len(sent) + 1 \in Nat
  BY <1>2, LenIsNat DEF TlvShape, SentShape
<1>4. IsFrame(f, Len(sent) + 1)
  BY <1>3, BuildsFrame
<1> HIDE DEF f
<1>5. IsSeq(f) /\ Len(f) \in Nat /\ Len(f) >= 5 /\ f # <<>>
  <2>1. IsSeq(f) /\ Len(f) \in Nat /\ Len(f) >= 5
    BY <1>4, Limits DEF IsFrame
  <2> QED BY <2>1, EmptyIsSeq
<1>6. /\ IsSeq(sent') /\ Len(sent') = Len(sent) + 1
      /\ \A i \in 1..Len(sent) + 1 : sent'[i] = IF i <= Len(sent) THEN sent[i] ELSE f
  BY <1>1, <1>3, Appended
<1>7. sent'[Len(sent')] = f /\ \A i \in 1..Len(sent) : sent'[i] = sent[i]
  <2>1. Len(sent) + 1 \in 1..Len(sent) + 1 /\ ~(Len(sent) + 1 <= Len(sent))
        /\ \A i \in 1..Len(sent) : i \in 1..Len(sent) + 1 /\ i <= Len(sent)
    BY <1>3
  <2> QED BY <1>6, <2>1
<1>8. SentShape'
  <2>1. ASSUME NEW i \in 1..Len(sent') PROVE IsFrame(sent'[i], i)
    <3>1. CASE i <= Len(sent)
      <4>1. i \in 1..Len(sent)
        BY <1>3, <1>6, <3>1
      <4> QED BY <1>2, <1>7, <4>1 DEF TlvShape, SentShape, AreFrames
    <3>2. CASE ~(i <= Len(sent))
      <4>1. i = Len(sent) + 1
        BY <1>3, <1>6, <3>2
      <4> QED BY <1>4, <1>6, <1>7, <4>1
    <3> QED BY <3>1, <3>2
  <2> QED BY <1>6, <2>1 DEF SentShape, AreFrames
<1>9. "none" \notin Senders /\ tx = [r \in Senders |-> tx[r]] /\ \A r \in Senders : tx[r] = <<>>
  BY <1>1, <1>2, TlvAssumption DEF TlvShape, TxShape
<1>10. tx' = [r \in Senders |-> IF r = s THEN f ELSE tx[r]]
  BY <1>1, <1>9
<1>11. tx'[s] = f /\ (\A r \in Senders : r # s => tx'[r] = <<>>) /\ tx' = [r \in Senders |-> tx'[r]]
  BY <1>9, <1>10
<1>12. TxShape'
  <2>1. \A r \in Senders : tx'[r] # <<>> <=> r = tx_mutex'
    BY <1>1, <1>5, <1>11
  <2>2. sent' # <<>> /\ 0 \in 0..Len(sent'[Len(sent')]) - 1 /\ IsRest(tx'[tx_mutex'], sent'[Len(sent')], 0)
    <3>1. sent' # <<>>
      BY <1>3, <1>6, EmptyIsSeq
    <3>2. 0 \in 0..Len(f) - 1 /\ IsRest(f, f, 0)
      BY <1>5, NoneIsRest
    <3> QED BY <1>1, <1>7, <1>11, <3>1, <3>2
  <2> QED BY <1>1, <1>11, <2>1, <2>2 DEF TxShape
<1>13. HeldShape'
  BY <1>1, <1>2 DEF TlvShape, HeldShape
<1>14. Stream' = Stream /\ Ended' = Len(sent) /\ Ended = Len(sent)
  <2>1. Stream' = Stream
    BY <1>1 DEF Stream
  <2>2. Ended' = Len(sent') - 1 /\ Ended = Len(sent)
    BY <1>1, <1>9 DEF Ended
  <2> QED BY <1>3, <1>6, <2>1, <2>2
<1>15. CrcsTrue(sent', Stream, Len(sent)) /\ OutTrue(sent', Stream, dispatched, Len(sent))
  <2>1. CrcsTrue(sent, Stream, Len(sent)) /\ OutTrue(sent, Stream, dispatched, Len(sent))
    BY <1>14 DEF LineInv
  <2>2. CrcsTrue(sent', Stream, Len(sent))
    BY <1>7, <2>1 DEF CrcsTrue
  <2>3. OutTrue(sent', Stream, dispatched, Len(sent))
    BY <1>7, <2>1 DEF OutTrue
  <2> QED BY <2>2, <2>3
<1>16. LineInv'
  BY <1>1, <1>8, <1>12, <1>13, <1>14, <1>15 DEF LineInv, TlvShape
<1> QED BY <1>1, <1>6, <1>7, <1>9, <1>11, <1>14, <1>16

LEMMA WiderTrue ==
  ASSUME NEW S, NEW q, NEW out, NEW n \in Nat, CrcsTrue(S, q, n), OutTrue(S, q, out, n)
  PROVE  CrcsTrue(S, q, n + 1) /\ OutTrue(S, q, out, n + 1)
<1>1. \A j \in 1..n : j \in 1..n + 1
  OBVIOUS
<1>2. CrcsTrue(S, q, n + 1)
  BY <1>1 DEF CrcsTrue
<1>3. OutTrue(S, q, out, n + 1)
  BY <1>1 DEF OutTrue
<1> QED BY <1>2, <1>3

\* What a step does to the frames dispatched, and to both ends.
MayDispatch == dispatched' = dispatched \/ \E f : dispatched' = Append(dispatched, f)
LineMoves ==
  (\E s \in Senders, p \in Payloads : SendFrame(s, p)) \/ (sent' = sent /\ MayDispatch)

LEMMA ReadsDispatch == ASSUME NEW q, Reads(q) PROVE MayDispatch
BY DEF Reads, ReadsFrom, MayDispatch

\* A sender's byte, or what the line makes of it, at the receiver.
LEMMA ByteKeeps ==
  ASSUME LineInv, NEW s \in Senders, Sent(s),
         \/ UNCHANGED <<rx_ring, accum, dispatched>>
         \/ Receive(Noise) \/ Receive(Head(tx[s]))
  PROVE  LineInv' /\ sent' = sent /\ MayDispatch
<1>1. TlvShape /\ SentShape /\ TxShape /\ HeldShape /\ IsSeq(dispatched) /\ end' = end
      /\ CrcsTrue(sent, Stream, Ended) /\ OutTrue(sent, Stream, dispatched, Ended)
  BY DEF LineInv, TlvShape, HeldShape, Sent
<1>2. SentShape' /\ TxShape'
  BY <1>1, SentSends
<1>3. PICK k \in 0..Len(LastFrame) - 1 : Sends(s, k)
  BY <1>1, SentSends
<1> DEFINE b == Head(tx[s])
<1>4. /\ sent' = sent /\ Len(sent) \in Nat \ {0} /\ IsFrame(LastFrame, Len(sent)) /\ b = LastFrame[k + 1]
      /\ Ended = Len(sent) - 1 /\ Ended' = IF k = Len(LastFrame) - 1 THEN Len(sent) ELSE Len(sent) - 1
  BY <1>3 DEF Sends
<1>5. Ended \in Nat /\ Ended' \in Nat /\ Ended' \in {Ended, Ended + 1} /\ Ended + 1 = Len(sent)
  BY <1>4
<1>6. AreFrames(sent, Ended) /\ AreFrames(sent, Ended') /\ IsSeq(Stream)
  <2>1. \A i \in 1..Ended : i \in 1..Len(sent)
    BY <1>4, <1>5
  <2>2. \A i \in 1..Ended' : i \in 1..Len(sent)
    BY <1>4, <1>5
  <2> QED BY <1>1, <2>1, <2>2, StreamIs DEF SentShape, AreFrames
<1>7. b.v \in Nat /\ (k # Len(LastFrame) - 1 => ~IsCrc(b)) /\ (k = Len(LastFrame) - 1 => b = Crc(Covered(LastFrame)))
      /\ Covered(LastFrame)[2].v = Len(sent)
  <2>1. Len(LastFrame) \in Nat
    BY <1>4, Limits DEF IsFrame
  <2>2. k + 1 \in 1..Len(LastFrame) /\ (k # Len(LastFrame) - 1 => k + 1 \in 1..Len(LastFrame) - 1)
        /\ (k = Len(LastFrame) - 1 => k + 1 = Len(LastFrame))
    BY <1>3, <2>1
  <2> QED BY <1>4, <2>2 DEF IsFrame
<1> HIDE DEF b
<1>8. CrcsTrue(sent, Stream, Ended') /\ OutTrue(sent, Stream, dispatched, Ended')
  BY <1>1, <1>5, WiderTrue
<1>9. CrcsTrue(sent, Append(Stream, b), Ended') /\ OutTrue(sent, Append(Stream, b), dispatched, Ended')
  <2>1. CASE k = Len(LastFrame) - 1
    <3>1. Ended' = Ended + 1 /\ sent[Ended + 1] = LastFrame
      BY <1>4, <1>5, <2>1 DEF LastFrame
    <3>2. b = Crc(Covered(sent[Ended + 1])) /\ Covered(sent[Ended + 1])[2].v = Ended + 1
      BY <1>5, <1>7, <2>1, <3>1
    <3>3. CrcsTrue(sent, Append(Stream, b), Ended + 1) /\ OutTrue(sent, Append(Stream, b), dispatched, Ended + 1)
      BY <1>1, <1>5, <1>6, <3>2, ClosedTrue
    <3> QED BY <3>1, <3>3
  <2>2. CASE k # Len(LastFrame) - 1
    <3>1. Ended' = Ended /\ ~IsCrc(b)
      BY <1>4, <1>7, <2>2
    <3>2. CrcsTrue(sent, Append(Stream, b), Ended) /\ OutTrue(sent, Append(Stream, b), dispatched, Ended)
      BY <1>1, <1>5, <1>6, <1>7, <3>1, AppendedTrue
    <3> QED BY <3>1, <3>2
  <2> QED BY <2>1, <2>2
<1>10. CrcsTrue(sent, Append(Stream, Noise), Ended') /\ OutTrue(sent, Append(Stream, Noise), dispatched, Ended')
  <2>1. Noise.v \in Nat /\ ~IsCrc(Noise)
    BY BytesAre
  <2> QED BY <1>5, <1>6, <1>8, <2>1, AppendedTrue
<1>11. \A x \in 1..Len(Stream) : Stream[x].v \in Nat
  BY <1>1 DEF CrcsTrue
<1>12. HeldShape' /\ (Reads(Stream) \/ Reads(Append(Stream, Noise)) \/ Reads(Append(Stream, b)))
  <2>1. CASE UNCHANGED <<rx_ring, accum, dispatched>>
    <3>1. Stream' = Stream /\ HeldShape'
      BY <1>1, <2>1 DEF Stream, HeldShape
    <3> QED BY <1>6, <2>1, <3>1, SameIsReads
  <2>2. CASE Receive(Noise)
    <3>1. Noise.v \in Nat
      BY BytesAre
    <3> QED BY <1>1, <1>11, <2>2, <3>1, ReceiveReads
  <2>3. CASE Receive(Head(tx[s]))
    <3>1. Receive(b)
      BY <2>3 DEF b
    <3> QED BY <1>1, <1>7, <1>11, <3>1, ReceiveReads
  <2> QED BY <2>1, <2>2, <2>3
<1>13. CrcsTrue(sent, Stream', Ended') /\ OutTrue(sent, Stream', dispatched', Ended')
  <2>1. CASE Reads(Stream)
    BY <1>1, <1>5, <1>6, <1>8, <2>1, ReadsTrue
  <2>2. CASE Reads(Append(Stream, Noise))
    <3>1. IsSeq(Append(Stream, Noise))
      BY <1>6, Appended
    <3> QED BY <1>1, <1>5, <1>6, <1>10, <2>2, <3>1, ReadsTrue
  <2>3. CASE Reads(Append(Stream, b))
    <3>1. IsSeq(Append(Stream, b))
      BY <1>6, Appended
    <3> QED BY <1>1, <1>5, <1>6, <1>9, <2>3, <3>1, ReadsTrue
  <2> QED BY <1>12, <2>1, <2>2, <2>3
<1>14. MayDispatch
  BY <1>12, ReadsDispatch
<1> QED BY <1>2, <1>4, <1>12, <1>13, <1>14 DEF LineInv, TlvShape

LEMMA LineStep == LineInv /\ [TlvNext]_tlvVars => LineInv' /\ LineMoves
<1> SUFFICES ASSUME LineInv, [TlvNext]_tlvVars PROVE LineInv' /\ LineMoves
  OBVIOUS
<1>0. TlvShape /\ SentShape /\ TxShape /\ HeldShape /\ IsSeq(dispatched) /\ IsSeq(Stream)
      /\ CrcsTrue(sent, Stream, Ended) /\ OutTrue(sent, Stream, dispatched, Ended)
  BY StreamIs DEF LineInv, TlvShape, HeldShape
<1>1. ASSUME NEW s \in Senders, NEW p \in Payloads, SendFrame(s, p) PROVE LineInv' /\ LineMoves
  BY <1>1, BeginKeeps DEF LineMoves
<1>2. ASSUME NEW s \in Senders, SendByte(s) PROVE LineInv' /\ LineMoves
  <2>1. Sent(s) /\ Receive(Head(tx[s]))
    BY <1>2 DEF SendByte
  <2> QED BY <2>1, ByteKeeps DEF LineMoves
<1>3. ASSUME NEW s \in Senders, LineFault(s) PROVE LineInv' /\ LineMoves
  <2>1. Sent(s) /\ (Receive(Noise) \/ UNCHANGED <<rx_ring, accum, dispatched>>)
    BY <1>3 DEF LineFault
  <2> QED BY <2>1, ByteKeeps DEF LineMoves
  \* The two actions of the charger's receiver, and a step of none.
<1>4. ASSUME UNCHANGED <<sent, tx, tx_mutex>>, HeldShape', Reads(Stream) PROVE LineInv' /\ LineMoves
  <2>1. SentShape' /\ TxShape' /\ Ended' = Ended /\ sent' = sent
    <3>1. SentShape' /\ Ended' = Ended
      BY <1>0, <1>4 DEF SentShape, AreFrames, Ended
    <3>2. TxShape'
      BY <1>0, <1>4 DEF TxShape
    <3> QED BY <1>4, <3>1, <3>2
  <2>2. CrcsTrue(sent, Stream', Ended) /\ OutTrue(sent, Stream', dispatched', Ended)
    BY <1>0, <1>4, EndedIs, ReadsTrue
  <2>3. LineMoves
    BY <1>4, <2>1, ReadsDispatch DEF LineMoves
  <2> QED BY <1>4, <2>1, <2>2, <2>3 DEF LineInv, TlvShape
<1>5. CASE CommsPoll
  <2>1. UNCHANGED <<sent, tx, tx_mutex>>
    BY <1>5 DEF CommsPoll
  <2>2. HeldShape' /\ Reads(Stream)
    BY <1>0, <1>5, PollKeeps, SameIsReads
  <2> QED BY <1>4, <2>1, <2>2
<1>6. CASE CommsParse
  <2>1. UNCHANGED <<sent, tx, tx_mutex>>
    BY <1>6 DEF CommsParse
  <2>2. HeldShape' /\ Reads(Stream)
    BY <1>0, <1>6, ParseReads
  <2> QED BY <1>4, <2>1, <2>2
<1>7. CASE UNCHANGED tlvVars
  <2>1. UNCHANGED <<end, sent, tx, tx_mutex, rx_ring, accum, dispatched>>
    BY <1>7 DEF tlvVars
  <2>2. Stream' = Stream /\ HeldShape'
    BY <1>0, <2>1 DEF Stream, HeldShape
  <2>3. Reads(Stream)
    BY <1>0, <2>1, <2>2, SameIsReads
  <2> QED BY <1>4, <2>1, <2>2, <2>3
<1> QED BY <1>1, <1>2, <1>3, <1>5, <1>6, <1>7 DEF TlvNext

\* The frames as FrameLine sees them.
Bodies(s) == [i \in DOMAIN s |-> Body(s[i])]
LastOf(out) == IF out = <<>> THEN 0 ELSE out[Len(out)][4].v

LEMMA BodiesAre ==
  ASSUME NEW s, IsSeq(s)
  PROVE  IsSeq(Bodies(s)) /\ Len(Bodies(s)) = Len(s) /\ \A i \in 1..Len(s) : Bodies(s)[i] = Body(s[i])
<1> DEFINE S == {Body(s[i]) : i \in 1..Len(s)}
<1>1. DOMAIN s = 1..Len(s) /\ Len(s) \in Nat
  BY DomainOfSeq, LenIsNat
<1>2. Bodies(s) \in [1..Len(s) -> S] /\ \A i \in 1..Len(s) : Bodies(s)[i] = Body(s[i])
  BY <1>1 DEF Bodies
<1> HIDE DEF S
<1>3. Bodies(s) \in Seq(S)
  BY <1>1, <1>2, SeqDef
<1> DEFINE k == Len(Bodies(s))
<1>4. k = Len(s)
  <2>1. DOMAIN Bodies(s) = 1..k /\ k \in Nat
    BY <1>3, LenProperties
  <2> HIDE DEF k
  <2>2. DOMAIN Bodies(s) = 1..Len(s)
    BY <1>2
  <2>3. \A x, y \in Nat : 1..x = 1..y => x = y
    <3> TAKE x, y \in Nat
    <3>1. x < y => y \in 1..y /\ y \notin 1..x
      OBVIOUS
    <3>2. y < x => x \in 1..x /\ x \notin 1..y
      OBVIOUS
    <3> QED BY <3>1, <3>2
  <2>4. k \in Nat /\ Len(s) \in Nat /\ 1..k = 1..Len(s)
    BY <1>1, <2>1, <2>2
  <2> QED BY <2>3, <2>4
<1> QED BY <1>2, <1>3, <1>4 DEF IsSeq

LEMMA BodiesOfAppended == ASSUME NEW s, IsSeq(s), NEW f PROVE Bodies(Append(s, f)) = Append(Bodies(s), Body(f))
<1> DEFINE t == Append(s, f)
<1>1. IsSeq(t) /\ Len(t) = Len(s) + 1 /\ Len(s) \in Nat
      /\ \A i \in 1..Len(s) + 1 : t[i] = IF i <= Len(s) THEN s[i] ELSE f
  BY Appended, LenIsNat
<1> HIDE DEF t
<1>2. IsSeq(Bodies(t)) /\ Len(Bodies(t)) = Len(s) + 1 /\ \A i \in 1..Len(s) + 1 : Bodies(t)[i] = Body(t[i])
  BY <1>1, BodiesAre
<1>3. IsSeq(Bodies(s)) /\ Len(Bodies(s)) = Len(s) /\ \A i \in 1..Len(s) : Bodies(s)[i] = Body(s[i])
  BY BodiesAre
<1> DEFINE u == Append(Bodies(s), Body(f))
<1>4. IsSeq(u) /\ Len(u) = Len(s) + 1
      /\ \A i \in 1..Len(s) + 1 : u[i] = IF i <= Len(s) THEN Bodies(s)[i] ELSE Body(f)
  BY <1>3, Appended
<1> HIDE DEF u
<1>5. ASSUME NEW i \in 1..Len(s) + 1 PROVE Bodies(t)[i] = u[i]
  <2>1. CASE i <= Len(s)
    <3>1. i \in 1..Len(s)
      BY <1>1, <2>1
    <3> QED BY <1>1, <1>2, <1>3, <1>4, <2>1, <3>1
  <2>2. CASE ~(i <= Len(s))
    BY <1>1, <1>2, <1>4, <2>2
  <2> QED BY <2>1, <2>2
<1>6. Bodies(t) = u
  BY <1>2, <1>4, <1>5, SameSeq
<1> QED BY <1>6 DEF t, u

\* What is dispatched next is a frame that was sent, after the last one dispatched.
LEMMA NextDelivered ==
  ASSUME LineInv', sent' = sent, IsSeq(sent), IsSeq(dispatched), NEW f, dispatched' = Append(dispatched, f)
  PROVE  /\ f[4].v \in 1..Len(sent) /\ Body(f) = Body(sent[f[4].v])
         /\ LastOf(dispatched') = f[4].v /\ f[4].v > LastOf(dispatched)
<1> DEFINE n == Len(dispatched)
<1>1. n \in Nat /\ Len(dispatched') = n + 1 /\ dispatched'[n + 1] = f
      /\ (\A d \in 1..n : dispatched'[d] = dispatched[d]) /\ (dispatched # <<>> => n \in 1..n)
  <2>1. n \in Nat /\ (dispatched # <<>> => n > 0)
    BY LenIsNat
  <2>2. Len(dispatched') = n + 1 /\ \A d \in 1..n + 1 : dispatched'[d] = IF d <= n THEN dispatched[d] ELSE f
    BY Appended
  <2> QED BY <2>1, <2>2
<1>2. Ended' \in Nat /\ Ended' <= Len(sent) /\ Len(sent) \in Nat
  <2>1. Len(sent) \in Nat /\ (sent # <<>> => Len(sent) > 0)
    BY LenIsNat
  <2>2. tx_mutex' # "none" => sent # <<>>
    BY DEF LineInv, TlvShape, TxShape
  <2> QED BY <2>1, <2>2 DEF Ended
<1>3. /\ \A d \in 1..n + 1 : dispatched'[d][4].v \in 1..Ended' /\ Body(dispatched'[d]) = Body(sent[dispatched'[d][4].v])
      /\ \A d, e \in 1..n + 1 : d < e => dispatched'[d][4].v < dispatched'[e][4].v
  BY <1>1 DEF LineInv, OutTrue
<1> HIDE DEF n
<1>4. n + 1 \in 1..n + 1 /\ \A d \in 1..n : d \in 1..n + 1 /\ d < n + 1
  BY <1>1
<1>5. f[4].v \in 1..Ended' /\ Body(f) = Body(sent[f[4].v])
  BY <1>1, <1>3, <1>4
<1>6. f[4].v \in 1..Len(sent) /\ f[4].v > 0 /\ f[4].v \in Nat
  BY <1>2, <1>5
<1>7. dispatched' # <<>>
  BY <1>1, EmptyIsSeq
<1>8. LastOf(dispatched') = f[4].v
  BY <1>1, <1>7 DEF LastOf
<1>9. f[4].v > LastOf(dispatched)
  <2>1. CASE dispatched = <<>>
    BY <1>6, <2>1 DEF LastOf
  <2>2. CASE dispatched # <<>>
    <3>1. dispatched[n][4].v < f[4].v /\ dispatched[n][4].v \in 1..Ended'
      BY <1>1, <1>3, <1>4, <2>2
    <3>2. LastOf(dispatched) = dispatched[n][4].v
      BY <2>2 DEF LastOf, n
    <3> QED BY <1>2, <1>6, <3>1, <3>2
  <2> QED BY <2>1, <2>2
<1> QED BY <1>5, <1>6, <1>8, <1>9

LEMMA FrameLineInit == TlvInit => Line!Init
<1> SUFFICES ASSUME TlvInit PROVE Line!Init
  OBVIOUS
<1>1. sent = <<>> /\ dispatched = <<>>
  BY DEF TlvInit
<1>2. Bodies(<<>>) = <<>>
  <2>1. IsSeq(Bodies(<<>>)) /\ Len(Bodies(<<>>)) = 0
    BY EmptyIsSeq, BodiesAre
  <2> QED BY <2>1, LenIsNat
<1> QED BY <1>1, <1>2 DEF Line!Init, Bodies

LEMMA FrameLineStep == LineInv /\ LineInv' /\ LineMoves => [Line!Next]_(Line!vars)
<1> SUFFICES ASSUME LineInv, LineInv', LineMoves
             PROVE  Line!Next \/ UNCHANGED Line!vars
  OBVIOUS
<1>1. IsSeq(sent) /\ IsSeq(dispatched) /\ Len(sent) \in Nat
  BY LenIsNat DEF LineInv, TlvShape, SentShape, HeldShape
<1>2. Bodies(sent) = [i \in DOMAIN sent |-> Body(sent[i])]
      /\ Bodies(dispatched) = [i \in DOMAIN dispatched |-> Body(dispatched[i])]
      /\ Bodies(sent') = [i \in DOMAIN sent' |-> Body(sent'[i])]
      /\ Bodies(dispatched') = [i \in DOMAIN dispatched' |-> Body(dispatched'[i])]
  BY DEF Bodies
<1>3. ASSUME NEW s \in Senders, NEW p \in Payloads, SendFrame(s, p) PROVE Line!Next
  <2> DEFINE f == tlv_build(Len(sent) + 1, p)
  <2>1. sent' = Append(sent, f) /\ dispatched' = dispatched /\ Len(sent) < MAX_FRAMES
    BY <1>3 DEF SendFrame
  <2>2. Body(f) \in {Body(tlv_build(i, q)) : i \in 1..MAX_FRAMES, q \in Payloads}
    <3>1. Len(sent) + 1 \in 1..MAX_FRAMES
      BY <1>1, <2>1, TlvAssumption
    <3> QED BY <3>1
  <2> HIDE DEF f
  <2>3. Bodies(sent') = Append(Bodies(sent), Body(f))
    BY <1>1, <2>1, BodiesOfAppended
  <2>4. Line!Send(Body(f))
    BY <1>2, <2>1, <2>3 DEF Line!Send
  <2> QED BY <2>2, <2>4 DEF Line!Next
<1>4. ASSUME sent' = sent, NEW f, dispatched' = Append(dispatched, f) PROVE Line!Next
  <2> DEFINE i == f[4].v
  <2>1. i \in 1..Len(sent) /\ Body(f) = Body(sent[i]) /\ LastOf(dispatched') = i /\ i > LastOf(dispatched)
    BY <1>1, <1>4, NextDelivered
  <2> HIDE DEF i
  <2>2. Bodies(dispatched') = Append(Bodies(dispatched), Body(f))
    BY <1>1, <1>4, BodiesOfAppended
  <2>3. Len(Bodies(sent)) = Len(sent) /\ Bodies(sent)[i] = Body(sent[i])
    BY <1>1, <2>1, BodiesAre
  <2>4. Bodies(dispatched') = Append(Bodies(dispatched), Bodies(sent)[i]) /\ Bodies(sent') = Bodies(sent)
    BY <1>4, <2>1, <2>2, <2>3
  <2>5. Line!Deliver(i)
    BY <1>2, <2>1, <2>4 DEF Line!Deliver, LastOf
  <2>6. i \in 1..Len(Bodies(sent))
    BY <2>1, <2>3
  <2> QED BY <1>2, <2>5, <2>6 DEF Line!Next
<1>5. CASE sent' = sent /\ dispatched' = dispatched
  BY <1>5 DEF Line!vars
<1> QED BY <1>3, <1>4, <1>5 DEF LineMoves, MayDispatch

\* What either end dispatches was sent, each frame at most once and in order, for any
\* payloads that hold no CRC, any number of senders and frames, however many bytes the line
\* loses or spoils, a full ring included (proto/tlv.c, uart5.c, process_byte_).
THEOREM OnlySentFramesHolds == TlvSpec => OnlySentFrames
<1>1. TlvSpec => []LineInv
  BY LineInit, LineStep, PTL DEF TlvSpec
<1>2. LineInv /\ [TlvNext]_tlvVars => [Line!Next]_(Line!vars)
  BY LineStep, FrameLineStep
<1> QED BY <1>1, <1>2, FrameLineInit, PTL DEF TlvSpec, OnlySentFrames, Line!Spec

-----------------------------------------------------------------------------
(* No frame that arrives whole is lost. *)

LEMMA CurrentIs ==
  ASSUME TlvShape, NEW s \in Senders, tx[s] # <<>>
  PROVE  Current(s) = Len(sent) /\ s = tx_mutex /\ Len(sent) \in DOMAIN sent
<1> DEFINE n == Len(sent)
<1>1. s = tx_mutex /\ tx_mutex # "none" /\ sent # <<>> /\ IsSeq(sent) /\ DOMAIN sent = 1..n /\ n \in Nat /\ n > 0
      /\ AreFrames(sent, n)
  BY TlvAssumption, DomainOfSeq, LenIsNat DEF TlvShape, TxShape, SentShape
<1>2. PICK k \in 0..Len(sent[n]) - 1 : IsRest(tx[s], sent[n], k)
  BY <1>1 DEF TlvShape, TxShape
<1> HIDE DEF n
<1>3. \A i \in 1..n : IsSeq(sent[i]) /\ Len(sent[i]) \in Nat /\ Len(sent[i]) >= 5
                      /\ sent[i][Len(sent[i])] = Crc(Covered(sent[i])) /\ Covered(sent[i])[2].v = i
  BY <1>1, Limits DEF AreFrames, IsFrame
<1>4. n \in 1..n
  BY <1>1
<1>5. IsSeq(tx[s]) /\ Len(tx[s]) = Len(sent[n]) - k /\ \A i \in 1..Len(sent[n]) - k : tx[s][i] = sent[n][i + k]
  BY <1>2 DEF IsRest
<1>6. Len(tx[s]) \in Nat /\ Len(tx[s]) > 0 /\ tx[s][Len(tx[s])] = sent[n][Len(sent[n])]
  <2>1. Len(sent[n]) \in Nat
    BY <1>3, <1>4
  <2>2. Len(sent[n]) - k \in 1..Len(sent[n]) - k /\ Len(sent[n]) - k + k = Len(sent[n])
    BY <1>2, <2>1
  <2> QED BY <1>5, <2>1, <2>2
<1>7. \E p \in 0..Len(sent[n]) : SubSeq(sent[n], p + 1, Len(sent[n])) = tx[s]
  <2>1. k \in 0..Len(sent[n])
    BY <1>2, <1>3, <1>4
  <2> DEFINE u == SubSeq(sent[n], k + 1, Len(sent[n]))
  <2>2. IsSeq(u) /\ Len(u) = Len(sent[n]) - k /\ \A i \in 1..Len(sent[n]) - k : u[i] = sent[n][i + k]
    BY <1>3, <1>4, <2>1, SuffixIsRest DEF IsRest
  <2> HIDE DEF u
  <2>3. u = tx[s]
    BY <1>5, <2>2, SameSeq
  <2> QED BY <2>1, <2>3 DEF u
<1>8. ASSUME NEW i \in 1..n, NEW p \in 0..Len(sent[i]), SubSeq(sent[i], p + 1, Len(sent[i])) = tx[s] PROVE i = n
  <2> DEFINE L == Len(sent[i])
  <2>1. IsSeq(sent[i]) /\ L \in Nat
    BY <1>3
  <2>2. Len(tx[s]) = L - p /\ \A x \in 1..L - p : tx[s][x] = sent[i][x + p]
    BY <1>8, <2>1, SuffixIsRest DEF IsRest
  <2> HIDE DEF L
  <2>3. L - p \in 1..L - p /\ L - p + p = L
    BY <1>6, <2>1, <2>2
  <2>4. sent[i][L] = sent[n][Len(sent[n])]
    BY <1>6, <2>2, <2>3
  <2>5. Crc(Covered(sent[i])) = Crc(Covered(sent[n]))
    BY <1>3, <1>4, <2>4 DEF L
  <2>6. \A a, b : Crc(a) = Crc(b) => a = b
    BY DEF Crc, Byte
  <2>7. Covered(sent[i]) = Covered(sent[n])
    BY <2>5, <2>6
  <2> QED BY <1>3, <1>4, <2>7
<1>9. Current(s) = n
  BY <1>1, <1>4, <1>7, <1>8 DEF Current
<1> QED BY <1>1, <1>4, <1>9 DEF n

\* A buffer that begins with a frame, or with a beginning of one, is not resynchronised.
LEMMA PrefixParses ==
  ASSUME NEW buf, IsSeq(buf), NEW f, NEW i, IsFrame(f, i), \A x \in 1..Len(buf) : x <= Len(f) => buf[x] = f[x]
  PROVE  tlv_parse(buf) # -1
<1>1. /\ Len(buf) \in Nat /\ MIN_LEN = 5 /\ FRAME_MAX = 5 + PAYLOAD_MAX /\ PAYLOAD_MAX \in Nat
      /\ IsSeq(f) /\ Len(f) \in 5..FRAME_MAX /\ Len(f) \in Nat
      /\ f[1] = SOF0 /\ f[2] = SOF1 /\ f[3].v = Len(f) - 4 /\ f[Len(f)] = Crc(Covered(f))
  BY LenIsNat, Limits DEF IsFrame
<1>2. CASE Len(buf) < MIN_LEN
  BY <1>1, <1>2 DEF tlv_parse
<1>3. CASE ~(Len(buf) < MIN_LEN)
  <2>1. buf[1] = SOF0 /\ buf[2] = SOF1 /\ buf[3] = f[3]
    <3>1. 1 \in 1..Len(buf) /\ 2 \in 1..Len(buf) /\ 3 \in 1..Len(buf) /\ 1 <= Len(f) /\ 2 <= Len(f) /\ 3 <= Len(f)
      BY <1>1, <1>3
    <3> QED BY <1>1, <3>1
  <2>2. buf[3].v \in 1..(1 + PAYLOAD_MAX) /\ 4 + (buf[3].v - 1) + 1 = Len(f)
    BY <1>1, <2>1
  <2>3. tlv_parse(buf) = IF Len(buf) < Len(f) THEN 0
                         ELSE IF buf[Len(f)] # Crc(SubSeq(buf, 3, Len(f) - 1)) THEN -1 ELSE Len(f)
    BY <1>3, <2>1, <2>2 DEF tlv_parse
  <2>4. CASE Len(buf) < Len(f)
    BY <2>3, <2>4
  <2>5. CASE ~(Len(buf) < Len(f))
    <3>1. SubSeq(buf, 3, Len(f) - 1) = SubSeq(f, 3, Len(f) - 1)
      <4>1. 3 \in 1..Len(f) + 1 /\ Len(f) - 1 \in 3 - 1..Len(f) /\ 3 \in 1..Len(buf) + 1 /\ Len(f) - 1 \in 3 - 1..Len(buf)
        BY <1>1, <2>5
      <4> DEFINE n == Len(f) - 1 - 3 + 1
      <4>2. /\ IsSeq(SubSeq(buf, 3, Len(f) - 1)) /\ Len(SubSeq(buf, 3, Len(f) - 1)) = n
            /\ \A x \in 1..n : SubSeq(buf, 3, Len(f) - 1)[x] = buf[3 + x - 1]
        BY <4>1, SlicedSeq
      <4>3. /\ IsSeq(SubSeq(f, 3, Len(f) - 1)) /\ Len(SubSeq(f, 3, Len(f) - 1)) = n
            /\ \A x \in 1..n : SubSeq(f, 3, Len(f) - 1)[x] = f[3 + x - 1]
        BY <1>1, <4>1, SlicedSeq
      <4>4. \A x \in 1..n : buf[3 + x - 1] = f[3 + x - 1]
        <5> TAKE x \in 1..n
        <5>1. 3 + x - 1 \in 1..Len(buf) /\ 3 + x - 1 <= Len(f)
          BY <1>1, <2>5
        <5> QED BY <5>1
      <4> HIDE DEF n
      <4> QED BY <4>2, <4>3, <4>4, SameSeq
    <3>2. buf[Len(f)] = f[Len(f)]
      <4>1. Len(f) \in 1..Len(buf) /\ Len(f) <= Len(f)
        BY <1>1, <2>5
      <4> QED BY <4>1
    <3>3. tlv_parse(buf) = Len(f)
      BY <1>1, <2>3, <2>5, <3>1, <3>2 DEF Covered
    <3> QED BY <1>1, <3>3
  <2> QED BY <2>4, <2>5
<1> QED BY <1>2, <1>3

LEMMA PlaceMoves ==
  ASSUME NEW q, NEW f, NEW k \in Nat, NEW a \in 1..Len(q) + 1, AtPlace(q, f, k, a), Len(q) \in Nat,
         NEW t, NEW m \in 0..Len(q), IsRest(t, q, m), m < a
  PROVE  a - m \in 1..Len(t) + 1 /\ AtPlace(t, f, k, a - m)
<1>1. Len(t) = Len(q) - m /\ \A i \in 1..Len(q) - m : t[i] = q[i + m]
  BY DEF IsRest
<1>2. a + k <= Len(q) + 1 /\ \A x \in 1..k : q[a + x - 1] = f[x]
  BY DEF AtPlace
<1>3. a - m \in 1..Len(t) + 1 /\ a - m + k <= Len(t) + 1
  BY <1>1, <1>2
<1>4. \A x \in 1..k : t[a - m + x - 1] = f[x]
  <2> TAKE x \in 1..k
  <2>1. a - m + x - 1 \in 1..Len(q) - m /\ a - m + x - 1 + m = a + x - 1
    BY <1>2
  <2> QED BY <1>1, <1>2, <2>1
<1> QED BY <1>1, <1>3, <1>4 DEF AtPlace

LEMMA PlaceStays ==
  ASSUME NEW q, IsSeq(q), NEW f, NEW k \in Nat, NEW a \in 1..Len(q) + 1, AtPlace(q, f, k, a), NEW b
  PROVE  /\ a \in 1..Len(Append(q, b)) + 1 /\ AtPlace(Append(q, b), f, k, a)
         /\ a + k = Len(q) + 1 /\ b = f[k + 1] => AtPlace(Append(q, b), f, k + 1, a) /\ a + (k + 1) = Len(Append(q, b)) + 1
<1> DEFINE r == Append(q, b)
<1>1. Len(q) \in Nat /\ Len(r) = Len(q) + 1 /\ \A i \in 1..Len(q) + 1 : r[i] = IF i <= Len(q) THEN q[i] ELSE b
  BY Appended, LenIsNat
<1> HIDE DEF r
<1>2. a + k <= Len(q) + 1 /\ \A x \in 1..k : q[a + x - 1] = f[x]
  BY DEF AtPlace
<1>3. \A x \in 1..k : r[a + x - 1] = f[x]
  <2> TAKE x \in 1..k
  <2>1. a + x - 1 \in 1..Len(q) + 1 /\ a + x - 1 <= Len(q)
    BY <1>1, <1>2
  <2> QED BY <1>1, <1>2, <2>1
<1>4. a \in 1..Len(r) + 1 /\ AtPlace(r, f, k, a)
  BY <1>1, <1>2, <1>3 DEF AtPlace
<1>5. ASSUME a + k = Len(q) + 1, b = f[k + 1] PROVE AtPlace(r, f, k + 1, a) /\ a + (k + 1) = Len(r) + 1
  <2>1. a + k \in 1..Len(q) + 1 /\ ~(a + k <= Len(q)) /\ a + (k + 1) = Len(r) + 1
    BY <1>1, <1>5
  <2>2. \A x \in 1..k + 1 : r[a + x - 1] = f[x]
    <3> TAKE x \in 1..k + 1
    <3>1. CASE x \in 1..k
      BY <1>3, <3>1
    <3>2. CASE x \notin 1..k
      <4>1. x = k + 1 /\ a + x - 1 = a + k
        BY <3>2
      <4>2. r[a + k] = b
        BY <1>1, <2>1
      <4> QED BY <1>5, <4>1, <4>2
    <3> QED BY <3>1, <3>2
  <2> QED BY <2>1, <2>2 DEF AtPlace
<1> QED BY <1>4, <1>5 DEF r

LEMMA PlaceGrows ==
  ASSUME NEW q, IsSeq(q), NEW f, NEW k \in Nat, NEW a \in 1..Len(q) + 1, AtPlace(q, f, k, a), a + k = Len(q) + 1
  PROVE  Comes(Append(q, f[k + 1]), f, k + 1)
<1> DEFINE r == Append(q, f[k + 1])
<1>1. a \in 1..Len(r) + 1
  BY PlaceStays
<1>2. AtPlace(r, f, k + 1, a) /\ a + (k + 1) = Len(r) + 1
  BY PlaceStays
<1> HIDE DEF r
<1>3. \E x \in 1..Len(r) + 1 : AtPlace(r, f, k + 1, x) /\ x + (k + 1) = Len(r) + 1
  BY <1>1, <1>2
<1> QED BY <1>3 DEF r, Comes

LEMMA FrameIs ==
  ASSUME TlvShape, NEW i \in 1..Len(sent)
  PROVE  IsFrame(sent[i], i) /\ IsSeq(sent[i]) /\ Len(sent[i]) \in Nat /\ Len(sent[i]) >= 5
<1>1. IsFrame(sent[i], i)
  BY DEF TlvShape, SentShape, AreFrames
<1> QED BY <1>1, Limits DEF IsFrame

\* How much of a frame has left its sender.
Gone(i) == IF i <= Ended THEN Len(sent[i]) ELSE Len(sent[i]) - Len(tx[tx_mutex])

LEMMA GoneIs ==
  ASSUME TlvShape, NEW i \in 1..Len(sent)
  PROVE  Gone(i) \in 0..Len(sent[i]) /\ (~(i <= Ended) => i = Len(sent) /\ Gone(i) < Len(sent[i]) /\ tx_mutex \in Senders)
<1>1. IsFrame(sent[i], i) /\ Len(sent[i]) \in Nat
  BY FrameIs
<1>2. CASE i <= Ended
  BY <1>1, <1>2 DEF Gone
<1>3. CASE ~(i <= Ended)
  <2>1. Len(sent) \in Nat
    BY EndedIs
  <2>2. tx_mutex # "none" /\ i = Len(sent)
    BY <1>3, <2>1 DEF Ended
  <2>3. tx_mutex \in Senders /\ \E n \in 0..Len(sent[i]) - 1 : IsRest(tx[tx_mutex], sent[i], n)
    BY <2>2 DEF TlvShape, TxShape
  <2>4. Gone(i) \in 0..Len(sent[i]) - 1
    <3>1. PICK n \in 0..Len(sent[i]) - 1 : IsRest(tx[tx_mutex], sent[i], n)
      BY <2>3
    <3>2. Len(tx[tx_mutex]) = Len(sent[i]) - n
      BY <3>1 DEF IsRest
    <3> QED BY <1>1, <1>3, <3>2 DEF Gone
  <2> QED BY <1>1, <2>2, <2>3, <2>4
<1> QED BY <1>2, <1>3

\* A round of the parse loop takes off one frame or drops one byte, and never a byte of a
\* frame that is whole so far.
LEMMA ParseSafe ==
  ASSUME LineInv, FramesInv, CommsParse
  PROVE  FramesInv'
<1>1. /\ TlvShape /\ HeldShape /\ CrcsTrue(sent, Stream, Ended) /\ end = "mcu" /\ end' = end
      /\ UNCHANGED <<sent, tx, tx_mutex, hit>>
  BY DEF LineInv, TlvShape, CommsParse
<1>2. /\ IsSeq(Stream) /\ Len(Stream) = Len(accum) + Len(rx_ring) /\ Len(accum) \in Nat /\ Len(rx_ring) \in Nat
      /\ Len(Stream) \in Nat
      /\ \A i \in 1..Len(accum) + Len(rx_ring) : Stream[i] = IF i <= Len(accum) THEN accum[i] ELSE rx_ring[i - Len(accum)]
  BY <1>1, StreamIs
<1>3. PICK m \in 1..Len(accum) :
              /\ ReadsFrom(Stream, m)
              /\ (dispatched' = dispatched /\ m = 1 /\ tlv_parse(accum) = -1)
                 \/ (/\ dispatched' = Append(dispatched, SubSeq(Stream, 1, m)) /\ Taken(Stream, m)
                     /\ Stream[1] = SOF0 /\ Stream[2] = SOF1)
  BY <1>1, ParseReads
<1>4. IsRest(Stream', Stream, m) /\ m \in 0..Len(Stream) /\ m \in Nat /\ m \in 1..Len(Stream)
  BY <1>2, <1>3 DEF ReadsFrom
<1>5. Ended \in Nat /\ Ended <= Len(sent) /\ AreFrames(sent, Ended) /\ Ended' = Ended /\ Len(sent) \in Nat
  BY <1>1, EndedIs DEF Ended
<1>6. IsSeq(dispatched) /\ Len(dispatched) \in Nat /\ IsSeq(accum)
  BY <1>1, LenIsNat DEF HeldShape
\* What a frame that waits or comes needs for the step: its first byte is behind the cut.
<1>7. ASSUME NEW i \in 1..Len(sent), NEW a \in 1..Len(Stream) + 1, AtPlace(Stream, sent[i], Gone(i), a), m < a,
             ~(i <= Ended) => a + Gone(i) = Len(Stream) + 1
      PROVE  FrameSafe(i)'
  <2>1. Gone(i) \in Nat
    <3>1. Gone(i) \in 0..Len(sent[i]) /\ Len(sent[i]) \in Nat
      BY <1>1, GoneIs, FrameIs
    <3> QED BY <3>1
  <2>2. a - m \in 1..Len(Stream') + 1 /\ AtPlace(Stream', sent[i], Gone(i), a - m)
        /\ (a + Gone(i) = Len(Stream) + 1 => a - m + Gone(i) = Len(Stream') + 1)
    <3> DEFINE k == Gone(i)
    <3> DEFINE f == sent[i]
    <3> DEFINE q == Stream
    <3> DEFINE t == Stream'
    <3>1. k \in Nat /\ AtPlace(q, f, k, a) /\ Len(q) \in Nat /\ m \in 0..Len(q) /\ IsRest(t, q, m) /\ m < a
          /\ a \in 1..Len(q) + 1
      BY <1>2, <1>4, <1>7, <2>1
    <3> HIDE DEF k, f, q, t
    <3>2. a - m \in 1..Len(t) + 1 /\ AtPlace(t, f, k, a - m) /\ (a + k = Len(q) + 1 => a - m + k = Len(t) + 1)
      <4>1. a - m \in 1..Len(t) + 1
        BY <3>1, PlaceMoves, Zenon
      <4>2. AtPlace(t, f, k, a - m)
        BY <3>1, PlaceMoves, Zenon
      <4>3. a + k = Len(q) + 1 => a - m + k = Len(t) + 1
        <5>1. Len(t) = Len(q) - m
          BY <3>1 DEF IsRest
        <5> QED BY <3>1, <5>1
      <4> QED BY <4>1, <4>2, <4>3
    <3> QED BY <3>2 DEF k, f, q, t
  <2>3. CASE i <= Ended
    <3>1. Waits(Stream', sent[i])
      BY <2>2, <2>3 DEF Waits, Gone
    <3> QED BY <1>1, <1>5, <2>3, <3>1 DEF FrameSafe
  <2>4. CASE ~(i <= Ended)
    <3>1. Comes(Stream', sent[i], Gone(i))
      BY <1>7, <2>2, <2>4 DEF Comes
    <3>2. Gone(i) = Len(sent[i]) - Len(tx[tx_mutex])
      BY <2>4 DEF Gone
    <3> QED BY <1>1, <1>5, <2>4, <3>1, <3>2 DEF FrameSafe
  <2> QED BY <2>3, <2>4
<1>8. ASSUME NEW i \in 1..Len(sent), NEW d \in 1..Len(dispatched), dispatched[d] = sent[i] PROVE FrameSafe(i)'
  <2>1. d \in 1..Len(dispatched') /\ dispatched'[d] = dispatched[d]
    <3>1. CASE dispatched' = dispatched
      BY <3>1
    <3>2. CASE dispatched' = Append(dispatched, SubSeq(Stream, 1, m))
      <4>1. /\ Len(dispatched') = Len(dispatched) + 1
            /\ \A e \in 1..Len(dispatched) + 1 :
                 dispatched'[e] = IF e <= Len(dispatched) THEN dispatched[e] ELSE SubSeq(Stream, 1, m)
        BY <1>6, <3>2, Appended
      <4>2. d \in 1..Len(dispatched) + 1 /\ d <= Len(dispatched)
        BY <1>6
      <4> QED BY <4>1, <4>2
    <3> QED BY <1>3, <3>1, <3>2
  <2> QED BY <1>1, <1>8, <2>1 DEF FrameSafe
<1>9. ASSUME NEW i \in 1..Len(sent), NEW a \in 1..Len(Stream) + 1, AtPlace(Stream, sent[i], Gone(i), a), ~(m < a),
             ~(i <= Ended) => a + Gone(i) = Len(Stream) + 1
      PROVE  FrameSafe(i)'
  <2> DEFINE f == sent[i]
  <2> DEFINE k == Gone(i)
  <2>1. IsFrame(f, i) /\ IsSeq(f) /\ Len(f) \in Nat /\ Len(f) >= 5
    BY <1>1, FrameIs
  <2>2. /\ k \in 0..Len(f) /\ k \in Nat /\ (i <= Ended => k = Len(f))
        /\ (~(i <= Ended) => k < Len(f) /\ a + k = Len(Stream) + 1)
    <3>1. k \in 0..Len(f) /\ (i <= Ended => k = Len(f))
      BY <1>1, GoneIs DEF Gone
    <3>2. ~(i <= Ended) => k < Len(f)
      BY <1>1, GoneIs
    <3> QED BY <1>9, <2>1, <3>1, <3>2
  <2>3. a + k <= Len(Stream) + 1 /\ \A x \in 1..k : Stream[a + x - 1] = f[x]
    BY <1>9 DEF AtPlace
  <2>4. \A x \in 1..Len(f) - 1 : ~IsCrc(f[x])
    BY <2>1 DEF IsFrame
  <2>5. f[1] = SOF0 /\ f[2] = SOF1 /\ f[Len(f)] = Crc(Covered(f)) /\ Covered(f)[2].v = i
    BY <2>1 DEF IsFrame
  <2> HIDE DEF f, k
  <2>6. CASE dispatched' = dispatched /\ m = 1 /\ tlv_parse(accum) = -1
    <3>1. a = 1
      BY <1>9, <2>6
    <3>2. ASSUME NEW x \in 1..Len(accum), x <= Len(f) PROVE accum[x] = f[x]
      <4>1. x \in 1..Len(accum) + Len(rx_ring) /\ x <= Len(accum)
        BY <1>2
      <4>2. x \in 1..k
        BY <1>2, <2>1, <2>2, <3>1, <3>2
      <4>3. Stream[x] = accum[x] /\ Stream[1 + x - 1] = f[x] /\ 1 + x - 1 = x
        BY <1>2, <2>3, <3>1, <4>1, <4>2
      <4> QED BY <4>3
    <3>3. tlv_parse(accum) # -1
      BY <1>6, <2>1, <3>2, PrefixParses
    <3> QED BY <2>6, <3>3
  <2>7. CASE /\ dispatched' = Append(dispatched, SubSeq(Stream, 1, m)) /\ Taken(Stream, m)
             /\ Stream[1] = SOF0 /\ Stream[2] = SOF1
    <3> DEFINE j == Number(Stream[m])
    <3>1. IsTheFrame(sent, Stream, Ended, m)
      BY <1>1, <1>2, <1>5, <2>7, TakenIsSent
    <3>2. /\ IsCrc(Stream[m]) /\ j \in 1..Ended /\ Len(sent[j]) = m /\ IsSeq(SubSeq(Stream, 1, m)) /\ Len(SubSeq(Stream, 1, m)) = m
          /\ \A x \in 1..m : SubSeq(Stream, 1, m)[x] = Stream[x] /\ (x >= 3 => Stream[x] = sent[j][x])
      BY <3>1 DEF IsTheFrame
    <3>3. IsFrame(sent[j], j)
      BY <1>5, <3>2 DEF AreFrames
    <3>4. \A x \in 1..m - 1 : ~IsCrc(sent[j][x])
      BY <3>2, <3>3 DEF IsFrame
    <3>5. m >= 5
      BY <1>4, <2>7, Limits DEF Taken
    <3>6. CASE m < a + k
      <4>1. m - a + 1 \in 1..k /\ a + (m - a + 1) - 1 = m
        BY <1>4, <1>9, <2>2, <3>6
      <4>2. Stream[m] = f[m - a + 1]
        BY <2>3, <4>1
      <4>3. m - a + 1 = Len(f) /\ k = Len(f)
        <5>1. m - a + 1 \in 1..Len(f)
          BY <2>1, <2>2, <4>1
        <5>2. m - a + 1 \notin 1..Len(f) - 1
          BY <2>4, <3>2, <4>2
        <5> QED BY <2>1, <2>2, <4>1, <5>1, <5>2
      <4>4. j = i
        BY <2>5, <4>2, <4>3, BytesAre DEF Number
      <4>5. Len(f) = m /\ a = 1
        BY <1>4, <3>2, <4>3, <4>4 DEF f
      <4>6. \A x \in 1..m : SubSeq(Stream, 1, m)[x] = f[x]
        <5> TAKE x \in 1..m
        <5>1. 1 + x - 1 = x /\ x \in 1..k
          BY <1>4, <4>3, <4>5
        <5> QED BY <2>3, <3>2, <4>5, <5>1
      <4>7. SubSeq(Stream, 1, m) = f
        BY <2>1, <3>2, <4>5, <4>6, SameSeq
      <4>8. Len(dispatched') = Len(dispatched) + 1 /\ dispatched'[Len(dispatched) + 1] = f
        <5>1. /\ Len(dispatched') = Len(dispatched) + 1
              /\ \A e \in 1..Len(dispatched) + 1 :
                   dispatched'[e] = IF e <= Len(dispatched) THEN dispatched[e] ELSE f
          BY <1>6, <2>7, <4>7, Appended
        <5>2. Len(dispatched) + 1 \in 1..Len(dispatched) + 1 /\ ~(Len(dispatched) + 1 <= Len(dispatched))
          BY <1>6
        <5> QED BY <5>1, <5>2
      <4>9. \E d \in 1..Len(dispatched') : dispatched'[d] = f
        <5>1. Len(dispatched) + 1 \in 1..Len(dispatched')
          BY <1>6, <4>8
        <5> QED BY <4>8, <5>1
      <4> QED BY <1>1, <4>9 DEF FrameSafe, f
    <3>7. CASE ~(m < a + k)
      <4>1. i <= Ended /\ k = Len(f)
        BY <1>4, <1>9, <2>2, <3>7
      <4> DEFINE c == a + Len(f) - 1
      <4>2. c \in 1..m - 1 /\ c \in 1..m /\ c >= 3 /\ Len(f) \in 1..k
        BY <1>4, <1>9, <2>1, <3>7, <4>1
      <4>3. Stream[c] = f[Len(f)]
        BY <2>3, <4>2
      <4>4. Stream[c] = sent[j][c] /\ ~IsCrc(sent[j][c])
        BY <3>2, <3>4, <4>2
      <4> QED BY <2>5, <4>3, <4>4, BytesAre
    <3> QED BY <3>6, <3>7
  <2> QED BY <1>3, <2>6, <2>7
<1>10. ASSUME NEW i \in 1..Len(sent) PROVE FrameSafe(i)'
  <2>1. FrameSafe(i)
    BY <1>1 DEF FramesInv
  <2>2. CASE i \in hit
    BY <1>1, <2>2 DEF FrameSafe
  <2>3. CASE \E d \in 1..Len(dispatched) : dispatched[d] = sent[i]
    BY <1>8, <2>3
  <2>4. CASE IF i <= Ended THEN Waits(Stream, sent[i]) ELSE Comes(Stream, sent[i], Len(sent[i]) - Len(tx[tx_mutex]))
    <3>1. PICK a \in 1..Len(Stream) + 1 :
            AtPlace(Stream, sent[i], Gone(i), a) /\ (~(i <= Ended) => a + Gone(i) = Len(Stream) + 1)
      BY <2>4 DEF Waits, Comes, Gone
    <3> QED BY <1>7, <1>9, <3>1
  <2> QED BY <2>1, <2>2, <2>3, <2>4 DEF FrameSafe
<1> QED BY <1>1, <1>10 DEF FramesInv

LEMMA ByteSafe ==
  ASSUME LineInv, FramesInv, NEW s \in Senders, SendByte(s) \/ LineFault(s)
  PROVE  FramesInv'
<1> SUFFICES ASSUME end = "mcu", NEW i \in 1..Len(sent) PROVE FrameSafe(i)'
  <2>1. end' = end /\ sent' = sent
    BY DEF SendByte, LineFault, Sent
  <2> QED BY <2>1 DEF FramesInv
<1>1. /\ TlvShape /\ SentShape /\ TxShape /\ HeldShape /\ CrcsTrue(sent, Stream, Ended) /\ Sent(s) /\ end' = end
      /\ sent' = sent /\ tx[s] # <<>>
  BY DEF LineInv, TlvShape, SendByte, LineFault, Sent
<1>2. PICK k \in 0..Len(LastFrame) - 1 : Sends(s, k)
  BY <1>1, SentSends
<1> DEFINE n == Len(sent)
<1> DEFINE f == LastFrame
<1>3. /\ s = tx_mutex /\ n \in Nat \ {0} /\ IsFrame(f, n) /\ f = sent[n] /\ IsSeq(f) /\ Len(f) \in Nat /\ Len(f) >= 5
      /\ IsRest(tx[s], f, k) /\ Head(tx[s]) = f[k + 1] /\ Ended = n - 1 /\ Ended' \in {n, n - 1}
      /\ Ended' = (IF k = Len(f) - 1 THEN n ELSE n - 1)
      /\ (k # Len(f) - 1 => tx_mutex' = s /\ Len(tx'[s]) = Len(f) - (k + 1))
  BY <1>2, Limits DEF Sends, LastFrame, IsFrame
<1>4. Current(s) = n
  BY <1>1, CurrentIs
<1>5. IsSeq(Stream) /\ Len(Stream) \in Nat
  BY <1>1, StreamIs
<1>6. Head(tx[s]).v \in Nat /\ Noise.v \in Nat /\ \A x \in 1..Len(Stream) : Stream[x].v \in Nat
  <2>1. k + 1 \in 1..Len(f)
    BY <1>2, <1>3
  <2>2. f[k + 1].v \in Nat
    BY <1>3, <2>1 DEF IsFrame
  <2> QED BY <1>1, <1>3, <2>2, BytesAre DEF CrcsTrue
<1>7. /\ dispatched' = dispatched
      /\ Stream' = Stream \/ \E b : Stream' = Append(Stream, b)
  <2>1. CASE SendByte(s)
    <3>1. Receive(Head(tx[s]))
      BY <2>1 DEF SendByte
    <3> QED BY <1>1, <1>6, <3>1, ReceiveReads
  <2>2. CASE LineFault(s)
    <3>1. CASE Receive(Noise)
      BY <1>1, <1>6, <3>1, ReceiveReads
    <3>2. CASE UNCHANGED <<rx_ring, accum, dispatched>>
      BY <3>2 DEF Stream
    <3> QED BY <2>2, <3>1, <3>2 DEF LineFault
  <2> QED BY <2>1, <2>2
<1>8. hit \subseteq hit'
  BY DEF SendByte, LineFault
<1>9. FrameSafe(i)
  BY DEF FramesInv
<1>10. CASE i \in hit \/ \E d \in 1..Len(dispatched) : dispatched[d] = sent[i]
  BY <1>1, <1>7, <1>8, <1>10 DEF FrameSafe
\* A frame that has left its sender: it stays where it is.
<1>11. CASE i <= Ended /\ Waits(Stream, sent[i])
  <2>1. i <= Ended'
    BY <1>3, <1>11
  <2>2. PICK a \in 1..Len(Stream) + 1 : AtPlace(Stream, sent[i], Len(sent[i]), a)
    BY <1>11 DEF Waits
  <2>3. Waits(Stream', sent[i])
    <3>1. CASE Stream' = Stream
      BY <1>11, <3>1
    <3>2. CASE \E b : Stream' = Append(Stream, b)
      <4>1. PICK b : Stream' = Append(Stream, b)
        BY <3>2
      <4>2. Len(sent[i]) \in Nat
        BY <1>1, FrameIs
      <4>3. a \in 1..Len(Append(Stream, b)) + 1 /\ AtPlace(Append(Stream, b), sent[i], Len(sent[i]), a)
        BY <1>5, <2>2, <4>2, PlaceStays
      <4> QED BY <4>1, <4>3 DEF Waits
    <3> QED BY <1>7, <3>1, <3>2
  <2> QED BY <1>1, <2>1, <2>3 DEF FrameSafe
\* The frame on its way: the byte joins it, or it is hit.
<1>12. CASE ~(i <= Ended) /\ Comes(Stream, sent[i], Len(sent[i]) - Len(tx[tx_mutex]))
  <2>1. i = n /\ sent[i] = f
    BY <1>3, <1>12
  <2>2. CASE n \in hit'
    BY <2>1, <2>2 DEF FrameSafe
  <2>3. CASE n \notin hit'
    <3>1. SendByte(s) /\ ~(Len(rx_ring) >= RING_LEN - 1)
      BY <1>4, <2>3 DEF SendByte, LineFault
    <3>2. Stream' = Append(Stream, Head(tx[s]))
      <4>1. Receive(Head(tx[s]))
        BY <3>1 DEF SendByte
      <4>2. Len(rx_ring) < RING_LEN - 1
        BY <1>1, <3>1, Limits, StreamIs
      <4> QED BY <1>1, <1>6, <4>1, <4>2, ReceiveReads
    <3>3. Len(f) - Len(tx[s]) = k /\ k \in Nat
      <4>1. Len(tx[s]) = Len(f) - k
        BY <1>3 DEF IsRest
      <4> QED BY <1>2, <1>3, <4>1
    <3>4. PICK a \in 1..Len(Stream) + 1 : AtPlace(Stream, f, k, a) /\ a + k = Len(Stream) + 1
      BY <1>3, <1>12, <2>1, <3>3 DEF Comes
    <3>5. Comes(Stream', f, k + 1)
      <4>1. Comes(Append(Stream, f[k + 1]), f, k + 1)
        BY <1>5, <3>3, <3>4, PlaceGrows
      <4> QED BY <1>3, <3>2, <4>1
    <3>6. CASE k = Len(f) - 1
      <4>1. k + 1 = Len(f) /\ i <= Ended'
        BY <1>3, <2>1, <3>6
      <4>2. Waits(Stream', f)
        BY <3>5, <4>1 DEF Comes, Waits
      <4> QED BY <1>1, <2>1, <4>1, <4>2 DEF FrameSafe
    <3>7. CASE k # Len(f) - 1
      <4>1. tx_mutex' = s /\ Len(tx'[s]) = Len(f) - (k + 1)
        BY <1>3, <3>7
      <4>2. ~(n <= Ended')
        BY <1>3, <3>7
      <4>3. Len(tx'[tx_mutex']) = Len(f) - (k + 1)
        BY <4>1
      <4>4. Len(f) - Len(tx'[tx_mutex']) = k + 1
        <5>1. \A L \in Nat : L - (L - (k + 1)) = k + 1
          BY <3>3
        <5>2. Len(f) \in Nat
          BY <1>3
        <5>3. Len(f) - (Len(f) - (k + 1)) = k + 1
          BY <5>1, <5>2, Zenon
        <5> QED BY <4>3, <5>3, Zenon
      <4>5. Len(sent'[i]) - Len(tx'[tx_mutex']) = k + 1 /\ sent'[i] = f
        BY <1>1, <2>1, <4>4
      <4>6. Comes(Stream', sent'[i], Len(sent'[i]) - Len(tx'[tx_mutex']))
        BY <3>5, <4>5
      <4> QED BY <2>1, <4>2, <4>6 DEF FrameSafe
    <3> QED BY <3>6, <3>7
  <2> QED BY <2>2, <2>3
<1> QED BY <1>9, <1>10, <1>11, <1>12 DEF FrameSafe

LEMMA BeginSafe ==
  ASSUME LineInv, FramesInv, NEW s \in Senders, NEW p \in Payloads, SendFrame(s, p)
  PROVE  FramesInv'
<1> SUFFICES ASSUME end = "mcu", NEW i \in 1..Len(sent') PROVE FrameSafe(i)'
  <2>1. end' = end
    BY DEF SendFrame
  <2> QED BY <2>1 DEF FramesInv
<1>1. /\ LineInv' /\ Ended' = Ended /\ Stream' = Stream /\ Len(sent') = Len(sent) + 1 /\ Ended = Len(sent)
      /\ (\A j \in 1..Len(sent) : sent'[j] = sent[j]) /\ tx'[tx_mutex'] = sent'[Len(sent')]
  BY BeginKeeps
<1>2. dispatched' = dispatched /\ hit' = hit
  BY DEF SendFrame
<1>3. TlvShape /\ Len(sent) \in Nat /\ Len(Stream) \in Nat
  BY EndedIs, StreamIs DEF LineInv, TlvShape
<1>4. CASE i <= Len(sent)
  <2>1. i \in 1..Len(sent)
    BY <1>1, <1>3, <1>4
  <2>2. FrameSafe(i)
    BY <2>1 DEF FramesInv
  <2> QED BY <1>1, <1>2, <1>4, <2>1, <2>2 DEF FrameSafe
<1>5. CASE ~(i <= Len(sent))
  <2>1. i = Len(sent') /\ ~(i <= Ended')
    BY <1>1, <1>3, <1>5
  <2>2. Len(sent'[i]) - Len(tx'[tx_mutex']) = 0
    <3>1. Len(sent'[i]) \in Nat
      <4>1. IsFrame(sent'[i], i)
        BY <1>1 DEF LineInv, TlvShape, SentShape, AreFrames
      <4> QED BY <4>1, Limits DEF IsFrame
    <3> QED BY <1>1, <2>1, <3>1
  <2>3. Comes(Stream', sent'[i], 0)
    <3>1. Len(Stream) + 1 \in 1..Len(Stream) + 1 /\ AtPlace(Stream, sent'[i], 0, Len(Stream) + 1)
      BY <1>3 DEF AtPlace
    <3> QED BY <1>1, <1>3, <3>1 DEF Comes
  <2> QED BY <2>1, <2>2, <2>3 DEF FrameSafe
<1> QED BY <1>4, <1>5

LEMMA FramesStep == LineInv /\ FramesInv /\ [TlvNext]_tlvVars => FramesInv'
<1> SUFFICES ASSUME LineInv, FramesInv, [TlvNext]_tlvVars PROVE FramesInv'
  OBVIOUS
<1>1. ASSUME NEW s \in Senders, NEW p \in Payloads, SendFrame(s, p) PROVE FramesInv'
  BY <1>1, BeginSafe
<1>2. ASSUME NEW s \in Senders, SendByte(s) \/ LineFault(s) PROVE FramesInv'
  BY <1>2, ByteSafe
<1>3. ASSUME UNCHANGED <<end, sent, tx, tx_mutex, dispatched, hit>>, Stream' = Stream PROVE FramesInv'
  <2>1. \A i \in 1..Len(sent) : FrameSafe(i) => FrameSafe(i)'
    BY <1>3 DEF FrameSafe, Ended
  <2> QED BY <1>3, <2>1 DEF FramesInv
<1>4. CASE CommsPoll
  <2>1. Stream' = Stream /\ dispatched' = dispatched
    BY <1>4, PollKeeps DEF LineInv, TlvShape
  <2> QED BY <1>3, <1>4, <2>1 DEF CommsPoll
<1>5. CASE CommsParse
  BY <1>5, ParseSafe
<1>6. CASE UNCHANGED tlvVars
  BY <1>3, <1>6 DEF tlvVars, Stream
<1> QED BY <1>1, <1>2, <1>4, <1>5, <1>6 DEF TlvNext

LEMMA FramesGive == LineInv /\ FramesInv => IntactFrameKept
<1> SUFFICES ASSUME LineInv, FramesInv, end = "mcu", NEW i \in DOMAIN sent
             PROVE  \/ i \in hit \/ \E s \in Senders : tx[s] # <<>> /\ Current(s) = i
                    \/ \E k \in DOMAIN dispatched : dispatched[k] = sent[i]
                    \/ Within(sent[i], accum \o rx_ring)
  BY DEF IntactFrameKept
<1>1. /\ TlvShape /\ DOMAIN sent = 1..Len(sent) /\ DOMAIN dispatched = 1..Len(dispatched)
      /\ IsSeq(Stream) /\ Len(Stream) \in Nat
  BY DomainOfSeq, StreamIs DEF LineInv, TlvShape, SentShape, HeldShape
<1>2. FrameSafe(i)
  BY <1>1 DEF FramesInv
<1>3. CASE i \in hit \/ \E d \in 1..Len(dispatched) : dispatched[d] = sent[i]
  BY <1>1, <1>3
<1>4. CASE i <= Ended /\ Waits(Stream, sent[i])
  <2> DEFINE f == sent[i]
  <2> DEFINE q == Stream
  <2>1. IsSeq(f) /\ Len(f) \in Nat /\ Len(f) >= 5
    BY <1>1, FrameIs
  <2>2. PICK a \in 1..Len(q) + 1 : AtPlace(q, f, Len(f), a)
    BY <1>4 DEF Waits
  <2> HIDE DEF f, q
  <2>3. a + Len(f) <= Len(q) + 1 /\ \A x \in 1..Len(f) : q[a + x - 1] = f[x]
    BY <2>2 DEF AtPlace
  <2>4. IsSeq(q) /\ Len(q) \in Nat
    BY <1>1 DEF q
  <2>5. a \in 1..(Len(q) - Len(f) + 1) /\ a + Len(f) - 1 \in a - 1..Len(q) /\ a + Len(f) - 1 - a + 1 = Len(f)
    BY <2>1, <2>2, <2>3, <2>4
  <2> DEFINE u == SubSeq(q, a, a + Len(f) - 1)
  <2>6. IsSeq(u) /\ Len(u) = Len(f) /\ \A x \in 1..Len(f) : u[x] = q[a + x - 1]
    <3>1. IsSeq(u) /\ Len(u) = a + Len(f) - 1 - a + 1 /\ \A x \in 1..a + Len(f) - 1 - a + 1 : u[x] = q[a + x - 1]
      BY <2>2, <2>4, <2>5, SlicedSeq
    <3> HIDE DEF u
    <3> QED BY <2>5, <3>1
  <2> HIDE DEF u
  <2>7. u = f
    BY <2>1, <2>3, <2>6, SameSeq
  <2>8. Within(f, q)
    BY <2>5, <2>7 DEF Within, u
  <2> QED BY <2>8 DEF f, q, Stream
<1>5. CASE ~(i <= Ended)
  <2>1. i = Len(sent) /\ tx_mutex \in Senders
    BY <1>1, <1>5, GoneIs
  <2>2. tx[tx_mutex] # <<>>
    BY <1>1, <2>1 DEF TlvShape, TxShape
  <2>3. Current(tx_mutex) = i
    BY <1>1, <2>1, <2>2, CurrentIs
  <2> QED BY <2>1, <2>2, <2>3
<1> QED BY <1>2, <1>3, <1>4, <1>5 DEF FrameSafe

\* The charger loses no frame that arrives whole, for any payloads that hold no CRC, start
\* bytes and damaged frames before it included (tlv_parse and the loop of comms_task_run):
\* a resynchronisation never drops a byte of it, and what is taken for another frame ends
\* before it.
THEOREM IntactFrameKeptHolds == TlvSpec => []IntactFrameKept
<1>1. TlvInit => FramesInv
  BY EmptyIsSeq DEF TlvInit, FramesInv
<1>2. LineInv /\ FramesInv /\ [TlvNext]_tlvVars => LineInv' /\ FramesInv'
  BY LineStep, FramesStep
<1>3. TlvSpec => [](LineInv /\ FramesInv)
  BY <1>1, <1>2, LineInit, PTL DEF TlvSpec
<1> QED BY <1>3, FramesGive, PTL

-----------------------------------------------------------------------------
(* The card reader: frames and the buffers between them and the parser. *)

FLen(c) == IF c = NoCard THEN 7 ELSE 11
Cards == Uids \cup {NoCard}

LEMMA RestJoined ==
  ASSUME NEW s, IsSeq(s), NEW t, NEW m \in 0..Len(s), IsRest(t, s, m), NEW u, IsSeq(u)
  PROVE  m \in 0..Len(s \o u) /\ IsRest(t \o u, s \o u, m)
<1>1. /\ IsSeq(t) /\ Len(s) \in Nat /\ Len(u) \in Nat /\ Len(t) = Len(s) - m
      /\ \A i \in 1..Len(s) - m : t[i] = s[i + m]
  BY LenIsNat DEF IsRest
<1> DEFINE su == s \o u
<1> DEFINE tu == t \o u
<1>2. /\ IsSeq(su) /\ Len(su) = Len(s) + Len(u)
      /\ \A i \in 1..Len(s) + Len(u) : su[i] = IF i <= Len(s) THEN s[i] ELSE u[i - Len(s)]
  BY Joined
<1>3. /\ IsSeq(tu) /\ Len(tu) = Len(t) + Len(u)
      /\ \A i \in 1..Len(t) + Len(u) : tu[i] = IF i <= Len(t) THEN t[i] ELSE u[i - Len(t)]
  BY <1>1, Joined
<1> HIDE DEF su, tu
<1>4. \A i \in 1..Len(su) - m : tu[i] = su[i + m]
  <2> TAKE i \in 1..Len(su) - m
  <2>1. i \in 1..Len(t) + Len(u) /\ i + m \in 1..Len(s) + Len(u)
    BY <1>1, <1>2
  <2>2. CASE i <= Len(t)
    <3>1. i \in 1..Len(s) - m /\ i + m <= Len(s)
      BY <1>1, <2>1, <2>2
    <3>2. tu[i] = t[i]
      BY <1>3, <2>1, <2>2
    <3>3. su[i + m] = s[i + m]
      BY <1>2, <2>1, <3>1
    <3>4. t[i] = s[i + m]
      BY <1>1, <3>1
    <3> QED BY <3>2, <3>3, <3>4
  <2>3. CASE ~(i <= Len(t))
    <3>1. ~(i + m <= Len(s)) /\ i - Len(t) = i + m - Len(s)
      BY <1>1, <2>1, <2>3
    <3>2. tu[i] = u[i - Len(t)]
      BY <1>3, <2>1, <2>3
    <3>3. su[i + m] = u[i + m - Len(s)]
      BY <1>2, <2>1, <3>1
    <3> QED BY <3>1, <3>2, <3>3
  <2> QED BY <2>2, <2>3
<1>5. m \in 0..Len(su) /\ Len(tu) = Len(su) - m
  BY <1>1, <1>2, <1>3
<1>6. IsRest(tu, su, m)
  BY <1>3, <1>4, <1>5 DEF IsRest
<1> QED BY <1>5, <1>6 DEF su, tu

LEMMA Grouped ==
  ASSUME NEW s, IsSeq(s), NEW t, IsSeq(t), NEW u, IsSeq(u)
  PROVE  (s \o t) \o u = s \o (t \o u)
<1>1. PICK S : s \in Seq(S)
  BY DEF IsSeq
<1>2. PICK T : t \in Seq(T)
  BY DEF IsSeq
<1>3. PICK U : u \in Seq(U)
  BY DEF IsSeq
<1> DEFINE V == S \cup T \cup U
<1>4. s \in Seq(V) /\ t \in Seq(V) /\ u \in Seq(V)
  BY <1>1, <1>2, <1>3, SeqMonotonic, S \subseteq V, T \subseteq V, U \subseteq V
<1> HIDE DEF V
<1> QED BY <1>4, ConcatAssociative

LEMMA Halves ==
  ASSUME NEW s, IsSeq(s), NEW n \in 0..Len(s)
  PROVE  /\ IsSeq(SubSeq(s, 1, n)) /\ IsSeq(SubSeq(s, n + 1, Len(s)))
         /\ Len(SubSeq(s, 1, n)) = n /\ Len(SubSeq(s, n + 1, Len(s))) = Len(s) - n
         /\ SubSeq(s, 1, n) \o SubSeq(s, n + 1, Len(s)) = s
<1> DEFINE a == SubSeq(s, 1, n)
<1> DEFINE b == SubSeq(s, n + 1, Len(s))
<1>1. Len(s) \in Nat
  BY LenIsNat
<1>2. IsSeq(a) /\ Len(a) = n /\ \A i \in 1..n : a[i] = s[i]
  <2>1. 1 \in 1..Len(s) + 1 /\ n \in 1 - 1..Len(s) /\ n - 1 + 1 = n /\ \A i \in 1..n : 1 + i - 1 = i
    BY <1>1
  <2>2. IsSeq(a) /\ Len(a) = n - 1 + 1 /\ \A i \in 1..n - 1 + 1 : a[i] = s[1 + i - 1]
    BY <2>1, SlicedSeq
  <2> HIDE DEF a
  <2> QED BY <2>1, <2>2
<1>3. IsSeq(b) /\ Len(b) = Len(s) - n /\ \A i \in 1..Len(s) - n : b[i] = s[i + n]
  BY SuffixIsRest DEF IsRest
<1> HIDE DEF a, b
<1> DEFINE ab == a \o b
<1>4. /\ IsSeq(ab) /\ Len(ab) = Len(a) + Len(b)
      /\ \A i \in 1..Len(a) + Len(b) : ab[i] = IF i <= Len(a) THEN a[i] ELSE b[i - Len(a)]
  BY <1>2, <1>3, Joined
<1> HIDE DEF ab
<1>5. Len(ab) = Len(s) /\ \A i \in 1..Len(ab) : ab[i] = s[i]
  <2>1. Len(ab) = Len(s)
    BY <1>1, <1>2, <1>3, <1>4
  <2>2. ASSUME NEW i \in 1..Len(ab) PROVE ab[i] = s[i]
    <3>1. CASE i <= n
      BY <1>1, <1>2, <1>4, <3>1
    <3>2. CASE ~(i <= n)
      <4>1. i - n \in 1..Len(s) - n /\ i - n + n = i
        BY <1>1, <2>1, <3>2
      <4> QED BY <1>2, <1>3, <1>4, <3>2, <4>1
    <3> QED BY <3>1, <3>2
  <2> QED BY <2>1, <2>2
<1>6. ab = s
  BY <1>4, <1>5, SameSeq
<1> QED BY <1>2, <1>3, <1>6 DEF a, b, ab

LEMMA IsCard ==
  ASSUME NEW c \in Cards
  PROVE  /\ IsSeq(c) /\ FLen(c) \in {7, 11} /\ (c # NoCard => Len(c) = 4) /\ (FLen(c) = 7 <=> c = NoCard)
<1>1. CASE c = NoCard
  BY <1>1, EmptyIsSeq DEF NoCard, FLen
<1>2. CASE c # NoCard
  BY <1>2, ReaderAssumption DEF Cards, FLen, IsSeq
<1> QED BY <1>1, <1>2

LEMMA Two == ASSUME NEW a, NEW b PROVE IsSeq(<<a, b>>) /\ Len(<<a, b>>) = 2 /\ <<a, b>>[1] = a /\ <<a, b>>[2] = b
<1>1. <<a, b>> \in Seq({a, b})
  OBVIOUS
<1> QED BY <1>1 DEF IsSeq

LEMMA Four ==
  ASSUME NEW a, NEW b, NEW c, NEW d
  PROVE  LET s == <<a, b, c, d>> IN IsSeq(s) /\ Len(s) = 4 /\ s[1] = a /\ s[2] = b /\ s[3] = c /\ s[4] = d
<1>1. <<a, b, c, d>> \in Seq({a, b, c, d})
  OBVIOUS
<1> QED BY <1>1 DEF IsSeq

\* A frame, by what is between preamble and state.
Framed(f, t, s) ==
  /\ IsSeq(f) /\ Len(f) = Len(t) + 5
  /\ f[1] = "AA" /\ f[2] = "D1" /\ f[3] = "D0" /\ f[4] = "02"
  /\ (\A k \in 1..Len(t) : f[4 + k] = t[k]) /\ f[Len(t) + 5] = s

LEMMA FrameBytes ==
  ASSUME NEW t, IsSeq(t), NEW s
  PROVE  Framed(Preamble \o t \o <<s>>, t, s)
<1> DEFINE g == Preamble \o t
<1>1. /\ IsSeq(Preamble) /\ Len(Preamble) = 4
      /\ Preamble[1] = "AA" /\ Preamble[2] = "D1" /\ Preamble[3] = "D0" /\ Preamble[4] = "02"
  BY Four, Zenon DEF Preamble
<1>2. Len(t) \in Nat
  BY LenIsNat
<1>3. IsSeq(g) /\ Len(g) = 4 + Len(t) /\ \A i \in 1..4 + Len(t) : g[i] = IF i <= 4 THEN Preamble[i] ELSE t[i - 4]
  <2>1. /\ IsSeq(g) /\ Len(g) = Len(Preamble) + Len(t)
        /\ \A i \in 1..Len(Preamble) + Len(t) :
             g[i] = IF i <= Len(Preamble) THEN Preamble[i] ELSE t[i - Len(Preamble)]
    BY <1>1, Joined, Zenon
  <2> HIDE DEF g
  <2> QED BY <1>1, <2>1
<1> HIDE DEF g
<1> DEFINE f == Append(g, s)
<1>4. IsSeq(f) /\ Len(f) = Len(t) + 5 /\ \A i \in 1..Len(t) + 5 : f[i] = IF i <= Len(t) + 4 THEN g[i] ELSE s
  <2>1. IsSeq(f) /\ Len(f) = Len(g) + 1 /\ \A i \in 1..Len(g) + 1 : f[i] = IF i <= Len(g) THEN g[i] ELSE s
    BY <1>3, Appended
  <2> HIDE DEF f
  <2>2. Len(g) = Len(t) + 4 /\ Len(g) + 1 = Len(t) + 5
    BY <1>2, <1>3
  <2> QED BY <2>1, <2>2
<1>5. g \o <<s>> = f
  BY <1>3, OneMore
<1> HIDE DEF f
<1>6. ASSUME NEW i \in 1..4 PROVE f[i] = Preamble[i]
  <2>1. i \in 1..Len(t) + 5 /\ i <= Len(t) + 4 /\ i \in 1..4 + Len(t)
    BY <1>2
  <2> QED BY <1>3, <1>4, <2>1
<1>7. ASSUME NEW k \in 1..Len(t) PROVE f[4 + k] = t[k]
  <2>1. 4 + k \in 1..Len(t) + 5 /\ 4 + k <= Len(t) + 4 /\ 4 + k \in 1..4 + Len(t) /\ ~(4 + k <= 4) /\ 4 + k - 4 = k
    BY <1>2
  <2> QED BY <1>3, <1>4, <2>1
<1>8. f[Len(t) + 5] = s
  BY <1>2, <1>4
<1>9. f[1] = "AA" /\ f[2] = "D1" /\ f[3] = "D0" /\ f[4] = "02"
  BY <1>1, <1>6
<1>10. Framed(f, t, s)
  BY <1>4, <1>7, <1>8, <1>9 DEF Framed
<1> QED BY <1>5, <1>10 DEF g

LEMMA IdleFrame ==
  LET f == ReaderFrame(NoCard) IN
  /\ IsSeq(f) /\ Len(f) = 7
  /\ f[1] = "AA" /\ f[2] = "D1" /\ f[3] = "D0" /\ f[4] = "02" /\ f[5] = "0" /\ f[6] = "00" /\ f[7] = "state"
<1> DEFINE t == <<"0", "00">>
<1>1. IsSeq(t) /\ Len(t) = 2 /\ t[1] = "0" /\ t[2] = "00"
  BY Two, Zenon
<1>2. ReaderFrame(NoCard) = Preamble \o t \o <<"state">>
  BY DEF ReaderFrame
<1> HIDE DEF t
<1> DEFINE f == Preamble \o t \o <<"state">>
<1>3. /\ IsSeq(f) /\ Len(f) = Len(t) + 5
      /\ f[1] = "AA" /\ f[2] = "D1" /\ f[3] = "D0" /\ f[4] = "02"
      /\ (\A k \in 1..Len(t) : f[4 + k] = t[k]) /\ f[Len(t) + 5] = "state"
  <2>1. Framed(f, t, "state")
    BY <1>1, FrameBytes
  <2> QED BY <2>1 DEF Framed
<1> HIDE DEF f
<1>4. Len(f) = 7 /\ f[5] = "0" /\ f[6] = "00" /\ f[7] = "state"
  BY <1>1, <1>3
<1> QED BY <1>2, <1>3, <1>4 DEF f

LEMMA CardFrame ==
  ASSUME NEW c \in Uids
  PROVE  LET f == ReaderFrame(c) IN
         /\ IsSeq(f) /\ Len(f) = 11
         /\ f[1] = "AA" /\ f[2] = "D1" /\ f[3] = "D0" /\ f[4] = "02" /\ f[5] = "4" /\ f[6] = "00"
         /\ (\A k \in 1..4 : f[6 + k] = c[k]) /\ f[11] = "state"
<1>1. IsSeq(c) /\ Len(c) = 4 /\ c # NoCard
  BY ReaderAssumption, EmptyIsSeq DEF IsSeq, NoCard
<1> DEFINE d == <<"4", "00">>
<1>2. IsSeq(d) /\ Len(d) = 2 /\ d[1] = "4" /\ d[2] = "00"
  BY Two, Zenon
<1>3. ReaderFrame(c) = Preamble \o (d \o c) \o <<"state">>
  BY <1>1 DEF ReaderFrame
<1> HIDE DEF d
<1> DEFINE t == d \o c
<1>4. IsSeq(t) /\ Len(t) = 6 /\ \A i \in 1..6 : t[i] = IF i <= 2 THEN d[i] ELSE c[i - 2]
  <2>1. /\ IsSeq(t) /\ Len(t) = Len(d) + Len(c)
        /\ \A i \in 1..Len(d) + Len(c) : t[i] = IF i <= Len(d) THEN d[i] ELSE c[i - Len(d)]
    BY <1>1, <1>2, Joined, Zenon
  <2> HIDE DEF t
  <2> QED BY <1>1, <1>2, <2>1
<1> HIDE DEF t
<1> DEFINE f == Preamble \o t \o <<"state">>
<1>5. /\ IsSeq(f) /\ Len(f) = Len(t) + 5
      /\ f[1] = "AA" /\ f[2] = "D1" /\ f[3] = "D0" /\ f[4] = "02"
      /\ (\A k \in 1..Len(t) : f[4 + k] = t[k]) /\ f[Len(t) + 5] = "state"
  <2>1. Framed(f, t, "state")
    BY <1>4, FrameBytes
  <2> QED BY <2>1 DEF Framed
<1> HIDE DEF f
<1>6. Len(f) = 11 /\ f[5] = t[1] /\ f[6] = t[2] /\ f[11] = "state"
  BY <1>4, <1>5
<1>7. f[5] = "4" /\ f[6] = "00"
  BY <1>2, <1>4, <1>6
<1>8. \A k \in 1..4 : f[6 + k] = c[k]
  <2> TAKE k \in 1..4
  <2>1. f[4 + (2 + k)] = t[2 + k] /\ 4 + (2 + k) = 6 + k
    BY <1>4, <1>5
  <2>2. t[2 + k] = c[2 + k - 2] /\ 2 + k - 2 = k
    BY <1>4
  <2> QED BY <2>1, <2>2
<1> QED BY <1>3, <1>5, <1>6, <1>7, <1>8 DEF f, t

-----------------------------------------------------------------------------
(* Where the bytes of the card reader come from: each byte, and the one    *)
(* consumed last, at 0, is marked with the frame it was sent in (the card  *)
(* c, put down as the l-th), its place o in it, and how many bytes had     *)
(* been hit up to there (h).                                               *)

Mark == [c : Cards, l : Nat, o : Nat, h : Nat]

\* A byte that is not hit is its frame's, and behind the frame's one before it.
Follows(a, b, e) ==
  a.h = b.h =>
    /\ e = ReaderFrame(b.c)[b.o]
    /\ a.o < FLen(a.c) => b.c = a.c /\ b.l = a.l /\ b.o = a.o + 1

\* Another card has been put down in between.
Earlier(a, b) == a.l <= b.l /\ (a.c # b.c /\ b.c # NoCard => a.l < b.l)

Traced(A, q) ==
  /\ \A x \in 0..Len(q) : A[x] \in Mark /\ A[x].o \in 1..FLen(A[x].c)
  /\ \A x, y \in 0..Len(q) : x <= y => A[x].h <= A[y].h
  /\ \A x \in 1..Len(q) : Follows(A[x - 1], A[x], q[x])

InTurn(A, q, last, now) ==
  /\ Earlier(last, now)
  /\ \A x \in 1..Len(q) : Earlier(last, A[x]) /\ Earlier(A[x], now)
  /\ \A x, y \in 1..Len(q) : x <= y => Earlier(A[x], A[y])

\* Unless the last byte was hit, the stream ends with a frame.
Ends(z, n) == z.h <= n /\ (z.h = n => z.o = FLen(z.c))

Story(A, q, last, now, n) == Traced(A, q) /\ InTurn(A, q, last, now) /\ Ends(A[Len(q)], n)

Shifted(A, m) == [x \in Nat |-> A[x + m]]

LEMMA TracedDrops ==
  ASSUME NEW A, NEW q, IsSeq(q), Traced(A, q), NEW m \in 0..Len(q), NEW t, IsRest(t, q, m)
  PROVE  Traced(Shifted(A, m), t)
<1> DEFINE D == Shifted(A, m)
<1>1. /\ Len(q) \in Nat /\ Len(t) = Len(q) - m /\ Len(t) \in Nat
      /\ \A i \in 1..Len(q) - m : t[i] = q[i + m]
  BY LenIsNat DEF IsRest
<1>2. \A x \in 0..Len(t) : D[x] = A[x + m] /\ x + m \in 0..Len(q)
  BY <1>1 DEF Shifted
<1> HIDE DEF D
<1>3. \A x \in 0..Len(t) : D[x] \in Mark /\ D[x].o \in 1..FLen(D[x].c)
  BY <1>2 DEF Traced
<1>4. ASSUME NEW x \in 0..Len(t), NEW y \in 0..Len(t), x <= y PROVE D[x].h <= D[y].h
  <2>1. x + m <= y + m
    BY <1>1, <1>4
  <2> QED BY <1>2, <2>1 DEF Traced
<1>5. ASSUME NEW x \in 1..Len(t) PROVE Follows(D[x - 1], D[x], t[x])
  <2>1. x - 1 \in 0..Len(t) /\ x \in 0..Len(t) /\ x + m \in 1..Len(q) /\ x - 1 + m = x + m - 1 /\ x \in 1..Len(q) - m
    BY <1>1
  <2>2. D[x - 1] = A[x + m - 1] /\ D[x] = A[x + m] /\ t[x] = q[x + m]
    BY <1>1, <1>2, <2>1
  <2>3. Follows(A[x + m - 1], A[x + m], q[x + m])
    BY <2>1 DEF Traced
  <2> QED BY <2>2, <2>3
<1>6. Traced(D, t)
  BY <1>3, <1>4, <1>5 DEF Traced
<1> QED BY <1>6 DEF D

LEMMA StoryDrops ==
  ASSUME NEW A, NEW q, IsSeq(q), NEW last, NEW now, NEW n, Story(A, q, last, now, n),
         NEW m \in 0..Len(q), NEW t, IsRest(t, q, m)
  PROVE  /\ Story(Shifted(A, m), t, last, now, n) /\ Shifted(A, m)[0] = A[m] /\ A[0].h <= A[m].h
         /\ m > 0 => Story(Shifted(A, m), t, A[m], now, n) /\ Earlier(last, A[m])
<1> DEFINE D == Shifted(A, m)
<1>1. Len(q) \in Nat /\ Len(t) = Len(q) - m /\ Len(t) \in Nat
  BY LenIsNat DEF IsRest
<1>2. \A x \in 0..Len(t) : D[x] = A[x + m] /\ x + m \in 0..Len(q)
  BY <1>1 DEF Shifted
<1>3. Traced(D, t)
  BY TracedDrops DEF Story
<1> HIDE DEF D
<1>4. Ends(D[Len(t)], n)
  <2>1. D[Len(t)] = A[Len(q)]
    BY <1>1, <1>2
  <2> QED BY <2>1 DEF Story
<1>5. InTurn(D, t, last, now)
  <2>1. \A x \in 1..Len(t) : x \in 0..Len(t) /\ x + m \in 1..Len(q)
    BY <1>1
  <2>2. Earlier(last, now)
    BY DEF Story, InTurn
  <2>3. \A x \in 1..Len(t) : Earlier(last, D[x]) /\ Earlier(D[x], now)
    BY <1>2, <2>1 DEF Story, InTurn
  <2>4. ASSUME NEW x \in 1..Len(t), NEW y \in 1..Len(t), x <= y PROVE Earlier(D[x], D[y])
    <3>1. x + m <= y + m
      BY <1>1, <2>4
    <3> QED BY <1>2, <2>1, <3>1 DEF Story, InTurn
  <2> QED BY <2>2, <2>3, <2>4 DEF InTurn
<1>6. A[0].h <= A[m].h /\ D[0] = A[m]
  <2>1. 0 \in 0..Len(q) /\ m \in 0..Len(q) /\ 0 <= m /\ 0 \in 0..Len(t) /\ 0 + m = m
    BY <1>1
  <2> QED BY <1>2, <2>1 DEF Story, Traced
<1>7. ASSUME m > 0 PROVE InTurn(D, t, A[m], now) /\ Earlier(last, A[m])
  <2>1. m \in 1..Len(q)
    BY <1>1, <1>7
  <2>2. \A x \in 1..Len(t) : x \in 0..Len(t) /\ x + m \in 1..Len(q) /\ m <= x + m
    BY <1>1
  <2>3. Earlier(A[m], now) /\ Earlier(last, A[m])
    BY <2>1 DEF Story, InTurn
  <2>4. ASSUME NEW x \in 1..Len(t) PROVE Earlier(A[m], D[x])
    BY <1>2, <2>1, <2>2 DEF Story, InTurn
  <2> QED BY <1>5, <2>3, <2>4 DEF InTurn
<1> QED BY <1>3, <1>4, <1>5, <1>6, <1>7 DEF Story, D

\* The first n bytes of q are taken for a frame of a UID.
TakenFor(q, n) ==
  /\ n = (IF q[5] = "0" THEN 7 ELSE 11) /\ n <= Len(q)
  /\ q[1] = "AA" /\ q[2] = "D1" /\ q[3] = "D0" /\ q[4] = "02" /\ q[5] \in {"0", "4"}

\* try_parse_one: a frame that nothing hit is what it is taken for.
LEMMA TakenIsFrame ==
  ASSUME NEW A, NEW q, IsSeq(q), Traced(A, q), NEW n, TakenFor(q, n), ~(A[0].h < A[n].h)
  PROVE  /\ A[n].c = NoCard <=> q[5] = "0"
         /\ A[n].c # NoCard => \A k \in 1..4 : q[6 + k] = A[n].c[k]
<1>1. Len(q) \in Nat /\ n \in {7, 11} /\ n \in 0..Len(q) /\ (q[5] = "0" <=> n = 7)
  BY LenIsNat DEF TakenFor
<1>2. \A x \in 0..n : A[x].h = A[0].h /\ A[x] \in Mark /\ A[x].o \in 1..FLen(A[x].c) /\ A[x].c \in Cards
  <2> TAKE x \in 0..n
  <2>1. x \in 0..Len(q) /\ 0 \in 0..Len(q) /\ 0 <= x /\ x <= n
    BY <1>1
  <2>2. A[0].h <= A[x].h /\ A[x].h <= A[n].h
    BY <1>1, <2>1 DEF Traced
  <2>3. A[0] \in Mark /\ A[x] \in Mark /\ A[n] \in Mark /\ A[x].o \in 1..FLen(A[x].c)
    BY <1>1, <2>1 DEF Traced
  <2>4. A[0].h \in Nat /\ A[x].h \in Nat /\ A[n].h \in Nat /\ A[x].c \in Cards
    BY <2>3 DEF Mark
  <2> QED BY <2>2, <2>3, <2>4
<1> DEFINE c == A[1].c
<1> DEFINE o == A[1].o
<1> DEFINE f == ReaderFrame(c)
<1>3. \A x \in 1..n : q[x] = ReaderFrame(A[x].c)[A[x].o]
  <2> TAKE x \in 1..n
  <2>1. x \in 0..n /\ x - 1 \in 0..n /\ x \in 1..Len(q)
    BY <1>1
  <2>2. A[x - 1].h = A[x].h
    BY <1>2, <2>1
  <2>3. Follows(A[x - 1], A[x], q[x])
    BY <2>1 DEF Traced
  <2> QED BY <2>2, <2>3 DEF Follows
<1>4. \A x \in 2..n : A[x - 1].o < FLen(A[x - 1].c) => A[x].c = A[x - 1].c /\ A[x].o = A[x - 1].o + 1
  <2> TAKE x \in 2..n
  <2>1. x \in 0..n /\ x - 1 \in 0..n /\ x \in 1..Len(q)
    BY <1>1
  <2>2. A[x - 1].h = A[x].h
    BY <1>2, <2>1
  <2>3. Follows(A[x - 1], A[x], q[x])
    BY <2>1 DEF Traced
  <2> QED BY <2>2, <2>3 DEF Follows
<1>5. c \in Cards /\ o \in 1..FLen(c) /\ 1 \in 0..n /\ 1 \in 1..n
  BY <1>1, <1>2
<1>6. q[1] = f[o]
  BY <1>3, <1>5
<1> HIDE DEF c, o, f
<1>7. ASSUME NEW k \in 0..n - 1, o + k <= FLen(c)
      PROVE  \A j \in 0..10 : j <= k => A[1 + j].c = c /\ A[1 + j].o = o + j
  <2> DEFINE P(j) == j <= k => A[1 + j].c = c /\ A[1 + j].o = o + j
  <2>1. P(0)
    BY <1>5 DEF c, o
  <2>2. ASSUME NEW j \in 0..9, P(j) PROVE P(j + 1)
    <3> SUFFICES ASSUME j + 1 <= k PROVE A[1 + (j + 1)].c = c /\ A[1 + (j + 1)].o = o + (j + 1)
      OBVIOUS
    <3>1. 2 + j \in 2..n /\ 2 + j - 1 = 1 + j /\ 1 + (j + 1) = 2 + j /\ j <= k
      BY <1>1
    <3>2. A[1 + j].c = c /\ A[1 + j].o = o + j
      BY <2>2, <3>1
    <3>3. o + j < FLen(c)
      BY <1>5, <1>7, IsCard
    <3>4. A[2 + j].c = A[1 + j].c /\ A[2 + j].o = A[1 + j].o + 1
      BY <1>4, <3>1, <3>2, <3>3
    <3>5. o + j + 1 = o + (j + 1)
      BY <1>5, IsCard
    <3> QED BY <3>1, <3>2, <3>4, <3>5
  <2> HIDE DEF P
  <2>3. P(1)
    BY <2>1, <2>2, 0 \in 0..9, 0 + 1 = 1
  <2>4. P(2)
    BY <2>2, <2>3, 1 \in 0..9, 1 + 1 = 2
  <2>5. P(3)
    BY <2>2, <2>4, 2 \in 0..9, 2 + 1 = 3
  <2>6. P(4)
    BY <2>2, <2>5, 3 \in 0..9, 3 + 1 = 4
  <2>7. P(5)
    BY <2>2, <2>6, 4 \in 0..9, 4 + 1 = 5
  <2>8. P(6)
    BY <2>2, <2>7, 5 \in 0..9, 5 + 1 = 6
  <2>9. P(7)
    BY <2>2, <2>8, 6 \in 0..9, 6 + 1 = 7
  <2>10. P(8)
    BY <2>2, <2>9, 7 \in 0..9, 7 + 1 = 8
  <2>11. P(9)
    BY <2>2, <2>10, 8 \in 0..9, 8 + 1 = 9
  <2>12. P(10)
    BY <2>2, <2>11, 9 \in 0..9, 9 + 1 = 10
  <2>13. \A j \in 0..10 : P(j)
    <3>1. \A j \in 0..10 : j \in {0, 1, 2, 3, 4, 5, 6, 7, 8, 9, 10}
      OBVIOUS
    <3> QED BY <2>1, <2>3, <2>4, <2>5, <2>6, <2>7, <2>8, <2>9, <2>10, <2>11, <2>12, <3>1
  <2> QED BY <2>13 DEF P
<1>8. \A k \in 0..n - 1 : o + k <= FLen(c) => q[1 + k] = f[o + k]
  <2> SUFFICES ASSUME NEW k \in 0..n - 1, o + k <= FLen(c) PROVE q[1 + k] = f[o + k]
    OBVIOUS
  <2>1. k \in 0..10 /\ 1 + k \in 1..n
    BY <1>1
  <2>2. A[1 + k].c = c /\ A[1 + k].o = o + k
    BY <1>7, <2>1
  <2> QED BY <1>3, <2>1, <2>2 DEF f
<1>9. o = 1
  <2>1. CASE c = NoCard
    <3>1. o \in {1, 2, 3, 4, 5, 6, 7}
      BY <1>5, <2>1 DEF FLen
    <3> QED BY <1>6, <2>1, <3>1, IdleFrame DEF TakenFor, f
  <2>2. CASE c # NoCard
    <3>1. c \in Uids /\ FLen(c) = 11
      BY <1>5, <2>2 DEF Cards, FLen
    <3>2. /\ f[2] = "D1" /\ f[3] = "D0" /\ f[4] = "02" /\ f[5] = "4" /\ f[6] = "00" /\ f[11] = "state"
      BY <3>1, CardFrame DEF f
    <3>3. q[1] = "AA" /\ q[2] = "D1" /\ q[3] = "D0" /\ q[4] = "02" /\ q[5] \in {"0", "4"}
      BY DEF TakenFor
    <3>4. o \notin {2, 3, 4, 5, 6, 11}
      BY <1>6, <3>2, <3>3
    <3>5. o # 7
      <4>1. o = 7 => q[1 + 4] = f[o + 4]
        BY <1>1, <1>8, <3>1
      <4> QED BY <3>2, <3>3, <4>1
    <3>6. o # 8
      <4>1. o = 8 => q[1 + 3] = f[o + 3]
        BY <1>1, <1>8, <3>1
      <4> QED BY <3>2, <3>3, <4>1
    <3>7. o # 9
      <4>1. o = 9 => q[1 + 2] = f[o + 2]
        BY <1>1, <1>8, <3>1
      <4> QED BY <3>2, <3>3, <4>1
    <3>8. o # 10
      <4>1. 1 \in 0..n - 1 /\ (o = 10 => o + 1 <= FLen(c))
        BY <1>1, <3>1
      <4>2. o = 10 => q[1 + 1] = f[o + 1]
        BY <1>8, <4>1, Zenon
      <4>3. 1 + 1 = 2 /\ 10 + 1 = 11
        OBVIOUS
      <4> QED BY <3>2, <3>3, <4>2, <4>3
    <3>9. o \in 1..11
      BY <1>5, <3>1
    <3> QED BY <3>4, <3>5, <3>6, <3>7, <3>8, <3>9
  <2> QED BY <2>1, <2>2
<1>10. c = NoCard <=> q[5] = "0"
  <2>1. q[1 + 4] = f[1 + 4]
    <3>1. 4 \in 0..n - 1 /\ 1 + 4 <= FLen(c)
      BY <1>1, <1>5, IsCard
    <3> QED BY <1>8, <1>9, <3>1
  <2>2. c = NoCard => f[5] = "0"
    BY IdleFrame DEF f
  <2>3. c # NoCard => f[5] = "4"
    BY <1>5, CardFrame DEF f, Cards
  <2> QED BY <2>1, <2>2, <2>3
<1>11. A[n].c = c
  <2>1. n = FLen(c) /\ n - 1 \in 0..n - 1 /\ n - 1 \in 0..10 /\ 1 + (n - 1) = n /\ 1 + (n - 1) <= FLen(c)
    BY <1>1, <1>10 DEF FLen
  <2> QED BY <1>7, <1>9, <2>1
<1>12. ASSUME c # NoCard, NEW k \in 1..4 PROVE q[6 + k] = c[k]
  <2>1. c \in Uids /\ n = 11 /\ FLen(c) = 11
    BY <1>1, <1>5, <1>10, <1>12 DEF Cards, FLen
  <2>2. 5 + k \in 0..n - 1 /\ 1 + (5 + k) <= FLen(c) /\ 1 + (5 + k) = 6 + k
    BY <2>1
  <2>3. q[6 + k] = f[6 + k]
    BY <1>8, <1>9, <2>2
  <2> QED BY <2>1, <2>3, CardFrame DEF f
<1> QED BY <1>10, <1>11, <1>12

LEMMA EarlierTransits ==
  ASSUME NEW a, NEW b, NEW d, a.l \in Nat, b.l \in Nat, d.l \in Nat, Earlier(a, b), Earlier(b, d)
  PROVE  Earlier(a, d)
BY DEF Earlier

\* LayCard, LiftCard: another card, or none.
LEMMA StoryOfCard ==
  ASSUME NEW A, NEW q, NEW last, last.l \in Nat, NEW now, now.l \in Nat, NEW n, Story(A, q, last, now, n),
         Len(q) \in Nat, NEW new, new.l \in Nat, Earlier(now, new)
  PROVE  Story(A, q, last, new, n)
<1>1. \A x \in 1..Len(q) : A[x].l \in Nat
  <2> TAKE x \in 1..Len(q)
  <2>1. A[x] \in Mark
    BY DEF Story, Traced
  <2> QED BY <2>1 DEF Mark
<1>2. Earlier(last, now) /\ \A x \in 1..Len(q) : Earlier(last, A[x]) /\ Earlier(A[x], now)
  BY DEF Story, InTurn
<1>3. Earlier(last, new) /\ \A x \in 1..Len(q) : Earlier(A[x], new)
  BY <1>1, <1>2, EarlierTransits
<1>4. InTurn(A, q, last, new)
  BY <1>2, <1>3 DEF Story, InTurn
<1> QED BY <1>4 DEF Story

\* The reader answers with a frame.
LEMMA StoryOfFrame ==
  ASSUME NEW A, NEW q, IsSeq(q), NEW last, NEW now, now.c \in Cards, now.l \in Nat, NEW n \in Nat, Story(A, q, last, now, n)
  PROVE  \E D : D[0] = A[0] /\ Story(D, q \o ReaderFrame(now.c), last, now, n)
<1> DEFINE f == ReaderFrame(now.c)
<1>1. Len(q) \in Nat /\ IsSeq(f) /\ Len(f) = FLen(now.c) /\ FLen(now.c) \in {7, 11}
  <2>1. CASE now.c = NoCard
    BY <2>1, IdleFrame, LenIsNat DEF FLen
  <2>2. CASE now.c # NoCard
    BY <2>2, CardFrame, LenIsNat DEF FLen, Cards
  <2> QED BY <2>1, <2>2
<1> DEFINE N == Len(q)
<1> DEFINE L == FLen(now.c)
<1> DEFINE r == q \o f
<1> HIDE DEF f
<1>2. /\ IsSeq(r) /\ Len(r) = N + L
      /\ \A i \in 1..N + L : r[i] = IF i <= N THEN q[i] ELSE f[i - N]
  BY <1>1, Joined
<1> HIDE DEF r
<1> DEFINE New(x) == [c |-> now.c, l |-> now.l, o |-> x - N, h |-> n]
<1> DEFINE D == [x \in Nat |-> IF x <= N THEN A[x] ELSE New(x)]
<1>3. /\ \A x \in 0..N : D[x] = A[x]
      /\ \A x \in N + 1..N + L : D[x] = New(x) /\ New(x) \in Mark /\ New(x).o \in 1..L
  BY <1>1 DEF Mark
<1>4. /\ \A x \in N + 1..N + L : D[x].c = now.c /\ D[x].l = now.l /\ D[x].o = x - N /\ D[x].h = n
  BY <1>3
<1> HIDE DEF D, New
<1>5. 0..Len(r) = 0..N \cup N + 1..N + L /\ 1..Len(r) = 1..N \cup N + 1..N + L /\ N \in 0..N /\ 0 \in 0..N /\ N + L \in N + 1..N + L
  BY <1>1, <1>2
<1>6. /\ \A x \in 0..N : A[x] \in Mark /\ A[x].o \in 1..FLen(A[x].c) /\ A[x].h \in Nat /\ A[x].h <= A[N].h
      /\ A[N].h <= n /\ (A[N].h = n => A[N].o = FLen(A[N].c))
  <2>1. \A x \in 0..N : A[x] \in Mark /\ A[x].o \in 1..FLen(A[x].c) /\ x <= N
    BY <1>1 DEF Story, Traced
  <2>2. \A x \in 0..N : A[x].h \in Nat
    BY <2>1 DEF Mark
  <2> QED BY <1>5, <2>1, <2>2 DEF Story, Traced, Ends
<1>7. \A x \in 0..Len(r) : D[x] \in Mark /\ D[x].o \in 1..FLen(D[x].c)
  <2>1. \A x \in 0..N : D[x] \in Mark /\ D[x].o \in 1..FLen(D[x].c)
    BY <1>3, <1>6
  <2>2. \A x \in N + 1..N + L : D[x] \in Mark /\ D[x].o \in 1..FLen(D[x].c)
    BY <1>3, <1>4
  <2> QED BY <1>5, <2>1, <2>2
<1>8. ASSUME NEW x \in 0..Len(r), NEW y \in 0..Len(r), x <= y PROVE D[x].h <= D[y].h
  <2>1. CASE y \in 0..N
    <3>1. x \in 0..N
      BY <1>1, <1>8, <2>1
    <3> QED BY <1>3, <1>8, <2>1, <3>1 DEF Story, Traced
  <2>2. CASE x \in 0..N /\ y \in N + 1..N + L
    <3>1. A[x].h \in Nat /\ A[x].h <= n
      BY <1>5, <1>6, <2>2
    <3> QED BY <1>3, <1>4, <2>2, <3>1
  <2>3. CASE x \in N + 1..N + L /\ y \in N + 1..N + L
    BY <1>4, <2>3
  <2> QED BY <1>5, <2>1, <2>2, <2>3
<1>9. ASSUME NEW x \in 1..Len(r) PROVE Follows(D[x - 1], D[x], r[x])
  <2>1. CASE x \in 1..N
    <3>1. x - 1 \in 0..N /\ x \in 0..N /\ x \in 1..N + L /\ x <= N
      BY <1>1, <2>1
    <3>2. D[x - 1] = A[x - 1] /\ D[x] = A[x] /\ r[x] = q[x]
      BY <1>2, <1>3, <3>1
    <3> QED BY <2>1, <3>2 DEF Story, Traced
  <2>2. CASE x \in N + 1..N + L
    <3>1. x \in 1..N + L /\ ~(x <= N) /\ r[x] = f[x - N]
      BY <1>1, <1>2, <2>2
    <3>2. D[x].c = now.c /\ D[x].l = now.l /\ D[x].o = x - N /\ D[x].h = n
      BY <1>4, <2>2
    <3>3. r[x] = ReaderFrame(D[x].c)[D[x].o]
      BY <3>1, <3>2 DEF f
    <3>4. CASE x = N + 1
      <4>1. D[x - 1] = A[N]
        BY <1>1, <1>3, <1>5, <3>4
      <4>2. ~(A[N].h = n /\ A[N].o < FLen(A[N].c))
        BY <1>5, <1>6
      <4> QED BY <3>2, <3>3, <4>1, <4>2 DEF Follows
    <3>5. CASE x # N + 1
      <4>1. x - 1 \in N + 1..N + L /\ x - N = x - 1 - N + 1
        BY <1>1, <2>2, <3>5
      <4>2. D[x - 1].c = now.c /\ D[x - 1].l = now.l /\ D[x - 1].o = x - 1 - N
        BY <1>4, <4>1
      <4> QED BY <3>2, <3>3, <4>1, <4>2 DEF Follows
    <3> QED BY <3>4, <3>5
  <2> QED BY <1>5, <2>1, <2>2
<1>10. Traced(D, r)
  BY <1>7, <1>8, <1>9 DEF Traced
<1>11. InTurn(D, r, last, now)
  <2>1. Earlier(last, now) /\ \A x \in 1..N : Earlier(last, A[x]) /\ Earlier(A[x], now)
    BY DEF Story, InTurn
  <2>2. \A x \in 1..N : D[x] = A[x] /\ x \in 0..N
    BY <1>1, <1>3
  <2>3. \A x \in N + 1..N + L : \A z : (Earlier(z, D[x]) <=> Earlier(z, now)) /\ (Earlier(D[x], z) <=> Earlier(now, z))
    BY <1>4 DEF Earlier
  <2>4. Earlier(now, now)
    BY DEF Earlier
  <2>5. \A x \in 1..Len(r) : Earlier(last, D[x]) /\ Earlier(D[x], now)
    BY <1>5, <2>1, <2>2, <2>3, <2>4
  <2>6. ASSUME NEW x \in 1..Len(r), NEW y \in 1..Len(r), x <= y PROVE Earlier(D[x], D[y])
    <3>1. CASE y \in 1..N
      <4>1. x \in 1..N
        BY <1>1, <2>6, <3>1
      <4> QED BY <2>2, <2>6, <3>1, <4>1 DEF Story, InTurn
    <3>2. CASE y \in N + 1..N + L
      BY <2>3, <2>5, <3>2
    <3> QED BY <1>5, <3>1, <3>2
  <2> QED BY <2>1, <2>5, <2>6 DEF InTurn
<1>12. Ends(D[Len(r)], n)
  <2>1. D[N + L].h = n /\ D[N + L].o = N + L - N /\ D[N + L].c = now.c /\ N + L - N = L
    BY <1>1, <1>4, <1>5
  <2> QED BY <1>2, <2>1 DEF Ends
<1>13. D[0] = A[0]
  BY <1>3, <1>5
<1>14. D[0] = A[0] /\ Story(D, r, last, now, n)
  BY <1>10, <1>11, <1>12, <1>13 DEF Story
<1> HIDE DEF N, L
<1>15. \E E : E[0] = A[0] /\ Story(E, r, last, now, n)
  BY <1>14
<1> QED BY <1>15 DEF r, f

\* The byte at i is lost (k is 1) or spoilt (k is 0).
Struck(t, q, i, k) ==
  /\ IsSeq(t) /\ i \in 1..Len(q) /\ k \in {0, 1} /\ Len(t) = Len(q) - k
  /\ \A x \in 1..Len(t) : (x < i => t[x] = q[x]) /\ (x > i => t[x] = q[x + k])

LEMMA StoryOfHit ==
  ASSUME NEW A, NEW q, IsSeq(q), NEW last, NEW now, NEW n \in Nat, Story(A, q, last, now, n),
         NEW t, NEW i, NEW k, Struck(t, q, i, k)
  PROVE  \E D : D[0] = A[0] /\ Story(D, t, last, now, n + 1)
<1>1. /\ Len(q) \in Nat /\ IsSeq(t) /\ i \in 1..Len(q) /\ k \in {0, 1} /\ Len(t) = Len(q) - k /\ Len(t) \in Nat
      /\ \A x \in 1..Len(t) : (x < i => t[x] = q[x]) /\ (x > i => t[x] = q[x + k])
  BY LenIsNat DEF Struck
<1> DEFINE After(x) == [c |-> A[x].c, l |-> A[x].l, o |-> A[x].o, h |-> A[x].h + 1]
<1> DEFINE D == [x \in Nat |-> IF x < i THEN A[x] ELSE After(x + k)]
<1>2. \A x \in 0..Len(q) : A[x] \in Mark /\ A[x].c \in Cards /\ A[x].l \in Nat /\ A[x].o \in Nat /\ A[x].h \in Nat
                           /\ A[x].o \in 1..FLen(A[x].c)
  <2>1. \A x \in 0..Len(q) : A[x] \in Mark /\ A[x].o \in 1..FLen(A[x].c)
    BY DEF Story, Traced
  <2> QED BY <2>1 DEF Mark
<1>3. \A x \in 0..Len(t) : x < i => D[x] = A[x] /\ x \in 0..Len(q)
  BY <1>1
<1>4. \A x \in 0..Len(t) : ~(x < i) => D[x] = After(x + k) /\ x + k \in 0..Len(q)
  BY <1>1
<1>5. \A x \in 0..Len(q) : After(x) \in Mark /\ After(x).c = A[x].c /\ After(x).l = A[x].l /\ After(x).o = A[x].o
                           /\ After(x).h = A[x].h + 1
  BY <1>2 DEF Mark
<1> HIDE DEF D, After
<1>6. \A x \in 0..Len(t) : D[x] \in Mark /\ D[x].o \in 1..FLen(D[x].c)
  BY <1>2, <1>3, <1>4, <1>5
<1>7. ASSUME NEW x \in 0..Len(t), NEW y \in 0..Len(t), x <= y PROVE D[x].h <= D[y].h
  <2>1. CASE y < i
    <3>1. x < i
      BY <1>1, <1>7, <2>1
    <3> QED BY <1>3, <1>7, <2>1, <3>1 DEF Story, Traced
  <2>2. CASE x < i /\ ~(y < i)
    <3>1. x \in 0..Len(q) /\ y + k \in 0..Len(q) /\ x <= y + k
      BY <1>1, <1>3, <1>4, <1>7, <2>2
    <3>2. A[x].h <= A[y + k].h
      BY <3>1 DEF Story, Traced
    <3>3. A[x].h \in Nat /\ A[y + k].h \in Nat
      BY <1>2, <3>1
    <3>4. D[x].h = A[x].h /\ D[y].h = A[y + k].h + 1
      BY <1>3, <1>4, <1>5, <2>2, <3>1
    <3> QED BY <3>2, <3>3, <3>4
  <2>3. CASE ~(x < i) /\ ~(y < i)
    <3>1. x + k \in 0..Len(q) /\ y + k \in 0..Len(q) /\ x + k <= y + k
      BY <1>1, <1>4, <1>7, <2>3
    <3>2. A[x + k].h <= A[y + k].h
      BY <3>1 DEF Story, Traced
    <3>3. A[x + k].h \in Nat /\ A[y + k].h \in Nat
      BY <1>2, <3>1
    <3>4. D[x].h = A[x + k].h + 1 /\ D[y].h = A[y + k].h + 1
      BY <1>4, <1>5, <2>3, <3>1
    <3> QED BY <3>2, <3>3, <3>4
  <2>4. x < i \/ ~(y < i)
    BY <1>1, <1>7
  <2> QED BY <2>1, <2>2, <2>3, <2>4
<1>8. ASSUME NEW x \in 1..Len(t) PROVE Follows(D[x - 1], D[x], t[x])
  <2>1. x \in 0..Len(t) /\ x - 1 \in 0..Len(t) /\ x - 1 < x
    BY <1>1
  <2>2. CASE x < i
    <3>1. x - 1 < i /\ x \in 1..Len(q)
      BY <1>1, <2>2
    <3>2. D[x - 1] = A[x - 1] /\ D[x] = A[x] /\ t[x] = q[x]
      BY <1>1, <1>3, <2>1, <2>2, <3>1
    <3>3. Follows(A[x - 1], A[x], q[x])
      BY <3>1 DEF Story, Traced
    <3> QED BY <3>2, <3>3
  <2>3. CASE x = i
    <3>1. x - 1 < i /\ ~(x < i) /\ x - 1 \in 0..Len(q) /\ x + k \in 0..Len(q) /\ x - 1 <= x + k
      BY <1>1, <1>3, <1>4, <2>1, <2>3
    <3>2. A[x - 1].h <= A[x + k].h
      BY <3>1 DEF Story, Traced
    <3>3. A[x - 1].h \in Nat /\ A[x + k].h \in Nat
      BY <1>2, <3>1
    <3>4. D[x - 1].h = A[x - 1].h /\ D[x].h = A[x + k].h + 1
      BY <1>3, <1>4, <1>5, <2>1, <3>1
    <3>5. D[x - 1].h # D[x].h
      BY <3>2, <3>3, <3>4
    <3> QED BY <3>5 DEF Follows
  <2>4. CASE x > i
    <3>1. PICK y \in 1..Len(q) : y = x + k /\ y - 1 = x - 1 + k /\ ~(x - 1 < i) /\ ~(x < i)
      BY <1>1, <2>4
    <3>2. D[x - 1] = After(y - 1) /\ D[x] = After(y) /\ t[x] = q[y] /\ y - 1 \in 0..Len(q) /\ y \in 0..Len(q)
      <4>1. D[x - 1] = After(x - 1 + k) /\ x - 1 + k \in 0..Len(q)
        BY <1>4, <2>1, <3>1
      <4>2. D[x] = After(x + k) /\ x + k \in 0..Len(q)
        BY <1>4, <2>1, <3>1
      <4>3. t[x] = q[x + k]
        BY <1>1, <2>4
      <4> QED BY <3>1, <4>1, <4>2, <4>3
    <3>3. Follows(A[y - 1], A[y], q[y])
      BY <3>1 DEF Story, Traced
    <3> DEFINE a == A[y - 1]
    <3> DEFINE b == A[y]
    <3>4. a.h \in Nat /\ b.h \in Nat
      BY <1>2, <3>2
    <3>5. /\ D[x - 1].c = a.c /\ D[x - 1].l = a.l /\ D[x - 1].o = a.o /\ D[x - 1].h = a.h + 1
          /\ D[x].c = b.c /\ D[x].l = b.l /\ D[x].o = b.o /\ D[x].h = b.h + 1
      BY <1>5, <3>2
    <3> HIDE DEF a, b
    <3>6. Follows(a, b, t[x])
      BY <3>2, <3>3 DEF a, b
    <3>7. D[x - 1].h = D[x].h => a.h = b.h
      BY <3>4, <3>5
    <3> QED BY <3>5, <3>6, <3>7 DEF Follows
  <2>5. x < i \/ x = i \/ x > i
    BY <1>1
  <2> QED BY <2>2, <2>3, <2>4, <2>5
<1>9. Traced(D, t)
  BY <1>6, <1>7, <1>8 DEF Traced
<1>10. InTurn(D, t, last, now)
  <2> DEFINE At(x) == IF x < i THEN x ELSE x + k
  <2>1. \A x \in 1..Len(t) : D[x].c = A[At(x)].c /\ D[x].l = A[At(x)].l
    BY <1>1, <1>3, <1>4, <1>5
  <2>2. \A x \in 1..Len(t) : At(x) \in 1..Len(q)
    BY <1>1
  <2>3. \A x, y \in 1..Len(t) : x <= y => At(x) <= At(y)
    BY <1>1
  <2> HIDE DEF At
  <2>4. Earlier(last, now)
    BY DEF Story, InTurn
  <2>5. \A x \in 1..Len(q) : Earlier(last, A[x]) /\ Earlier(A[x], now)
    BY DEF Story, InTurn
  <2>6. \A x, y \in 1..Len(q) : x <= y => Earlier(A[x], A[y])
    BY DEF Story, InTurn
  <2>7. \A x \in 1..Len(t) : Earlier(last, D[x]) /\ Earlier(D[x], now)
    BY <2>1, <2>2, <2>5 DEF Earlier
  <2>8. ASSUME NEW x \in 1..Len(t), NEW y \in 1..Len(t), x <= y PROVE Earlier(D[x], D[y])
    <3>1. Earlier(A[At(x)], A[At(y)])
      BY <2>2, <2>3, <2>6, <2>8
    <3> QED BY <2>1, <3>1 DEF Earlier
  <2> QED BY <2>4, <2>7, <2>8 DEF InTurn
<1>11. Ends(D[Len(t)], n + 1)
  <2>1. A[Len(q)].h <= n /\ (A[Len(q)].h = n => A[Len(q)].o = FLen(A[Len(q)].c))
    BY DEF Story, Ends
  <2>2. Len(t) \in 0..Len(t) /\ Len(q) \in 0..Len(q)
    BY <1>1
  <2>3. CASE Len(t) < i
    <3>1. Len(t) \in 0..Len(q) /\ Len(t) <= Len(q)
      BY <1>1
    <3>2. A[Len(t)].h <= A[Len(q)].h /\ A[Len(t)].h \in Nat /\ A[Len(q)].h \in Nat
      BY <1>2, <2>2, <3>1 DEF Story, Traced
    <3>3. D[Len(t)] = A[Len(t)]
      BY <1>3, <2>2, <2>3
    <3>4. D[Len(t)].h <= n
      BY <2>1, <3>2, <3>3
    <3> QED BY <3>2, <3>3, <3>4 DEF Ends
  <2>4. CASE ~(Len(t) < i)
    <3>1. Len(t) + k = Len(q)
      BY <1>1
    <3>2. D[Len(t)] = After(Len(q))
      BY <1>4, <2>2, <2>4, <3>1
    <3>3. A[Len(q)].h \in Nat
      BY <1>2, <2>2
    <3> QED BY <1>5, <2>1, <2>2, <3>2, <3>3 DEF Ends
  <2> QED BY <2>3, <2>4
<1>12. D[0] = A[0]
  BY <1>1, <1>3
<1> QED BY <1>9, <1>10, <1>11, <1>12 DEF Story

-----------------------------------------------------------------------------
(* A card is reported when it is put down, and a byte that is hit costs two reports. *)

\* rfid_feed.  n reports so far, of them two for each of g bytes that were hit, and one
\* more to come if what is latched is of a frame with such a byte.
Paid(n, uid, last, g) == n + (IF uid # last.c THEN 1 ELSE 0) <= last.l + 2 * g

Now == [c |-> card, l |-> laid]

Accounted(n, uid, q) ==
  \E A, last, g :
    /\ last.c \in Cards /\ last.l \in Nat /\ g \in Nat /\ g <= A[0].h
    /\ Story(A, q, last, Now, hits) /\ Paid(n, uid, last, g)

Reports(c) == IF c.edge /\ c.uid # NoCard THEN 1 ELSE 0
Parsing(c, T) ==
  /\ c = [buf |-> c.buf, uid |-> c.uid, edge |-> c.edge, more |-> c.more] /\ c.edge \in BOOLEAN /\ c.more \in BOOLEAN
  /\ IsSeq(c.buf) /\ Accounted(swipes + Reports(c), c.uid, c.buf \o T)

Held == rfid.buf \o (rfid_ring \o wire)
ReaderInv ==
  /\ card \in Cards /\ swipes \in Nat /\ laid \in Nat /\ hits \in Nat
  /\ IsSeq(rfid.buf) /\ IsSeq(rfid_ring) /\ IsSeq(wire) /\ Len(rfid_ring) + Len(wire) <= 11
  /\ Accounted(swipes, rfid.uid, Held)

LEMMA FromPreambleIsRest == ASSUME NEW s, IsSeq(s) PROVE \E m \in 0..Len(s) : IsRest(FromPreamble(s), s, m)
<1> DEFINE at == {i \in DOMAIN s : s[i] = "AA"}
<1>1. DOMAIN s = 1..Len(s) /\ Len(s) \in Nat
  BY DomainOfSeq, LenIsNat
<1>2. FromPreamble(s) = IF at = {} THEN <<>> ELSE SubSeq(s, Min(at), Len(s))
  BY DEF FromPreamble
<1>3. CASE at = {}
  BY <1>2, <1>3, NoneIsRest
<1>4. CASE at # {}
  <2>1. at \in SUBSET Nat
    BY <1>1
  <2>2. Min(at) \in at
    BY <1>4, <2>1, MinExists
  <2> DEFINE m == Min(at) - 1
  <2>3. m \in 0..Len(s) /\ Min(at) = m + 1
    BY <1>1, <2>2
  <2> HIDE DEF m, at
  <2>4. IsRest(SubSeq(s, m + 1, Len(s)), s, m)
    BY <2>3, SuffixIsRest
  <2> QED BY <1>2, <1>4, <2>3, <2>4
<1> QED BY <1>3, <1>4

LEMMA KeptIsRest == ASSUME NEW s, IsSeq(s) PROVE \E m \in 0..Len(s) : IsRest(Kept(s), s, m)
<1> DEFINE a == Len(s) - RFID_FRAME_MAX_LEN + 1
<1>1. Len(s) \in Nat /\ RFID_FRAME_MAX_LEN = 16 /\ a \in Int
  BY LenIsNat DEF RFID_FRAME_MAX_LEN
<1>2. Max({1, a}) = IF a > 1 THEN a ELSE 1
  <2>1. \E x \in {1, a} : \A y \in {1, a} : x >= y
    BY <1>1
  <2>2. Max({1, a}) \in {1, a} /\ \A y \in {1, a} : Max({1, a}) >= y
    BY <2>1 DEF Max
  <2> QED BY <1>1, <2>2
<1> DEFINE m == (IF a > 1 THEN a ELSE 1) - 1
<1>3. m \in 0..Len(s) /\ Max({1, a}) = m + 1
  BY <1>1, <1>2
<1>4. Kept(s) = SubSeq(s, m + 1, Len(s))
  BY <1>3 DEF Kept
<1> HIDE DEF m
<1> QED BY <1>3, <1>4, SuffixIsRest

\* Bytes that are dropped cost nothing.
LEMMA AccountDrops ==
  ASSUME NEW n, NEW uid, NEW q, IsSeq(q), Accounted(n, uid, q), NEW m \in 0..Len(q), NEW t, IsRest(t, q, m)
  PROVE  Accounted(n, uid, t)
<1>1. PICK A, last, g :
        /\ last.c \in Cards /\ last.l \in Nat /\ g \in Nat /\ g <= A[0].h
        /\ Story(A, q, last, Now, hits) /\ Paid(n, uid, last, g)
  BY DEF Accounted
<1> DEFINE D == Shifted(A, m)
<1>2. Story(D, t, last, Now, hits) /\ D[0] = A[m] /\ A[0].h <= A[m].h
  BY <1>1, StoryDrops
<1>3. A[0].h \in Nat /\ A[m].h \in Nat
  <2>1. 0 \in 0..Len(q)
    BY LenIsNat
  <2>2. A[0] \in Mark /\ A[m] \in Mark
    BY <1>1, <2>1 DEF Story, Traced
  <2> QED BY <2>2 DEF Mark
<1> HIDE DEF D
<1>4. g <= D[0].h
  BY <1>1, <1>2, <1>3
<1> QED BY <1>1, <1>2, <1>4 DEF Accounted

\* A frame is taken: that of a card, or one with a byte that was hit.
LEMMA AccountTakes ==
  ASSUME NEW c, NEW q, IsSeq(q), Accounted(swipes + Reports(c), c.uid, q), swipes \in Nat, c.edge \in BOOLEAN,
         NEW n, TakenFor(q, n), NEW t, IsRest(t, q, n), NEW d, IsSeq(d.uid), d.edge = (c.edge \/ d.uid # c.uid),
         q[5] = "0" => d.uid = NoCard,
         q[5] # "0" => Len(d.uid) = 4 /\ \A k \in 1..4 : d.uid[k] = q[6 + k]
  PROVE  Accounted(swipes + Reports(d), d.uid, t)
<1>1. PICK A, last, g :
        /\ last.c \in Cards /\ last.l \in Nat /\ g \in Nat /\ g <= A[0].h
        /\ Story(A, q, last, Now, hits) /\ Paid(swipes + Reports(c), c.uid, last, g)
  BY DEF Accounted
<1>2. Len(q) \in Nat /\ n \in 1..Len(q) /\ n \in 0..Len(q) /\ n > 0
  BY LenIsNat DEF TakenFor
<1> DEFINE D == Shifted(A, n)
<1>3. Story(D, t, A[n], Now, hits) /\ Earlier(last, A[n]) /\ D[0] = A[n] /\ A[0].h <= A[n].h
  BY <1>1, <1>2, StoryDrops
<1>4. A[0].h \in Nat /\ A[n].h \in Nat /\ A[n].c \in Cards /\ A[n].l \in Nat
  <2>1. 0 \in 0..Len(q)
    BY <1>2
  <2>2. A[0] \in Mark /\ A[n] \in Mark
    BY <1>1, <1>2, <2>1 DEF Story, Traced
  <2> QED BY <2>2 DEF Mark
<1> HIDE DEF D
<1> DEFINE new == A[n]
<1>5. new.c \in Cards /\ new.l \in Nat /\ Earlier(last, new) /\ Story(D, t, new, Now, hits)
  BY <1>3, <1>4
<1>6. Reports(c) \in {0, 1} /\ Reports(d) \in {0, 1}
  BY DEF Reports
<1>7. CASE A[0].h < A[n].h
  <2> DEFINE e == g + 1
  <2>1. e \in Nat /\ e <= D[0].h
    BY <1>1, <1>3, <1>4, <1>7
  <2>2. Paid(swipes + Reports(d), d.uid, new, e)
    <3>1. last.l <= new.l
      BY <1>5 DEF Earlier
    <3>2. swipes + Reports(c) <= last.l + 2 * g
      BY <1>1, <1>6 DEF Paid
    <3>3. swipes + Reports(d) + 1 <= new.l + 2 * (g + 1)
      BY <1>1, <1>5, <1>6, <3>1, <3>2
    <3>4. swipes + Reports(d) + 0 <= new.l + 2 * (g + 1)
      BY <1>1, <1>5, <1>6, <3>3
    <3> QED BY <3>3, <3>4 DEF Paid
  <2> HIDE DEF new, e
  <2> QED BY <1>5, <2>1, <2>2 DEF Accounted
<1>8. CASE ~(A[0].h < A[n].h)
  <2>1. /\ new.c = NoCard <=> q[5] = "0"
        /\ new.c # NoCard => \A k \in 1..4 : q[6 + k] = new.c[k]
    BY <1>1, <1>8, TakenIsFrame DEF Story
  <2>2. d.uid = new.c
    <3>1. CASE new.c = NoCard
      BY <2>1, <3>1
    <3>2. CASE new.c # NoCard
      <4>1. IsSeq(new.c) /\ Len(new.c) = 4
        BY <1>5, <3>2, IsCard
      <4>2. Len(d.uid) = 4 /\ \A k \in 1..4 : d.uid[k] = new.c[k]
        BY <2>1, <3>2
      <4> HIDE DEF new
      <4> QED BY <4>1, <4>2, SameSeq
    <3> QED BY <3>1, <3>2
  <2>3. g \in Nat /\ g <= D[0].h
    BY <1>1, <1>3, <1>4
  <2> HIDE DEF new
  <2>4. last.l <= new.l /\ (last.c # new.c /\ new.c # NoCard => last.l < new.l)
    BY <1>5 DEF Earlier
  <2>5. swipes + Reports(c) + (IF c.uid # last.c THEN 1 ELSE 0) <= last.l + 2 * g
    BY <1>1 DEF Paid
  <2>6. swipes + Reports(d) + 0 <= new.l + 2 * g
    <3>1. swipes \in Nat /\ last.l \in Nat /\ new.l \in Nat /\ g \in Nat
      BY <1>1, <1>5
    <3>2. CASE Reports(d) = 0
      <4>1. swipes <= last.l + 2 * g
        BY <1>6, <2>5, <3>1
      <4> QED BY <2>4, <3>1, <3>2, <4>1
    <3>3. CASE Reports(d) = 1 /\ d.uid = c.uid
      <4>1. Reports(c) = 1
        BY <3>3 DEF Reports
      <4>2. swipes + 1 <= last.l + 2 * g
        BY <2>5, <3>1, <4>1
      <4> QED BY <2>4, <3>1, <3>3, <4>2
    <3>4. CASE Reports(d) = 1 /\ d.uid # c.uid
      <4>1. new.c # NoCard
        BY <2>2, <3>4 DEF Reports
      <4>2. CASE c.uid = last.c
        <5>1. last.l < new.l
          BY <2>2, <2>4, <3>4, <4>1, <4>2
        <5>2. swipes <= last.l + 2 * g
          BY <1>6, <2>5, <3>1
        <5> QED BY <3>1, <3>4, <5>1, <5>2
      <4>3. CASE c.uid # last.c
        <5>1. swipes + 1 <= last.l + 2 * g
          BY <1>6, <2>5, <3>1, <4>3
        <5> QED BY <2>4, <3>1, <3>4, <5>1
      <4> QED BY <4>2, <4>3
    <3> QED BY <1>6, <3>2, <3>3, <3>4
  <2>7. Paid(swipes + Reports(d), d.uid, new, g)
    BY <2>2, <2>6 DEF Paid
  <2> QED BY <1>5, <2>3, <2>7 DEF Accounted
<1> QED BY <1>7, <1>8

\* try_parse_one keeps the account, whatever it does to the buffer.
LEMMA RoundKeeps ==
  ASSUME swipes \in Nat, NEW T, IsSeq(T), NEW c, Parsing(c, T)
  PROVE  Parsing(try_parse_one(c), T)
<1> DEFINE b == FromPreamble(c.buf)
<1> DEFINE d == try_parse_one(c)
<1>1. IsSeq(c.buf) /\ c.edge \in BOOLEAN /\ Accounted(swipes + Reports(c), c.uid, c.buf \o T)
      /\ c = [buf |-> c.buf, uid |-> c.uid, edge |-> c.edge, more |-> c.more]
  BY DEF Parsing
<1>2. PICK m \in 0..Len(c.buf) : IsRest(b, c.buf, m)
  BY <1>1, FromPreambleIsRest
<1>3. IsSeq(b) /\ Len(b) \in Nat
  BY <1>2, LenIsNat DEF IsRest
<1>4. Accounted(swipes + Reports(c), c.uid, b \o T)
  <2>1. m \in 0..Len(c.buf \o T) /\ IsRest(b \o T, c.buf \o T, m) /\ IsSeq(c.buf \o T)
    BY <1>1, <1>2, RestJoined, Joined
  <2> QED BY <1>1, <2>1, AccountDrops
<1>5. d = CASE Len(b) < 5 -> [c EXCEPT !.buf = b, !.more = FALSE]
            [] Len(b) >= 5 /\ Mismatch(b) -> [c EXCEPT !.buf = Tail(b), !.more = FALSE]
            [] Len(b) >= 5 /\ ~Mismatch(b) /\ Len(b) < FrameLength(b) -> [c EXCEPT !.buf = b, !.more = FALSE]
            [] OTHER -> [buf |-> SubSeq(b, FrameLength(b) + 1, Len(b)), uid |-> FrameUid(b), more |-> TRUE,
                         edge |-> c.edge \/ Edge(c.uid, FrameUid(b))]
  BY DEF try_parse_one
<1> HIDE DEF b, d
\* Nothing is taken.
<1>6. ASSUME NEW e, IsSeq(e), d = [c EXCEPT !.buf = e, !.more = FALSE], Accounted(swipes + Reports(c), c.uid, e \o T)
      PROVE  Parsing(d, T)
  <2>1. d = [buf |-> e, uid |-> c.uid, edge |-> c.edge, more |-> FALSE]
    BY <1>1, <1>6
  <2>2. d.buf = e /\ d.uid = c.uid /\ d.edge = c.edge /\ d.more = FALSE
    BY <2>1
  <2>3. Reports(d) = Reports(c)
    BY <2>2 DEF Reports
  <2> QED BY <1>1, <1>6, <2>1, <2>2, <2>3 DEF Parsing
<1>7. CASE Len(b) < 5
  <2>1. d = [c EXCEPT !.buf = b, !.more = FALSE]
    BY <1>5, <1>7
  <2> QED BY <1>3, <1>4, <1>6, <2>1 DEF d
<1>8. CASE Len(b) >= 5 /\ Mismatch(b)
  <2>1. d = [c EXCEPT !.buf = Tail(b), !.more = FALSE]
    BY <1>3, <1>5, <1>8
  <2>2. b # <<>>
    BY <1>8, EmptyIsSeq
  <2>3. IsRest(Tail(b), b, 1) /\ 1 \in 0..Len(b) /\ IsSeq(Tail(b))
    BY <1>3, <2>2, TailIsRest DEF IsRest
  <2>4. 1 \in 0..Len(b \o T) /\ IsRest(Tail(b) \o T, b \o T, 1) /\ IsSeq(b \o T)
    BY <1>3, <2>3, RestJoined, Joined
  <2>5. Accounted(swipes + Reports(c), c.uid, Tail(b) \o T)
    BY <1>4, <2>4, AccountDrops
  <2> QED BY <1>6, <2>1, <2>3, <2>5 DEF d
<1>9. CASE Len(b) >= 5 /\ ~Mismatch(b) /\ Len(b) < FrameLength(b)
  <2>1. d = [c EXCEPT !.buf = b, !.more = FALSE]
    BY <1>3, <1>5, <1>9
  <2> QED BY <1>3, <1>4, <1>6, <2>1 DEF d
\* A frame is taken.
<1>10. CASE Len(b) >= 5 /\ ~Mismatch(b) /\ ~(Len(b) < FrameLength(b))
  <2> DEFINE n == FrameLength(b)
  <2> DEFINE u == FrameUid(b)
  <2> DEFINE r == SubSeq(b, n + 1, Len(b))
  <2>1. d = [buf |-> r, uid |-> u, more |-> TRUE, edge |-> c.edge \/ Edge(c.uid, u)]
    BY <1>3, <1>5, <1>10
  <2>2. n = (IF b[5] = "0" THEN 7 ELSE 11) /\ n <= Len(b) /\ n \in 0..Len(b)
    BY <1>3, <1>10 DEF FrameLength
  <2>3. SubSeq(b, 1, 4) = Preamble /\ b[5] \in {"0", "4"}
    BY <1>10 DEF Mismatch
  <2>4. b[1] = "AA" /\ b[2] = "D1" /\ b[3] = "D0" /\ b[4] = "02"
    <3>1. Preamble[1] = "AA" /\ Preamble[2] = "D1" /\ Preamble[3] = "D0" /\ Preamble[4] = "02"
      BY Four, Zenon DEF Preamble
    <3>2. 1 \in 1..Len(b) + 1 /\ 4 \in 1 - 1..Len(b) /\ 4 - 1 + 1 = 4 /\ \A i \in 1..4 : 1 + i - 1 = i
      BY <1>3, <1>10
    <3>3. \A i \in 1..4 - 1 + 1 : SubSeq(b, 1, 4)[i] = b[1 + i - 1]
      BY <1>3, <3>2, SlicedSeq
    <3>4. \A i \in 1..4 : Preamble[i] = b[i]
      BY <2>3, <3>2, <3>3
    <3> QED BY <3>1, <3>4
  <2>5. IsSeq(u) /\ (b[5] = "0" => u = NoCard) /\ (b[5] # "0" => Len(u) = 4 /\ \A k \in 1..4 : u[k] = b[6 + k])
    <3>1. CASE b[5] = "0"
      BY <3>1, EmptyIsSeq DEF FrameUid, NoCard
    <3>2. CASE b[5] # "0"
      <4>1. u = SubSeq(b, 7, 10)
        BY <3>2 DEF FrameUid
      <4>2. 7 \in 1..Len(b) + 1 /\ 10 \in 7 - 1..Len(b) /\ 10 - 7 + 1 = 4 /\ \A k \in 1..4 : 7 + k - 1 = 6 + k
        BY <1>3, <2>2, <3>2
      <4>3. /\ IsSeq(SubSeq(b, 7, 10)) /\ Len(SubSeq(b, 7, 10)) = 10 - 7 + 1
            /\ \A i \in 1..10 - 7 + 1 : SubSeq(b, 7, 10)[i] = b[7 + i - 1]
        BY <1>3, <4>2, SlicedSeq
      <4>4. IsSeq(u) /\ Len(u) = 4 /\ \A k \in 1..4 : u[k] = b[6 + k]
        BY <4>1, <4>2, <4>3
      <4> QED BY <3>2, <4>4
    <3> QED BY <3>1, <3>2
  <2>6. IsRest(r, b, n) /\ IsSeq(r)
    BY <1>3, <2>2, SuffixIsRest DEF IsRest
  <2> HIDE DEF n, u, r
  <2> DEFINE q == b \o T
  <2>7. /\ IsSeq(q) /\ Len(q) = Len(b) + Len(T) /\ Len(T) \in Nat
        /\ \A i \in 1..Len(b) + Len(T) : q[i] = IF i <= Len(b) THEN b[i] ELSE T[i - Len(b)]
    BY <1>3, Joined, LenIsNat
  <2>8. IsRest(r \o T, q, n)
    BY <1>3, <2>2, <2>6, RestJoined
  <2> HIDE DEF q
  <2>9. \A i \in 1..n : q[i] = b[i]
    <3> TAKE i \in 1..n
    <3>1. i \in 1..Len(b) + Len(T) /\ i <= Len(b)
      BY <1>3, <2>2, <2>7
    <3> QED BY <2>7, <3>1
  <2>10. q[1] = b[1] /\ q[2] = b[2] /\ q[3] = b[3] /\ q[4] = b[4] /\ q[5] = b[5]
    BY <2>2, <2>9
  <2>11. TakenFor(q, n)
    BY <1>3, <2>2, <2>3, <2>4, <2>7, <2>10 DEF TakenFor
  <2>12. q[5] # "0" => Len(u) = 4 /\ \A k \in 1..4 : u[k] = q[6 + k]
    <3> SUFFICES ASSUME q[5] # "0" PROVE Len(u) = 4 /\ \A k \in 1..4 : u[k] = q[6 + k]
      OBVIOUS
    <3>1. n = 11 /\ Len(u) = 4 /\ \A k \in 1..4 : u[k] = b[6 + k]
      BY <2>2, <2>5, <2>10
    <3>2. \A k \in 1..4 : 6 + k \in 1..n
      BY <3>1
    <3> QED BY <2>9, <3>1, <3>2
  <2>13. d.buf = r /\ d.uid = u /\ d.more = TRUE /\ d.edge = (c.edge \/ u # c.uid)
    BY <2>1 DEF Edge
  <2>14. Accounted(swipes + Reports(d), d.uid, r \o T)
    <3>1. q[5] = "0" => u = NoCard
      BY <2>5, <2>10
    <3>2. IsSeq(q) /\ Accounted(swipes + Reports(c), c.uid, q)
      BY <1>4, <2>7 DEF q
    <3> QED BY <1>1, <2>5, <2>8, <2>11, <2>12, <2>13, <3>1, <3>2, AccountTakes
  <2>15. d = [buf |-> d.buf, uid |-> d.uid, edge |-> d.edge, more |-> d.more]
    BY <2>1
  <2> QED BY <1>1, <2>6, <2>13, <2>14, <2>15 DEF Parsing, d
<1> QED BY <1>3, <1>7, <1>8, <1>9, <1>10

\* rfid_feed is three rounds.
LEMMA FeedKeeps ==
  ASSUME swipes \in Nat, NEW T, IsSeq(T), IsSeq(rfid.buf), NEW bytes, IsSeq(bytes),
         Accounted(swipes, rfid.uid, (rfid.buf \o bytes) \o T), NEW r \in rfid_feed(rfid, bytes)
  PROVE  Parsing(r, T)
<1> DEFINE all == rfid.buf \o bytes
<1> DEFINE k == Kept(all)
<1> DEFINE c0 == [buf |-> k, uid |-> rfid.uid, edge |-> FALSE, more |-> TRUE]
<1> DEFINE once(c) == IF c.more THEN try_parse_one(c) ELSE c
<1>1. r = once(once(once(c0)))
  BY DEF rfid_feed
<1>2. IsSeq(all)
  BY Joined
<1>3. PICK m \in 0..Len(all) : IsRest(k, all, m)
  BY <1>2, KeptIsRest
<1> HIDE DEF k, all
<1>4. IsSeq(k) /\ m \in 0..Len(all \o T) /\ IsRest(k \o T, all \o T, m) /\ IsSeq(all \o T)
  <2>1. m \in 0..Len(all \o T) /\ IsRest(k \o T, all \o T, m)
    BY <1>2, <1>3, RestJoined
  <2> QED BY <1>2, <1>3, <2>1, Joined DEF IsRest
<1>5. Accounted(swipes, rfid.uid, k \o T)
  BY <1>4, AccountDrops DEF all
<1>6. Parsing(c0, T)
  <2>1. Reports(c0) = 0
    BY DEF Reports
  <2>2. swipes + 0 = swipes
    OBVIOUS
  <2>3. c0.buf = k /\ c0.uid = rfid.uid /\ c0.edge = FALSE /\ c0.more = TRUE
    OBVIOUS
  <2>4. Accounted(swipes + Reports(c0), c0.uid, c0.buf \o T)
    BY <1>5, <2>1, <2>2, <2>3
  <2> QED BY <1>4, <2>3, <2>4 DEF Parsing
<1>7. ASSUME NEW c, Parsing(c, T) PROVE Parsing(once(c), T)
  BY <1>7, RoundKeeps
<1> HIDE DEF c0, once
<1>8. Parsing(once(c0), T)
  BY <1>6, <1>7
<1>9. Parsing(once(once(c0)), T)
  BY <1>7, <1>8
<1> QED BY <1>1, <1>7, <1>9

LEMMA HeldGrouped ==
  ASSUME IsSeq(rfid.buf), IsSeq(rfid_ring), IsSeq(wire)
  PROVE  Held = (rfid.buf \o rfid_ring) \o wire
<1> DEFINE b == rfid.buf
<1>1. IsSeq(b)
  OBVIOUS
<1> HIDE DEF b
<1>2. (b \o rfid_ring) \o wire = b \o (rfid_ring \o wire)
  BY <1>1, Grouped
<1> QED BY <1>2 DEF b, Held

LEMMA HeldIs ==
  ASSUME IsSeq(rfid.buf), IsSeq(rfid_ring), IsSeq(wire)
  PROVE  /\ IsSeq(Held) /\ Len(Held) \in Nat /\ Len(rfid.buf) \in Nat /\ Len(rfid_ring) \in Nat /\ Len(wire) \in Nat
         /\ Len(Held) = Len(rfid.buf) + Len(rfid_ring) + Len(wire)
         /\ \A i \in 1..Len(rfid.buf) + Len(rfid_ring) + Len(wire) :
              Held[i] = IF i <= Len(rfid.buf) THEN rfid.buf[i]
                        ELSE IF i <= Len(rfid.buf) + Len(rfid_ring) THEN rfid_ring[i - Len(rfid.buf)]
                        ELSE wire[i - (Len(rfid.buf) + Len(rfid_ring))]
<1> DEFINE h == rfid.buf \o rfid_ring
<1> DEFINE w == h \o wire
<1>1. Len(rfid.buf) \in Nat /\ Len(rfid_ring) \in Nat /\ Len(wire) \in Nat
  BY LenIsNat
<1>2. Held = w
  BY HeldGrouped
<1>3. /\ IsSeq(h) /\ Len(h) = Len(rfid.buf) + Len(rfid_ring)
      /\ \A i \in 1..Len(rfid.buf) + Len(rfid_ring) :
           h[i] = IF i <= Len(rfid.buf) THEN rfid.buf[i] ELSE rfid_ring[i - Len(rfid.buf)]
  BY Joined
<1> HIDE DEF h
<1>4. IsSeq(w) /\ Len(w) = Len(h) + Len(wire) /\ \A i \in 1..Len(h) + Len(wire) : w[i] = IF i <= Len(h) THEN h[i] ELSE wire[i - Len(h)]
  BY <1>3, Joined
<1> HIDE DEF w
<1> DEFINE B == Len(rfid.buf)
<1> DEFINE R == Len(rfid_ring)
<1> DEFINE W == Len(wire)
<1>5. ASSUME NEW i \in 1..B + R + W
      PROVE  w[i] = IF i <= B THEN rfid.buf[i] ELSE IF i <= B + R THEN rfid_ring[i - B] ELSE wire[i - (B + R)]
  <2>1. i \in 1..Len(h) + Len(wire)
    BY <1>1, <1>3
  <2>2. CASE i <= Len(h)
    <3>1. i \in 1..B + R
      BY <1>1, <1>3, <2>2
    <3>2. w[i] = h[i]
      BY <1>4, <2>1, <2>2
    <3>3. h[i] = IF i <= B THEN rfid.buf[i] ELSE rfid_ring[i - B]
      BY <1>3, <3>1
    <3>4. i <= B + R
      BY <3>1
    <3> QED BY <3>2, <3>3, <3>4
  <2>3. CASE ~(i <= Len(h))
    <3>1. ~(i <= B + R) /\ ~(i <= B)
      BY <1>1, <1>3, <2>3
    <3>2. w[i] = wire[i - Len(h)]
      BY <1>4, <2>1, <2>3
    <3> QED BY <1>3, <3>1, <3>2
  <2> QED BY <2>2, <2>3
<1>6. Len(w) = B + R + W /\ Len(w) \in Nat
  BY <1>1, <1>3, <1>4
<1> HIDE DEF B, R, W
<1> QED BY <1>1, <1>2, <1>4, <1>5, <1>6 DEF B, R, W

LEMMA ReaderStart == ReaderInit => ReaderInv
<1> SUFFICES ASSUME ReaderInit PROVE ReaderInv
  OBVIOUS
<1>1. /\ card = NoCard /\ wire = <<>> /\ rfid_ring = <<>> /\ rfid.buf = <<>> /\ rfid.uid = NoCard
      /\ swipes = 0 /\ laid = 0 /\ hits = 0 /\ NoCard \in Cards
  BY DEF ReaderInit, Cards
<1>2. IsSeq(Held) /\ Len(Held) = 0 /\ Len(<<>>) = 0
  BY <1>1, HeldIs, EmptyIsSeq
<1> DEFINE A == [x \in Nat |-> [c |-> NoCard, l |-> 0, o |-> 7, h |-> 0]]
<1> DEFINE last == [c |-> NoCard, l |-> 0]
<1>3. A[0].c = NoCard /\ A[0].l = 0 /\ A[0].o = 7 /\ A[0].h = 0 /\ A[0] \in Mark /\ FLen(NoCard) = 7
  BY <1>1 DEF Mark, FLen
<1>4. last.c = NoCard /\ last.l = 0 /\ Now.c = NoCard /\ Now.l = 0
  BY <1>1 DEF Now
<1> HIDE DEF A, last
<1>5. 0..Len(Held) = {0} /\ 1..Len(Held) = {}
  BY <1>2
<1>6. Traced(A, Held)
  BY <1>3, <1>5 DEF Traced
<1>7. InTurn(A, Held, last, Now)
  BY <1>4, <1>5 DEF InTurn, Earlier
<1>8. Ends(A[Len(Held)], hits)
  BY <1>1, <1>2, <1>3 DEF Ends
<1>9. Paid(swipes, rfid.uid, last, 0)
  BY <1>1, <1>4 DEF Paid
<1>10. Accounted(swipes, rfid.uid, Held)
  BY <1>1, <1>3, <1>4, <1>6, <1>7, <1>8, <1>9 DEF Accounted, Story
<1> QED BY <1>1, <1>2, <1>10, EmptyIsSeq DEF ReaderInv

\* The card in force when the reader answers is the one on it now.
LEMMA AnswerKeeps ==
  ASSUME card \in Cards, laid \in Nat, hits \in Nat, NEW n, NEW uid, NEW q, IsSeq(q), Accounted(n, uid, q)
  PROVE  Accounted(n, uid, q \o ReaderFrame(card))
<1>1. PICK A, last, g :
        /\ last.c \in Cards /\ last.l \in Nat /\ g \in Nat /\ g <= A[0].h
        /\ Story(A, q, last, Now, hits) /\ Paid(n, uid, last, g)
  BY DEF Accounted
<1>2. Now.c = card /\ Now.l = laid
  BY DEF Now
<1>3. PICK D : D[0] = A[0] /\ Story(D, q \o ReaderFrame(Now.c), last, Now, hits)
  BY <1>1, <1>2, StoryOfFrame
<1>4. g <= D[0].h /\ Story(D, q \o ReaderFrame(card), last, Now, hits)
  BY <1>1, <1>2, <1>3
<1> QED BY <1>1, <1>4 DEF Accounted

LEMMA TickKeeps == ReaderInv /\ ReaderTick => ReaderInv'
<1> SUFFICES ASSUME ReaderInv, ReaderTick PROVE ReaderInv'
  OBVIOUS
<1>1. /\ card \in Cards /\ swipes \in Nat /\ laid \in Nat /\ hits \in Nat
      /\ IsSeq(rfid.buf) /\ IsSeq(rfid_ring) /\ IsSeq(wire) /\ Len(rfid_ring) + Len(wire) <= 11
      /\ Accounted(swipes, rfid.uid, Held) /\ Len(rfid_ring) \in Nat /\ Len(wire) \in Nat
  BY LenIsNat DEF ReaderInv
<1>2. card' = card /\ laid' = laid /\ hits' = hits /\ Now' = Now
  BY DEF ReaderTick, Now
<1> DEFINE n == Min({Len(rfid_ring), 2 * RFID_FRAME_MAX_LEN})
<1>3. n = Len(rfid_ring)
  <2>1. Len(rfid_ring) <= 32 /\ 2 * RFID_FRAME_MAX_LEN = 32
    BY <1>1 DEF RFID_FRAME_MAX_LEN
  <2>2. \E x \in {Len(rfid_ring), 32} : \A y \in {Len(rfid_ring), 32} : x <= y
    BY <1>1, <2>1
  <2>3. Min({Len(rfid_ring), 32}) \in {Len(rfid_ring), 32} /\ \A y \in {Len(rfid_ring), 32} : Min({Len(rfid_ring), 32}) <= y
    BY <2>2 DEF Min
  <2>4. Min({Len(rfid_ring), 32}) = Len(rfid_ring)
    BY <1>1, <2>1, <2>3
  <2> QED BY <2>1, <2>4
\* What the task reads, before the next answer comes.
<1>4. /\ IsSeq(rfid'.buf) /\ rfid_ring' = <<>> /\ swipes' \in Nat
      /\ Accounted(swipes', rfid'.uid, rfid'.buf \o wire)
  <2>1. CASE n = 0
    <3>1. rfid_ring' = rfid_ring /\ rfid' = rfid /\ swipes' = swipes
      BY <2>1 DEF ReaderTick
    <3>2. rfid_ring = <<>>
      BY <1>1, <1>3, <2>1, LenIsNat
    <3>3. rfid_ring \o wire = wire
      <4>1. PICK S : wire \in Seq(S)
        BY <1>1 DEF IsSeq
      <4> QED BY <3>2, <4>1, ConcatEmptySeq
    <3> QED BY <1>1, <3>1, <3>2, <3>3 DEF Held
  <2>2. CASE n # 0
    <3> DEFINE bytes == SubSeq(rfid_ring, 1, n)
    <3>1. PICK r \in rfid_feed(rfid, bytes) :
            /\ rfid_ring' = SubSeq(rfid_ring, n + 1, Len(rfid_ring))
            /\ rfid' = [buf |-> r.buf, uid |-> r.uid]
            /\ swipes' = IF r.edge /\ r.uid # NoCard THEN swipes + 1 ELSE swipes
      BY <2>2 DEF ReaderTick
    <3>2. bytes = rfid_ring /\ rfid_ring' = <<>>
      <4>1. bytes = rfid_ring
        <5>1. PICK S : rfid_ring \in Seq(S)
          BY <1>1 DEF IsSeq
        <5> QED BY <1>3, <5>1, SubSeqFull
      <4>2. IsRest(SubSeq(rfid_ring, n + 1, Len(rfid_ring)), rfid_ring, n)
        BY <1>1, <1>3, SuffixIsRest
      <4>3. IsSeq(rfid_ring') /\ Len(rfid_ring') = 0
        BY <1>1, <1>3, <3>1, <4>2 DEF IsRest
      <4> QED BY <4>1, <4>3, LenIsNat
    <3>3. Accounted(swipes, rfid.uid, (rfid.buf \o rfid_ring) \o wire)
      <4>1. Held = (rfid.buf \o rfid_ring) \o wire
        BY <1>1, HeldGrouped
      <4> QED BY <1>1, <4>1
    <3>4. Parsing(r, wire)
      BY <1>1, <3>1, <3>2, <3>3, FeedKeeps
    <3>5. rfid'.buf = r.buf /\ rfid'.uid = r.uid /\ swipes' = swipes + Reports(r)
      BY <1>1, <3>1 DEF Reports
    <3>6. Reports(r) \in Nat
      BY DEF Reports
    <3>7. swipes' \in Nat
      BY <1>1, <3>5, <3>6
    <3>8. Accounted(swipes', rfid'.uid, rfid'.buf \o wire)
      <4>1. Accounted(swipes + Reports(r), r.uid, r.buf \o wire)
        BY <3>4 DEF Parsing
      <4> QED BY <3>5, <4>1
    <3> QED BY <3>2, <3>4, <3>5, <3>7, <3>8 DEF Parsing
  <2> QED BY <2>1, <2>2
<1> HIDE DEF n
<1> DEFINE q == rfid'.buf \o wire
<1>5. IsSeq(q)
  BY <1>1, <1>4, Joined
<1>6. IsSeq(wire') /\ Len(wire') <= 11 /\ Accounted(swipes', rfid'.uid, rfid'.buf \o wire')
  <2>1. CASE wire' = wire
    BY <1>1, <1>4, <2>1
  <2>2. CASE wire = <<>> /\ wire' = ReaderFrame(card)
    <3>1. q = rfid'.buf
      BY <1>4, <2>2, OneMore
    <3>2. Accounted(swipes', rfid'.uid, rfid'.buf \o ReaderFrame(card))
      BY <1>1, <1>4, <1>5, <3>1, AnswerKeeps
    <3>3. IsSeq(ReaderFrame(card)) /\ Len(ReaderFrame(card)) <= 11
      <4>1. IsSeq(ReaderFrame(NoCard)) /\ Len(ReaderFrame(NoCard)) = 7
        BY IdleFrame
      <4>2. \A c \in Uids : IsSeq(ReaderFrame(c)) /\ Len(ReaderFrame(c)) = 11
        BY CardFrame
      <4>3. IsSeq(ReaderFrame(card)) /\ Len(ReaderFrame(card)) \in {7, 11}
        BY <1>1, <4>1, <4>2 DEF Cards
      <4> DEFINE z == Len(ReaderFrame(card))
      <4>4. z \in {7, 11}
        BY <4>3
      <4> HIDE DEF z
      <4>5. z <= 11
        BY <4>4
      <4> QED BY <4>3, <4>5 DEF z
    <3> QED BY <2>2, <3>2, <3>3
  <2> QED BY <2>1, <2>2 DEF ReaderTick
<1>7. Held' = rfid'.buf \o wire' /\ Len(rfid_ring') + Len(wire') <= 11
  <2>1. PICK S : wire' \in Seq(S)
    BY <1>6 DEF IsSeq
  <2>2. <<>> \o wire' = wire'
    BY <2>1, ConcatEmptySeq
  <2>3. Len(wire') \in Nat
    BY <1>6, LenIsNat
  <2>4. Held' = rfid'.buf \o wire'
    BY <1>4, <2>2 DEF Held
  <2>5. Len(rfid_ring') = 0
    BY <1>4, EmptyIsSeq
  <2> QED BY <1>6, <2>3, <2>4, <2>5
<1>8. Accounted(swipes, rfid.uid, Held)'
  <2>1. PICK A, last, g :
          /\ last.c \in Cards /\ last.l \in Nat /\ g \in Nat /\ g <= A[0].h
          /\ Story(A, rfid'.buf \o wire', last, Now, hits) /\ Paid(swipes', rfid'.uid, last, g)
    BY <1>6 DEF Accounted
  <2>2. Story(A, Held', last, Now', hits')
    BY <1>2, <1>7, <2>1
  <2> QED BY <2>1, <2>2 DEF Accounted
<1>9. IsSeq(rfid_ring')
  BY <1>4, EmptyIsSeq
<1> QED BY <1>1, <1>2, <1>4, <1>6, <1>7, <1>8, <1>9 DEF ReaderInv

LEMMA CardKeeps ==
  ASSUME ReaderInv, LiftCard \/ \E u \in Uids : LayCard(u)
  PROVE  ReaderInv'
<1>1. /\ card \in Cards /\ swipes \in Nat /\ laid \in Nat /\ hits \in Nat
      /\ IsSeq(rfid.buf) /\ IsSeq(rfid_ring) /\ IsSeq(wire) /\ Len(rfid_ring) + Len(wire) <= 11
      /\ Accounted(swipes, rfid.uid, Held)
  BY DEF ReaderInv
<1>2. wire' = wire /\ rfid_ring' = rfid_ring /\ rfid' = rfid /\ swipes' = swipes /\ hits' = hits /\ Held' = Held
  BY DEF LayCard, LiftCard, CardMoves, Held
<1>3. card' \in Cards /\ laid' \in Nat /\ Earlier(Now, Now') /\ Now.l \in Nat /\ Now'.l \in Nat
  <2>1. Now.c = card /\ Now.l = laid /\ Now'.c = card' /\ Now'.l = laid'
    BY DEF Now
  <2>2. CASE \E u \in Uids : LayCard(u)
    <3>1. card' \in Uids /\ laid' = laid + 1
      BY <2>2 DEF LayCard
    <3> QED BY <1>1, <2>1, <3>1 DEF Earlier, Cards
  <2>3. CASE LiftCard
    <3>1. card' = NoCard /\ laid' = laid
      BY <2>3 DEF LiftCard
    <3> QED BY <1>1, <2>1, <3>1 DEF Earlier, Cards
  <2> QED BY <2>2, <2>3
<1>4. PICK A, last, g :
        /\ last.c \in Cards /\ last.l \in Nat /\ g \in Nat /\ g <= A[0].h
        /\ Story(A, Held, last, Now, hits) /\ Paid(swipes, rfid.uid, last, g)
  BY <1>1 DEF Accounted
<1>5. Len(Held) \in Nat
  BY <1>1, HeldIs
<1>6. Story(A, Held, last, Now', hits)
  <2> DEFINE now == Now
  <2> DEFINE new == Now'
  <2>1. now.l \in Nat /\ new.l \in Nat /\ Earlier(now, new) /\ Story(A, Held, last, now, hits)
    BY <1>3, <1>4
  <2> HIDE DEF now, new
  <2>2. Story(A, Held, last, new, hits)
    BY <1>4, <1>5, <2>1, StoryOfCard
  <2> QED BY <2>2 DEF new
<1>7. Accounted(swipes, rfid.uid, Held)'
  <2>1. Story(A, Held', last, Now', hits') /\ Paid(swipes', rfid'.uid, last, g)
    BY <1>2, <1>4, <1>6
  <2> QED BY <1>4, <2>1 DEF Accounted
<1> QED BY <1>1, <1>2, <1>3, <1>7 DEF ReaderInv

LEMMA SendKeeps == ReaderInv /\ ReaderSends => ReaderInv'
<1> SUFFICES ASSUME ReaderInv, ReaderSends PROVE ReaderInv'
  OBVIOUS
<1>1. /\ card \in Cards /\ swipes \in Nat /\ laid \in Nat /\ hits \in Nat
      /\ IsSeq(rfid.buf) /\ IsSeq(rfid_ring) /\ IsSeq(wire) /\ Len(rfid_ring) + Len(wire) <= 11
      /\ Accounted(swipes, rfid.uid, Held) /\ Len(rfid_ring) \in Nat /\ Len(wire) \in Nat
  BY LenIsNat DEF ReaderInv
<1>2. PICK n \in Cuts \cup {Len(wire)} :
        n <= Len(wire) /\ wire' = SubSeq(wire, n + 1, Len(wire)) /\ Isr(SubSeq(wire, 1, n))
  BY DEF ReaderSends
<1>3. n \in Nat
  BY <1>1, <1>2, ReaderAssumption
<1>4. n \in 0..Len(wire)
  BY <1>1, <1>2, <1>3
<1> DEFINE a == SubSeq(wire, 1, n)
<1> DEFINE b == SubSeq(wire, n + 1, Len(wire))
<1>5. IsSeq(a) /\ IsSeq(b) /\ Len(a) = n /\ Len(b) = Len(wire) - n /\ a \o b = wire
  BY <1>1, <1>4, Halves
<1>6. rfid_ring' = SubSeq(rfid_ring \o a, 1, Min({READER_RING - 1, Len(rfid_ring) + Len(a)})) /\ wire' = b
  BY <1>2 DEF Isr
<1> HIDE DEF a, b
<1> DEFINE r == rfid_ring \o a
<1>7. IsSeq(r) /\ Len(r) = Len(rfid_ring) + Len(a)
  BY <1>1, <1>5, Joined
<1>8. rfid_ring' = r
  <2>1. Len(r) \in Nat /\ Len(r) <= 11 /\ READER_RING - 1 = 63
    BY <1>1, <1>4, <1>5, <1>7 DEF READER_RING
  <2> HIDE DEF r
  <2>2. \E x \in {63, Len(r)} : \A y \in {63, Len(r)} : x <= y
    BY <2>1
  <2>3. Min({63, Len(r)}) \in {63, Len(r)} /\ \A y \in {63, Len(r)} : Min({63, Len(r)}) <= y
    BY <2>2 DEF Min
  <2>4. Min({63, Len(r)}) = Len(r)
    BY <2>1, <2>3
  <2>5. rfid_ring' = SubSeq(r, 1, Len(r))
    BY <1>6, <1>7, <2>1, <2>4 DEF r
  <2>6. PICK S : r \in Seq(S)
    BY <1>7 DEF IsSeq
  <2> QED BY <2>5, <2>6, SubSeqFull
<1>9. Held' = Held
  <2>1. rfid_ring' \o wire' = rfid_ring \o (a \o b)
    <3>1. IsSeq(rfid_ring) /\ IsSeq(a) /\ IsSeq(b)
      BY <1>1, <1>5
    <3>2. (rfid_ring \o a) \o b = rfid_ring \o (a \o b)
      BY <3>1, Grouped
    <3> QED BY <1>6, <1>8, <3>2
  <2>2. rfid' = rfid
    BY DEF ReaderSends
  <2> QED BY <1>5, <2>1, <2>2 DEF Held
<1>10. Len(rfid_ring') + Len(wire') <= 11
  <2>1. Len(rfid_ring') = Len(rfid_ring) + n /\ Len(wire') = Len(wire) - n
    BY <1>5, <1>6, <1>7, <1>8
  <2> QED BY <1>1, <1>4, <2>1
<1>11. /\ card' = card /\ rfid' = rfid /\ swipes' = swipes /\ laid' = laid /\ hits' = hits
  BY DEF ReaderSends
<1>12. Accounted(swipes, rfid.uid, Held)'
  BY <1>1, <1>9, <1>11 DEF Accounted, Now
<1> QED BY <1>1, <1>5, <1>6, <1>7, <1>8, <1>10, <1>11, <1>12 DEF ReaderInv

\* A byte on the wire is a byte of the stream.
LEMMA WireStruck ==
  ASSUME ReaderInv, rfid' = rfid, rfid_ring' = rfid_ring, NEW i \in 1..Len(wire), NEW k,
         Struck(wire', wire, i, k)
  PROVE  Struck(Held', Held, Len(rfid.buf) + Len(rfid_ring) + i, k)
<1>1. IsSeq(rfid.buf) /\ IsSeq(rfid_ring) /\ IsSeq(wire) /\ Len(rfid.buf) \in Nat /\ Len(rfid_ring) \in Nat /\ Len(wire) \in Nat
  BY LenIsNat DEF ReaderInv
<1> DEFINE p == rfid.buf \o rfid_ring
<1> DEFINE P == Len(rfid.buf) + Len(rfid_ring)
<1> DEFINE w == wire'
<1>2. /\ IsSeq(w) /\ k \in {0, 1} /\ Len(w) = Len(wire) - k
      /\ \A x \in 1..Len(w) : (x < i => w[x] = wire[x]) /\ (x > i => w[x] = wire[x + k])
  BY DEF Struck
<1>3. IsSeq(p) /\ Len(p) = P /\ P \in Nat
  BY <1>1, Joined
<1>4. Held = p \o wire
  BY <1>1, HeldGrouped
<1>5. Held' = p \o w
  <2>1. Held' = rfid.buf \o (rfid_ring \o w)
    BY DEF Held
  <2> DEFINE b == rfid.buf
  <2>2. IsSeq(b) /\ IsSeq(rfid_ring) /\ IsSeq(w)
    BY <1>1, <1>2
  <2> HIDE DEF b, w
  <2>3. (b \o rfid_ring) \o w = b \o (rfid_ring \o w)
    BY <2>2, Grouped
  <2> QED BY <2>1, <2>3 DEF b
<1> HIDE DEF p, P, w
<1> DEFINE q == p \o wire
<1> DEFINE t == p \o w
<1>6. IsSeq(q) /\ Len(q) = P + Len(wire) /\ \A x \in 1..P + Len(wire) : q[x] = IF x <= P THEN p[x] ELSE wire[x - P]
  <2>1. IsSeq(q) /\ Len(q) = Len(p) + Len(wire)
        /\ \A x \in 1..Len(p) + Len(wire) : q[x] = IF x <= Len(p) THEN p[x] ELSE wire[x - Len(p)]
    BY <1>1, <1>3, Joined, Zenon
  <2> HIDE DEF q
  <2> QED BY <1>3, <2>1
<1>7. IsSeq(t) /\ Len(t) = P + Len(w) /\ \A x \in 1..P + Len(w) : t[x] = IF x <= P THEN p[x] ELSE w[x - P]
  <2>1. IsSeq(t) /\ Len(t) = Len(p) + Len(w)
        /\ \A x \in 1..Len(p) + Len(w) : t[x] = IF x <= Len(p) THEN p[x] ELSE w[x - Len(p)]
    BY <1>2, <1>3, Joined, Zenon
  <2> HIDE DEF t
  <2> QED BY <1>3, <2>1
<1> HIDE DEF q, t
<1>8. P + i \in 1..Len(q) /\ Len(t) = Len(q) - k
  BY <1>1, <1>2, <1>3, <1>6, <1>7
<1>9. ASSUME NEW x \in 1..Len(t), x < P + i PROVE t[x] = q[x]
  <2>1. x \in 1..P + Len(w) /\ x \in 1..P + Len(wire)
    BY <1>1, <1>2, <1>3, <1>7
  <2>2. CASE x <= P
    BY <1>6, <1>7, <2>1, <2>2
  <2>3. CASE ~(x <= P)
    <3>1. x - P \in 1..Len(w) /\ x - P < i
      BY <1>1, <1>2, <1>3, <1>9, <2>1, <2>3
    <3>2. w[x - P] = wire[x - P]
      BY <1>2, <3>1
    <3> QED BY <1>6, <1>7, <2>1, <2>3, <3>2
  <2> QED BY <2>2, <2>3
<1>10. ASSUME NEW x \in 1..Len(t), x > P + i PROVE t[x] = q[x + k]
  <2>1. PICK y \in 1..P + Len(wire) : y = x + k /\ x \in 1..P + Len(w) /\ ~(x <= P) /\ ~(y <= P)
    BY <1>1, <1>2, <1>3, <1>7, <1>10
  <2>2. x - P \in 1..Len(w) /\ x - P > i /\ y - P = x - P + k
    BY <1>1, <1>2, <1>3, <1>10, <2>1
  <2>3. w[x - P] = wire[x - P + k]
    BY <1>2, <2>2
  <2>4. t[x] = w[x - P]
    BY <1>7, <2>1
  <2>5. q[y] = wire[y - P]
    BY <1>6, <2>1
  <2> QED BY <2>1, <2>2, <2>3, <2>4, <2>5
<1>11. Struck(t, q, P + i, k)
  BY <1>2, <1>7, <1>8, <1>9, <1>10 DEF Struck
<1> QED BY <1>4, <1>5, <1>11 DEF q, t, P

LEMMA HitKeeps == ReaderInv /\ DisturbedByte => ReaderInv'
<1> SUFFICES ASSUME ReaderInv, DisturbedByte PROVE ReaderInv'
  OBVIOUS
<1>1. /\ card \in Cards /\ swipes \in Nat /\ laid \in Nat /\ hits \in Nat
      /\ IsSeq(rfid.buf) /\ IsSeq(rfid_ring) /\ IsSeq(wire) /\ Len(rfid_ring) + Len(wire) <= 11
      /\ Accounted(swipes, rfid.uid, Held) /\ Len(rfid_ring) \in Nat /\ Len(wire) \in Nat /\ DOMAIN wire = 1..Len(wire)
  BY LenIsNat, DomainOfSeq DEF ReaderInv
<1>2. /\ card' = card /\ rfid' = rfid /\ rfid_ring' = rfid_ring /\ swipes' = swipes /\ laid' = laid /\ hits' = hits + 1
      /\ Now' = Now
  BY DEF DisturbedByte, Now
<1>3. PICK i \in 1..Len(wire) : wire' = RemoveAt(wire, i) \/ wire' = ReplaceAt(wire, i, "??")
  BY <1>1 DEF DisturbedByte
<1>4. \E k : Struck(wire', wire, i, k)
  <2>1. CASE wire' = RemoveAt(wire, i)
    <3> DEFINE a == SubSeq(wire, 1, i - 1)
    <3> DEFINE b == SubSeq(wire, i + 1, Len(wire))
    <3> DEFINE t == a \o b
    <3>1. wire' = t
      BY <2>1 DEF RemoveAt
    <3>2. i - 1 \in 0..Len(wire) /\ i \in 0..Len(wire) /\ 1 \in 1..Len(wire) + 1 /\ i - 1 \in 1 - 1..Len(wire) /\ i - 1 - 1 + 1 = i - 1
          /\ \A x \in 1..i - 1 : 1 + x - 1 = x
      BY <1>1
    <3>3. IsSeq(a) /\ Len(a) = i - 1 /\ \A x \in 1..i - 1 : a[x] = wire[x]
      <4>1. IsSeq(a) /\ Len(a) = i - 1 - 1 + 1 /\ \A x \in 1..i - 1 - 1 + 1 : a[x] = wire[1 + x - 1]
        BY <1>1, <3>2, SlicedSeq
      <4> HIDE DEF a
      <4> QED BY <3>2, <4>1
    <3>4. IsSeq(b) /\ Len(b) = Len(wire) - i /\ \A x \in 1..Len(wire) - i : b[x] = wire[x + i]
      BY <1>1, <3>2, SuffixIsRest DEF IsRest
    <3> HIDE DEF a, b
    <3>5. IsSeq(t) /\ Len(t) = Len(a) + Len(b) /\ \A x \in 1..Len(a) + Len(b) : t[x] = IF x <= Len(a) THEN a[x] ELSE b[x - Len(a)]
      BY <3>3, <3>4, Joined
    <3> HIDE DEF t
    <3>6. Len(t) = Len(wire) - 1
      BY <1>1, <3>3, <3>4, <3>5
    <3>7. ASSUME NEW x \in 1..Len(t), x < i PROVE t[x] = wire[x]
      <4>1. x \in 1..Len(a) + Len(b) /\ x <= Len(a) /\ x \in 1..i - 1
        BY <1>1, <3>3, <3>4, <3>5, <3>7
      <4> QED BY <3>3, <3>5, <4>1
    <3>8. ASSUME NEW x \in 1..Len(t), x > i PROVE t[x] = wire[x + 1]
      <4>1. x \in 1..Len(a) + Len(b) /\ ~(x <= Len(a)) /\ x - Len(a) \in 1..Len(wire) - i /\ x - Len(a) + i = x + 1
        BY <1>1, <3>3, <3>4, <3>5, <3>8
      <4>2. t[x] = b[x - Len(a)]
        BY <3>5, <4>1
      <4>3. b[x - Len(a)] = wire[x - Len(a) + i]
        BY <3>4, <4>1
      <4> QED BY <4>1, <4>2, <4>3
    <3>9. Struck(t, wire, i, 1)
      BY <3>5, <3>6, <3>7, <3>8 DEF Struck
    <3> QED BY <3>1, <3>9
  <2>2. CASE wire' = ReplaceAt(wire, i, "??")
    <3>1. PICK S : wire \in Seq(S)
      BY <1>1 DEF IsSeq
    <3> DEFINE T == S \cup {"??"}
    <3>2. wire \in Seq(T) /\ "??" \in T
      BY <3>1, SeqMonotonic, S \subseteq T
    <3> HIDE DEF T
    <3> DEFINE t == [wire EXCEPT ![i] = "??"]
    <3>3. t \in Seq(T) /\ Len(t) = Len(wire) /\ \A x \in 1..Len(wire) : t[x] = IF x = i THEN "??" ELSE wire[x]
      BY <3>2, ExceptSeq
    <3>4. wire' = t
      BY <2>2 DEF ReplaceAt
    <3> HIDE DEF t
    <3>5. \A x \in 1..Len(t) : (x < i => t[x] = wire[x]) /\ (x > i => t[x] = wire[x + 0])
      BY <1>1, <3>3
    <3>6. Struck(t, wire, i, 0)
      BY <1>1, <3>3, <3>5 DEF Struck, IsSeq
    <3> QED BY <3>4, <3>6
  <2> QED BY <1>3, <2>1, <2>2
<1>5. PICK k : Struck(wire', wire, i, k)
  BY <1>4
<1> DEFINE j == Len(rfid.buf) + Len(rfid_ring) + i
<1>6. Struck(Held', Held, j, k)
  BY <1>2, <1>5, WireStruck
<1> HIDE DEF j
<1>7. PICK A, last, g :
        /\ last.c \in Cards /\ last.l \in Nat /\ g \in Nat /\ g <= A[0].h
        /\ Story(A, Held, last, Now, hits) /\ Paid(swipes, rfid.uid, last, g)
  BY <1>1 DEF Accounted
<1>8. IsSeq(Held)
  BY <1>1, HeldIs
<1>9. PICK D : D[0] = A[0] /\ Story(D, Held', last, Now, hits + 1)
  BY <1>1, <1>6, <1>7, <1>8, StoryOfHit
<1>10. Accounted(swipes, rfid.uid, Held)'
  <2>1. g <= D[0].h /\ Story(D, Held', last, Now', hits') /\ Paid(swipes', rfid'.uid, last, g)
    BY <1>2, <1>7, <1>9
  <2> QED BY <1>7, <2>1 DEF Accounted
<1>11. IsSeq(wire') /\ Len(rfid_ring') + Len(wire') <= 11
  BY <1>1, <1>2, <1>5 DEF Struck
<1> QED BY <1>1, <1>2, <1>10, <1>11 DEF ReaderInv

LEMMA ReaderStep == ReaderInv /\ [ReaderNext]_readerVars => ReaderInv'
<1> SUFFICES ASSUME ReaderInv, [ReaderNext]_readerVars PROVE ReaderInv'
  OBVIOUS
<1>1. CASE ReaderTick
  BY <1>1, TickKeeps
<1>2. CASE LiftCard \/ \E u \in Uids : LayCard(u)
  BY <1>2, CardKeeps
<1>4. CASE ReaderSends
  BY <1>4, SendKeeps
<1>5. CASE DisturbedByte
  BY <1>5, HitKeeps
<1>6. CASE UNCHANGED readerVars
  <2>1. /\ card' = card /\ wire' = wire /\ rfid_ring' = rfid_ring /\ rfid' = rfid /\ swipes' = swipes /\ laid' = laid
        /\ hits' = hits
    BY <1>6 DEF readerVars
  <2>2. Accounted(swipes, rfid.uid, Held)' <=> Accounted(swipes, rfid.uid, Held)
    BY <2>1 DEF Accounted, Held, Now
  <2> QED BY <2>1, <2>2 DEF ReaderInv
<1> QED BY <1>1, <1>2, <1>4, <1>5, <1>6 DEF ReaderNext

\* A card put down is reported once, for any UIDs, any cuts of the frames into ticks and any
\* number of disturbed bytes, each of which costs at most two reports (rfid_feed and
\* try_parse_one): what is taken for a frame and is none holds a byte that was hit.
THEOREM CardsAreReportedOnce == ReaderSpec => []SwipesAreCards
<1>1. ReaderInv => SwipesAreCards
  <2> SUFFICES ASSUME ReaderInv PROVE swipes <= laid + 2 * hits
    BY DEF SwipesAreCards
  <2>1. PICK A, last, g :
          /\ last.c \in Cards /\ last.l \in Nat /\ g \in Nat /\ g <= A[0].h
          /\ Story(A, Held, last, Now, hits) /\ Paid(swipes, rfid.uid, last, g)
    BY DEF ReaderInv, Accounted
  <2>2. Len(Held) \in Nat /\ swipes \in Nat /\ laid \in Nat /\ hits \in Nat
    BY HeldIs DEF ReaderInv
  <2>3. A[0].h \in Nat /\ A[0].h <= hits
    <3>1. 0 \in 0..Len(Held) /\ Len(Held) \in 0..Len(Held) /\ 0 <= Len(Held)
      BY <2>2
    <3>2. A[0] \in Mark /\ A[Len(Held)] \in Mark /\ A[0].h <= A[Len(Held)].h /\ A[Len(Held)].h <= hits
      BY <2>1, <3>1 DEF Story, Traced, Ends
    <3>3. A[0].h \in Nat /\ A[Len(Held)].h \in Nat
      BY <3>2 DEF Mark
    <3> QED BY <2>2, <3>2, <3>3
  <2>4. last.l <= laid
    BY <2>1 DEF Story, InTurn, Earlier, Now
  <2>5. swipes <= last.l + 2 * g
    BY <2>1, <2>2 DEF Paid
  <2> QED BY <2>1, <2>2, <2>3, <2>4, <2>5
<1> QED BY <1>1, ReaderStart, ReaderStep, PTL DEF ReaderSpec
=============================================================================
