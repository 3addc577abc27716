---------------------------- MODULE BridgeProofs ----------------------------
(***************************************************************************)
(* The companion's two streams, for every payload, buffer and budget: what *)
(* it reads from the broker stays aligned to packets, and what it believes *)
(* to have published is what the broker is going to retain.                *)
(***************************************************************************)
EXTENDS DeltaBridge, SequenceTheorems, TLAPS

-----------------------------------------------------------------------------
(* Messages to the broker. *)

IsSeq(s) == \E S : s \in Seq(S)

\* A sequence behind another.
LEMMA Behind ==
  ASSUME NEW s, NEW r, IsSeq(s), IsSeq(r)
  PROVE  /\ IsSeq(s \o r) /\ Len(s) \in Nat /\ Len(r) \in Nat
         /\ DOMAIN s = 1..Len(s) /\ DOMAIN r = 1..Len(r)
         /\ DOMAIN (s \o r) = 1..(Len(s) + Len(r)) /\ Len(s \o r) = Len(s) + Len(r)
         /\ \A i \in 1..Len(s) : (s \o r)[i] = s[i]
         /\ \A i \in 1..Len(r) : (s \o r)[Len(s) + i] = r[i]
         /\ \A i \in (Len(s) + 1)..(Len(s) + Len(r)) : (s \o r)[i] = r[i - Len(s)]
<1>1. PICK S : s \in Seq(S)
  BY DEF IsSeq
<1>2. PICK R : r \in Seq(R)
  BY DEF IsSeq
<1>3. s \in Seq(S \cup R) /\ r \in Seq(S \cup R)
  BY <1>1, <1>2
<1>4. s \o r \in Seq(S \cup R)
  BY <1>3
<1> QED
  BY <1>3, <1>4 DEF IsSeq

LEMMA One == ASSUME NEW x PROVE IsSeq(<<x>>) /\ IsSeq(<<>>) /\ Len(<<x>>) = 1
<1>1. <<x>> \in Seq({x}) /\ <<>> \in Seq({x})
  OBVIOUS
<1> QED
  BY <1>1 DEF IsSeq

LEMMA Empty == ASSUME NEW s, s = <<>> PROVE IsSeq(s) /\ DOMAIN s = {} /\ Len(s) = 0
<1>1. s \in Seq({}) /\ DOMAIN s = {} /\ Len(s) = 0
  OBVIOUS
<1> QED
  BY <1>1 DEF IsSeq

\* The last message on a topic is the last one behind, or, if none is, the last before.
LEMMA SaysBehind ==
  ASSUME NEW s, NEW r, IsSeq(s), IsSeq(r), NEW t
  PROVE  /\ Silent(s, t) /\ Silent(r, t) => Silent(s \o r, t)
         /\ \A v : Says(r, t, v) => Says(s \o r, t, v)
         /\ \A v : Says(s, t, v) /\ Silent(r, t) => Says(s \o r, t, v)
<1> DEFINE q == s \o r
           n == Len(s)
           k == Len(r)
<1>1. /\ n \in Nat /\ k \in Nat /\ DOMAIN s = 1..n /\ DOMAIN r = 1..k /\ DOMAIN q = 1..(n + k)
      /\ \A i \in 1..n : q[i] = s[i]
      /\ \A i \in 1..k : q[n + i] = r[i]
      /\ \A i \in (n + 1)..(n + k) : q[i] = r[i - n]
  BY Behind
<1> HIDE DEF q, n, k
<1>2. ASSUME Silent(s, t), Silent(r, t) PROVE Silent(q, t)
  <2> SUFFICES ASSUME NEW j \in 1..(n + k) PROVE q[j][1] # t
    BY <1>1 DEF Silent
  <2>1. j \in 1..n \/ (j \in (n + 1)..(n + k) /\ j - n \in 1..k)
    BY <1>1
  <2>2. CASE j \in 1..n
    BY <1>1, <1>2, <2>2 DEF Silent
  <2>3. CASE j \in (n + 1)..(n + k) /\ j - n \in 1..k
    BY <1>1, <1>2, <2>3 DEF Silent
  <2> QED
    BY <2>1, <2>2, <2>3
<1>3. ASSUME NEW v, Says(r, t, v) PROVE Says(q, t, v)
  <2>1. PICK i \in 1..k : /\ r[i][1] = t /\ r[i][2] = v
                          /\ \A j \in 1..k : j > i => r[j][1] # t
    BY <1>1, <1>3 DEF Says
  <2>2. n + i \in DOMAIN q /\ q[n + i][1] = t /\ q[n + i][2] = v
    BY <1>1, <2>1
  <2>3. \A j \in DOMAIN q : j > n + i => q[j][1] # t
    <3> SUFFICES ASSUME NEW j \in DOMAIN q, j > n + i PROVE q[j][1] # t
      OBVIOUS
    <3>1. j - n \in 1..k /\ j - n > i /\ j \in (n + 1)..(n + k)
      BY <1>1
    <3> QED
      BY <1>1, <2>1, <3>1
  <2> QED
    BY <2>2, <2>3 DEF Says
<1>4. ASSUME NEW v, Says(s, t, v), Silent(r, t) PROVE Says(q, t, v)
  <2>1. PICK i \in 1..n : /\ s[i][1] = t /\ s[i][2] = v
                          /\ \A j \in 1..n : j > i => s[j][1] # t
    BY <1>1, <1>4 DEF Says
  <2>2. i \in DOMAIN q /\ q[i][1] = t /\ q[i][2] = v
    BY <1>1, <2>1
  <2>3. \A j \in DOMAIN q : j > i => q[j][1] # t
    <3> SUFFICES ASSUME NEW j \in DOMAIN q, j > i PROVE q[j][1] # t
      OBVIOUS
    <3>1. j \in 1..n \/ (j \in (n + 1)..(n + k) /\ j - n \in 1..k)
      BY <1>1
    <3> QED
      BY <1>1, <1>4, <2>1, <3>1 DEF Silent
  <2> QED
    BY <2>2, <2>3 DEF Says
<1> QED
  BY <1>2, <1>3, <1>4 DEF q

\* A publication holds its own topic, if that changed or all are due, and no other.
Dirty(t) == Full \/ t \in charger_state_diff(proc.prev, shm)

LEMMA PublicationFacts ==
  ASSUME NEW u, NEW t
  PROVE  /\ IsSeq(Publication(u))
         /\ u = t /\ Dirty(t) => Says(Publication(u), t, Payload(shm, t))
         /\ ~(u = t /\ Dirty(t)) => Silent(Publication(u), t)
<1>1. CASE Dirty(u)
  <2>1. Publication(u) = <<<<u, Payload(shm, u)>>>>
    BY <1>1 DEF Publication, Dirty
  <2>2. IsSeq(Publication(u)) /\ DOMAIN Publication(u) = {1}
    BY <2>1, One
  <2>3. Publication(u)[1] = <<u, Payload(shm, u)>>
    BY <2>1
  <2>4. Publication(u)[1][1] = u /\ Publication(u)[1][2] = Payload(shm, u)
    BY <2>3
  <2>5. u = t => Says(Publication(u), t, Payload(shm, t))
    BY <2>2, <2>4 DEF Says
  <2>6. u # t => Silent(Publication(u), t)
    BY <2>2, <2>4 DEF Silent
  <2> QED
    BY <1>1, <2>2, <2>5, <2>6
<1>2. CASE ~Dirty(u)
  <2>1. Publication(u) = <<>>
    BY <1>2 DEF Publication, Dirty
  <2>2. IsSeq(Publication(u)) /\ DOMAIN Publication(u) = {}
    BY <2>1, Empty
  <2>3. Silent(Publication(u), t)
    BY <2>2 DEF Silent
  <2> QED
    BY <1>2, <2>2, <2>3
<1> QED
  BY <1>1, <1>2

\* One more publication adds its own topic, and keeps what is said of the others.
LEMMA PublicationBehind ==
  ASSUME NEW s, IsSeq(s), NEW u, NEW t
  PROVE  /\ IsSeq(s \o Publication(u))
         /\ u = t /\ Dirty(t) => Says(s \o Publication(u), t, Payload(shm, t))
         /\ ~(u = t /\ Dirty(t)) /\ Silent(s, t) => Silent(s \o Publication(u), t)
         /\ Dirty(t) /\ Says(s, t, Payload(shm, t)) => Says(s \o Publication(u), t, Payload(shm, t))
<1> DEFINE r == Publication(u)
<1>1. /\ IsSeq(r)
      /\ u = t /\ Dirty(t) => Says(r, t, Payload(shm, t))
      /\ ~(u = t /\ Dirty(t)) => Silent(r, t)
  BY PublicationFacts
<1> HIDE DEF r
<1>2. IsSeq(s \o r)
  BY <1>1, Behind
<1>3. /\ Silent(s, t) /\ Silent(r, t) => Silent(s \o r, t)
      /\ \A v : Says(r, t, v) => Says(s \o r, t, v)
      /\ \A v : Says(s, t, v) /\ Silent(r, t) => Says(s \o r, t, v)
  BY <1>1, SaysBehind
<1> QED
  BY <1>1, <1>2, <1>3 DEF r

LEMMA PublicationsHold ==
  ASSUME NEW t \in Exact
  PROVE  /\ IsSeq(Publications)
         /\ Dirty(t) => Says(Publications, t, Payload(shm, t))
         /\ ~Dirty(t) => Silent(Publications, t)
<1> DEFINE v  == Payload(shm, t)
           s0 == IF Full THEN <<<<"discovery", proc.write>>>> ELSE <<>>
           s1 == s0 \o Publication("volt")
           s2 == s1 \o Publication("amps")
           s3 == s2 \o Publication("pilot")
           s4 == s3 \o Publication("user")
           s5 == s4 \o Publication("faults")
           s6 == s5 \o Publication("auth")
<1>0. IsSeq(s0) /\ Silent(s0, t)
  <2>1. CASE Full
    <3>1. s0 = <<<<"discovery", proc.write>>>>
      BY <2>1
    <3>2. IsSeq(s0) /\ DOMAIN s0 = {1} /\ s0[1] = <<"discovery", proc.write>>
      BY <3>1, One
    <3>3. s0[1][1] = "discovery"
      BY <3>2
    <3>4. Silent(s0, t)
      BY <3>2, <3>3 DEF Silent, Exact
    <3> QED
      BY <3>2, <3>4
  <2>2. CASE ~Full
    <3>1. s0 = <<>>
      BY <2>2
    <3>2. IsSeq(s0) /\ Silent(s0, t)
      BY <3>1, One DEF Silent
    <3> QED
      BY <3>2
  <2> QED
    BY <2>1, <2>2
<1> HIDE DEF s0, v
<1>1. /\ IsSeq(s1)
      /\ Dirty(t) /\ (t = "volt") => Says(s1, t, v)
      /\ ~(Dirty(t) /\ (t = "volt")) => Silent(s1, t)
  BY <1>0, PublicationBehind DEF v
<1> HIDE DEF s1
<1>2. /\ IsSeq(s2)
      /\ Dirty(t) /\ (t = "volt" \/ t = "amps") => Says(s2, t, v)
      /\ ~(Dirty(t) /\ (t = "volt" \/ t = "amps")) => Silent(s2, t)
  BY <1>1, PublicationBehind DEF v
<1> HIDE DEF s2
<1>3. /\ IsSeq(s3)
      /\ Dirty(t) /\ (t = "volt" \/ t = "amps" \/ t = "pilot") => Says(s3, t, v)
      /\ ~(Dirty(t) /\ (t = "volt" \/ t = "amps" \/ t = "pilot")) => Silent(s3, t)
  BY <1>2, PublicationBehind DEF v
<1> HIDE DEF s3
<1>4. /\ IsSeq(s4)
      /\ Dirty(t) /\ (t = "volt" \/ t = "amps" \/ t = "pilot" \/ t = "user") => Says(s4, t, v)
      /\ ~(Dirty(t) /\ (t = "volt" \/ t = "amps" \/ t = "pilot" \/ t = "user")) => Silent(s4, t)
  BY <1>3, PublicationBehind DEF v
<1> HIDE DEF s4
<1>5. /\ IsSeq(s5)
      /\ Dirty(t) /\ (t = "volt" \/ t = "amps" \/ t = "pilot" \/ t = "user" \/ t = "faults") => Says(s5, t, v)
      /\ ~(Dirty(t) /\ (t = "volt" \/ t = "amps" \/ t = "pilot" \/ t = "user" \/ t = "faults")) => Silent(s5, t)
  BY <1>4, PublicationBehind DEF v
<1> HIDE DEF s5
<1>6. /\ IsSeq(s6)
      /\ Dirty(t) /\ (t = "volt" \/ t = "amps" \/ t = "pilot" \/ t = "user" \/ t = "faults" \/ t = "auth") => Says(s6, t, v)
      /\ ~(Dirty(t) /\ (t = "volt" \/ t = "amps" \/ t = "pilot" \/ t = "user" \/ t = "faults" \/ t = "auth")) => Silent(s6, t)
  BY <1>5, PublicationBehind DEF v
<1> HIDE DEF s6
<1>7. Publications = s6
  BY DEF Publications, s0, s1, s2, s3, s4, s5, s6
<1> QED
  BY <1>6, <1>7 DEF Exact, v

\* A prefix, and the rest behind the first message.
LEMMA CutShort ==
  ASSUME NEW s, IsSeq(s), NEW k \in 0..Len(s)
  PROVE  IsSeq(SubSeq(s, 1, k))
<1>1. PICK S : s \in Seq(S)
  BY DEF IsSeq
<1>2. SubSeq(s, 1, k) \in Seq(S)
  BY <1>1
<1> QED
  BY <1>2 DEF IsSeq

LEMMA Rest ==
  ASSUME NEW s, IsSeq(s), s # <<>>
  PROVE  /\ IsSeq(Tail(s)) /\ Len(s) \in Nat /\ Len(s) > 0 /\ DOMAIN s = 1..Len(s)
         /\ DOMAIN Tail(s) = 1..(Len(s) - 1) /\ Head(s) = s[1]
         /\ \A i \in 1..(Len(s) - 1) : Tail(s)[i] = s[i + 1]
<1>1. PICK S : s \in Seq(S)
  BY DEF IsSeq
<1>2. Tail(s) \in Seq(S)
  BY <1>1
<1> QED
  BY <1>1, <1>2 DEF IsSeq

\* What the broker takes first was the last message on its topic, or a later one is.
LEMMA SaysTail ==
  ASSUME NEW s, IsSeq(s), s # <<>>, NEW t
  PROVE  /\ Silent(s, t) => Silent(Tail(s), t) /\ Head(s)[1] # t
         /\ \A v : Says(s, t, v) =>
              \/ Says(Tail(s), t, v)
              \/ Head(s)[1] = t /\ Head(s)[2] = v /\ Silent(Tail(s), t)
<1> DEFINE r == Tail(s)
           n == Len(s)
<1>1. /\ n \in Nat /\ n > 0 /\ DOMAIN s = 1..n /\ DOMAIN r = 1..(n - 1) /\ Head(s) = s[1]
      /\ \A i \in 1..(n - 1) : r[i] = s[i + 1]
  BY Rest
<1> HIDE DEF r, n
<1>2. ASSUME Silent(s, t) PROVE Silent(r, t) /\ Head(s)[1] # t
  BY <1>1, <1>2 DEF Silent
<1>3. ASSUME NEW v, Says(s, t, v)
      PROVE  Says(r, t, v) \/ (Head(s)[1] = t /\ Head(s)[2] = v /\ Silent(r, t))
  <2>1. PICK i \in 1..n : /\ s[i][1] = t /\ s[i][2] = v
                          /\ \A j \in 1..n : j > i => s[j][1] # t
    BY <1>1, <1>3 DEF Says
  <2>2. CASE i = 1
    <3>1. \A j \in DOMAIN r : r[j] = s[j + 1] /\ j + 1 \in 1..n /\ j + 1 > 1
      BY <1>1
    <3> QED
      BY <1>1, <2>1, <2>2, <3>1 DEF Silent
  <2>3. CASE i # 1
    <3>1. i - 1 \in DOMAIN r /\ r[i - 1] = s[i]
      BY <1>1, <2>3
    <3>2. \A j \in DOMAIN r : r[j] = s[j + 1] /\ j + 1 \in 1..n /\ (j > i - 1 => j + 1 > i)
      BY <1>1
    <3>3. \A j \in DOMAIN r : j > i - 1 => r[j][1] # t
      BY <2>1, <3>2
    <3> QED
      BY <2>1, <3>1, <3>3 DEF Says
  <2> QED
    BY <2>2, <2>3
<1> QED
  BY <1>2, <1>3 DEF r

-----------------------------------------------------------------------------
(* The inductive invariant. *)

Piece == [id : Nat, cmd : Commands, half : 1..2]

\* The types of the variables, but for the memory and the copies of it: those are of no
\* fixed type, and nothing here depends on it.
FileOK   == file \in [write : BOOLEAN, web : BOOLEAN]
ClientOK == client \in [fd : BOOLEAN, rx : Seq(Piece)]
NetOK    == net \in [alive : BOOLEAN, tx : {net.tx}, down : Seq(Piece)] /\ IsSeq(net.tx)
BrokerOK == /\ broker \in [session : [open : BOOLEAN, sub : BOOLEAN], retained : {broker.retained}]
            /\ broker.retained = [t \in DOMAIN broker.retained |-> broker.retained[t]]
            /\ Exact \subseteq DOMAIN broker.retained
BudgetOK == budget \in [drops : Nat, commands : Nat, changes : Nat, posts : Nat, restarts : Nat]
PcOK(p) == p \in [pc : {"connect", "publish", "tick", "web"}, cfg : [write : BOOLEAN, web : BOOLEAN],
                  write : BOOLEAN, web : BOOLEAN, up : BOOLEAN, prev : {p.prev}]

BridgeTypeOK == FileOK /\ PcOK(proc) /\ ClientOK /\ NetOK /\ BrokerOK /\ BudgetOK

\* From the publication that follows a connection on, in whatever place of its loop the
\* bridge is; before it the bridge remembers nothing, which makes that publication a full one.
Known ==
  proc.up /\ client.fd /\ net.alive /\ broker.session.open =>
    \/ proc.pc = "publish" /\ proc.prev = Unknown
    \/ \A t \in Exact : Settles(broker, net.tx, t, Payload(proc.prev, t))

BridgeInv == BridgeTypeOK /\ StreamAligned /\ Known

-----------------------------------------------------------------------------
(* The stream of pieces. *)

Aligned(s) == Len(s) % 2 = 0 /\ Intact(s)

\* Whole packets taken off the front leave whole packets.
LEMMA AlignedDrop ==
  ASSUME NEW s, NEW r, Len(s) \in Nat, Aligned(s), NEW k \in Nat,
         2 * k <= Len(s), Len(r) = Len(s) - 2 * k,
         \A j \in 1..Len(r) : r[j] = s[j + 2 * k]
  PROVE  Aligned(r)
<1> DEFINE n == Len(s)
           m == Len(r)
<1>1. n \in Nat /\ n % 2 = 0 /\ m = n - 2 * k /\ 2 * k <= n
  BY DEF Aligned
<1>2. \A i \in 1..(n \div 2) : s[2 * i - 1].half = 1 /\ s[2 * i] = [s[2 * i - 1] EXCEPT !.half = 2]
  BY DEF Aligned, Intact
<1>3. \A j \in 1..m : r[j] = s[j + 2 * k]
  OBVIOUS
<1> HIDE DEF n, m
<1>4. m % 2 = 0
  BY <1>1
<1>5. ASSUME NEW i \in 1..(m \div 2)
      PROVE  r[2 * i - 1].half = 1 /\ r[2 * i] = [r[2 * i - 1] EXCEPT !.half = 2]
  <2>1. i + k \in 1..(n \div 2) /\ 2 * i - 1 \in 1..m /\ 2 * i \in 1..m
    BY <1>1
  <2>2. 2 * i - 1 + 2 * k = 2 * (i + k) - 1 /\ 2 * i + 2 * k = 2 * (i + k)
    BY <1>1
  <2>3. r[2 * i - 1] = s[2 * (i + k) - 1] /\ r[2 * i] = s[2 * (i + k)]
    BY <1>3, <2>1, <2>2
  <2> QED
    BY <1>2, <2>1, <2>3
<1> QED
  BY <1>4, <1>5 DEF Aligned, Intact, m

\* A whole packet behind whole packets.
LEMMA AlignedAppend ==
  ASSUME NEW s, NEW r, Len(s) \in Nat, Aligned(s), Len(r) = Len(s) + 2,
         \A j \in 1..Len(s) : r[j] = s[j],
         r[Len(s) + 1].half = 1, r[Len(s) + 2] = [r[Len(s) + 1] EXCEPT !.half = 2]
  PROVE  Aligned(r)
<1> DEFINE n == Len(s)
           m == Len(r)
<1>1. n \in Nat /\ n % 2 = 0 /\ m = n + 2
  BY DEF Aligned
<1>2. \A i \in 1..(n \div 2) : s[2 * i - 1].half = 1 /\ s[2 * i] = [s[2 * i - 1] EXCEPT !.half = 2]
  BY DEF Aligned, Intact
<1>3. /\ \A j \in 1..n : r[j] = s[j]
      /\ r[n + 1].half = 1
      /\ r[n + 2] = [r[n + 1] EXCEPT !.half = 2]
  OBVIOUS
<1> HIDE DEF n, m
<1>4. m % 2 = 0
  BY <1>1
<1>5. ASSUME NEW i \in 1..(m \div 2)
      PROVE  r[2 * i - 1].half = 1 /\ r[2 * i] = [r[2 * i - 1] EXCEPT !.half = 2]
  <2>1. i \in 1..(n \div 2) \/ 2 * i = n + 2
    BY <1>1
  <2>2. CASE i \in 1..(n \div 2)
    <3>1. 2 * i - 1 \in 1..n /\ 2 * i \in 1..n
      BY <1>1, <2>2
    <3> QED
      BY <1>2, <1>3, <2>2, <3>1
  <2>3. CASE 2 * i = n + 2
    <3>1. 2 * i - 1 = n + 1
      BY <1>1, <2>3
    <3> QED
      BY <1>3, <2>3, <3>1
  <2> QED
    BY <2>1, <2>2, <2>3
<1> QED
  BY <1>4, <1>5 DEF Aligned, Intact, m

\* The whole packets at the front of the buffer are taken.
LEMMA AlignedCut ==
  ASSUME NEW S, NEW got \in Seq(S), NEW come \in Seq(S), Aligned(got \o come),
         NEW k \in Nat, NEW c \in Nat, c = 2 * k + 1, c <= Len(got) + 1,
         NEW left, left = SubSeq(got, c, Len(got))
  PROVE  left \in Seq(S) /\ Aligned(left \o come)
<1>1. /\ left \in Seq(S) /\ Len(left) = Len(got) - c + 1
      /\ \A j \in 1..(Len(got) - c + 1) : left[j] = got[c + j - 1]
  <2>1. Len(got) \in Nat /\ 1 <= c /\ \A i \in c..Len(got) : got[i] \in S
    OBVIOUS
  <2>2. /\ left \in Seq(S) /\ Len(left) = IF c <= Len(got) THEN Len(got) - c + 1 ELSE 0
        /\ \A j \in 1..(Len(got) - c + 1) : left[j] = got[c + j - 1]
    <3>1. c \in Int /\ Len(got) \in Int
      BY <2>1
    <3> QED
      BY <2>1, <3>1, SubSeqProperties
  <2> DEFINE g == Len(got)
             l == Len(left)
  <2>3. l = (IF c <= g THEN g - c + 1 ELSE 0) /\ g \in Nat /\ c <= g + 1
    BY <2>1, <2>2
  <2>4. l = g - c + 1
    <3> HIDE DEF g, l
    <3> QED
      BY <2>3
  <2> QED
    BY <2>2, <2>4
<1>2. IsSeq(left) /\ IsSeq(come) /\ IsSeq(got)
  BY <1>1 DEF IsSeq
<1> DEFINE s == got \o come
           r == left \o come
           g == Len(got)
           l == Len(left)
           n == Len(come)
<1>3. /\ g \in Nat /\ n \in Nat /\ Len(s) = g + n
      /\ \A j \in 1..g : s[j] = got[j]
      /\ \A j \in 1..n : s[g + j] = come[j]
  BY <1>2, Behind
<1>4. /\ l \in Nat /\ Len(r) = l + n
      /\ \A j \in 1..l : r[j] = left[j]
      /\ \A j \in (l + 1)..(l + n) : r[j] = come[j - l]
  BY <1>2, Behind
<1>5. l = g - 2 * k /\ 2 * k <= g /\ \A j \in 1..l : left[j] = got[2 * k + j]
  <2>1. l = g - c + 1 /\ g \in Nat /\ c <= g + 1 /\ \A j \in 1..(g - c + 1) : left[j] = got[c + j - 1]
    BY <1>1, <1>3
  <2> HIDE DEF l, g
  <2>2. l = g - 2 * k /\ 2 * k <= g
    BY <2>1
  <2>3. ASSUME NEW j \in 1..l PROVE left[j] = got[2 * k + j]
    <3>1. j \in 1..(g - c + 1) /\ c + j - 1 = 2 * k + j
      BY <2>1
    <3> QED
      BY <2>1, <3>1
  <2> QED
    BY <2>2, <2>3
<1>6. Aligned(s)
  OBVIOUS
<1> HIDE DEF s, r, g, l, n
<1>7. Len(s) \in Nat /\ 2 * k <= Len(s) /\ Len(r) = Len(s) - 2 * k
  BY <1>3, <1>4, <1>5
<1>8. ASSUME NEW j \in 1..Len(r) PROVE r[j] = s[j + 2 * k]
  <2>1. CASE j \in 1..l
    <3>1. j + 2 * k \in 1..g /\ 2 * k + j = j + 2 * k
      BY <1>3, <1>4, <1>5, <2>1
    <3>2. r[j] = left[j] /\ left[j] = got[2 * k + j]
      BY <1>4, <1>5, <2>1
    <3> QED
      BY <1>3, <3>1, <3>2
  <2>2. CASE j \in (l + 1)..(l + n)
    <3>1. j - l \in 1..n /\ g + (j - l) = j + 2 * k
      BY <1>3, <1>4, <1>5, <2>2
    <3>2. s[g + (j - l)] = come[j - l]
      BY <1>3, <3>1
    <3> QED
      BY <1>4, <2>2, <3>1, <3>2
  <2> QED
    BY <1>3, <1>4, <2>1, <2>2
<1>9. Aligned(r)
  BY <1>6, <1>7, <1>8, AlignedDrop
<1> QED
  BY <1>1, <1>9 DEF r

LEMMA Assoc ==
  ASSUME NEW S, NEW a, NEW b, NEW c, a \in Seq(S), b \in Seq(S), c \in Seq(S)
  PROVE  (a \o b) \o c = a \o (b \o c) /\ a \o b \in Seq(S)
<1>1. (a \o b) \o c = a \o (b \o c)
  BY ConcatAssociative
<1>2. a \o b \in Seq(S)
  BY ConcatProperties
<1> QED
  BY <1>1, <1>2

\* What has arrived and what is still on its way.
LEMMA Halves ==
  ASSUME NEW S, NEW down \in Seq(S), NEW n \in 0..Len(down)
  PROVE  /\ SubSeq(down, 1, n) \in Seq(S) /\ SubSeq(down, n + 1, Len(down)) \in Seq(S)
         /\ SubSeq(down, 1, n) \o SubSeq(down, n + 1, Len(down)) = down
<1> DEFINE a == SubSeq(down, 1, n)
           b == SubSeq(down, n + 1, Len(down))
<1>1. Len(down) \in Nat /\ 1 \in 1..Len(down) + 1 /\ n \in 1 - 1..Len(down) /\ Len(down) \in n..Len(down)
  OBVIOUS
<1>2. a \in Seq(S) /\ b \in Seq(S)
  BY <1>1
<1>3. a \o b = down
  BY <1>1, ConcatAdjacentSubSeq, SubSeqFull
<1> QED
  BY <1>2, <1>3

-----------------------------------------------------------------------------
(* Types. *)

LEMMA SpendType ==
  ASSUME BridgeTypeOK, NEW what \in {"drops", "commands", "changes", "posts", "restarts"}, Spend(what)
  PROVE  budget' \in [drops : Nat, commands : Nat, changes : Nat, posts : Nat, restarts : Nat]
<1>1. /\ budget \in [drops : Nat, commands : Nat, changes : Nat, posts : Nat, restarts : Nat]
      /\ budget[what] > 0 /\ budget' = [budget EXCEPT ![what] = budget[what] - 1]
  BY DEF BridgeTypeOK, BudgetOK, Spend
<1>2. budget[what] - 1 \in Nat
  BY <1>1
<1> DEFINE left == budget[what] - 1
<1> HIDE DEF left
<1>3. left \in Nat /\ budget' = [budget EXCEPT ![what] = left]
  BY <1>1, <1>2 DEF left
<1>4. CASE what = "drops"
  BY <1>1, <1>3, <1>4
<1>5. CASE what = "commands"
  BY <1>1, <1>3, <1>5
<1>6. CASE what = "changes"
  BY <1>1, <1>3, <1>6
<1>7. CASE what = "posts"
  BY <1>1, <1>3, <1>7
<1>8. CASE what = "restarts"
  BY <1>1, <1>3, <1>8
<1> QED
  BY <1>4, <1>5, <1>6, <1>7, <1>8

LEMMA StartedType ==
  ASSUME NEW c \in [write : BOOLEAN, web : BOOLEAN]
  PROVE  PcOK(Started(c)) /\ Started(c).up = FALSE
BY DEF PcOK, Started

LEMMA GotoType ==
  ASSUME BridgeTypeOK, NEW pc \in {"connect", "publish", "tick", "web"}
  PROVE  PcOK(Goto(pc)) /\ Goto(pc).pc = pc /\ Goto(pc).up = proc.up /\ Goto(pc).prev = proc.prev
BY DEF PcOK, Goto, BridgeTypeOK

LEMMA InitMessagesType == IsSeq(InitMessages)
<1>1. CASE proc.write
  <2>1. IsSeq(<<<<"availability", "online">>>>) /\ IsSeq(<<<<"subscribe">>>>)
    BY One
  <2>2. InitMessages = <<<<"availability", "online">>>> \o <<<<"subscribe">>>>
    BY <1>1 DEF InitMessages
  <2> QED
    BY <2>1, <2>2, Behind
<1>2. CASE ~proc.write
  <2>1. IsSeq(<<<<"availability", "online">>>>) /\ IsSeq(<<>>)
    BY One
  <2>2. InitMessages = <<<<"availability", "online">>>> \o <<>>
    BY <1>2 DEF InitMessages
  <2> QED
    BY <2>1, <2>2, Behind
<1> QED
  BY <1>1, <1>2

LEMMA InitClientType ==
  /\ mqtt_client_init \in [fd : BOOLEAN, rx : Seq(Piece)] /\ mqtt_client_init.fd = FALSE
  /\ [mqtt_client_init EXCEPT !.fd = TRUE] \in [fd : BOOLEAN, rx : Seq(Piece)]
  /\ [mqtt_client_init EXCEPT !.fd = TRUE].rx = <<>>
<1>1. <<>> \in Seq(Piece)
  OBVIOUS
<1>2. mqtt_client_init \in [fd : BOOLEAN, rx : Seq(Piece)] /\ mqtt_client_init.fd = FALSE
  BY <1>1 DEF mqtt_client_init
<1>3. [mqtt_client_init EXCEPT !.fd = TRUE] \in [fd : BOOLEAN, rx : Seq(Piece)]
  BY <1>1 DEF mqtt_client_init
<1>4. [mqtt_client_init EXCEPT !.fd = TRUE].rx = <<>>
  BY DEF mqtt_client_init
<1> QED
  BY <1>2, <1>3, <1>4

LEMMA InitType == BridgeInit => BridgeTypeOK
<1> SUFFICES ASSUME BridgeInit PROVE BridgeTypeOK
  OBVIOUS
<1>1. FileOK
  BY DEF BridgeInit, FileOK
<1>2. PcOK(proc)
  BY <1>1, StartedType DEF BridgeInit, FileOK
<1>3. ClientOK
  BY DEF BridgeInit, ClientOK
<1>4. NetOK
  <2>1. net.tx = <<>> /\ net \in [alive : BOOLEAN, tx : {net.tx}, down : Seq(Piece)]
    BY DEF BridgeInit
  <2>2. IsSeq(net.tx)
    BY <2>1, Empty
  <2> QED
    BY <2>1, <2>2 DEF NetOK
<1>5. BrokerOK
  BY DEF BridgeInit, BrokerOK, Lost, NothingRetained, Exact
<1>6. BudgetOK
  BY BridgeAssumption DEF BridgeInit, BudgetOK
<1> QED
  BY <1>1, <1>2, <1>3, <1>4, <1>5, <1>6 DEF BridgeTypeOK

-----------------------------------------------------------------------------
(* What a step leaves alone. *)

LEMMA KnownLost ==
  ASSUME ~proc'.up \/ ~client'.fd \/ ~net'.alive \/ ~broker'.session.open
  PROVE  Known'
BY DEF Known

LEMMA KnownKept ==
  ASSUME Known, net'.tx = net.tx, net'.alive = net.alive, client'.fd = client.fd,
         proc'.up = proc.up, proc'.prev = proc.prev, proc'.pc = proc.pc \/ proc.pc # "publish",
         UNCHANGED broker
  PROVE  Known'
<1> SUFFICES ASSUME proc'.up, client'.fd, net'.alive, broker'.session.open
             PROVE  \/ proc'.pc = "publish" /\ proc'.prev = Unknown
                    \/ \A t \in Exact : Settles(broker', net'.tx, t, Payload(proc'.prev, t))
  BY DEF Known, Settles, Says, Silent, Payload, Exact, Unknown
<1>1. CASE proc.pc = "publish" /\ proc.prev = Unknown
  BY <1>1
<1>2. CASE \A t \in Exact : Settles(broker, net.tx, t, Payload(proc.prev, t))
  BY <1>2
<1> QED
  BY <1>1, <1>2 DEF Known

LEMMA AlignedOnly == StreamAligned <=> (client.fd /\ net.alive => Aligned(client.rx \o net.down))
BY DEF StreamAligned, Aligned

LEMMA StreamLost ==
  ASSUME ~client'.fd \/ ~net'.alive
  PROVE  StreamAligned'
BY DEF StreamAligned

LEMMA StreamKept ==
  ASSUME StreamAligned, UNCHANGED client, net'.alive = net.alive, net'.down = net.down
  PROVE  StreamAligned'
BY DEF StreamAligned, Intact

\* A step of the memory, the file, the loop's place or the configuration.
LEMMA QuietStep ==
  ASSUME BridgeInv, UNCHANGED <<client, net, broker>>, FileOK', BudgetOK', PcOK(proc'),
         proc'.up = proc.up, proc'.prev = proc.prev, proc'.pc = proc.pc \/ proc.pc # "publish"
  PROVE  BridgeInv'
<1>1. ClientOK' /\ NetOK' /\ BrokerOK'
  BY DEF BridgeInv, BridgeTypeOK, ClientOK, NetOK, BrokerOK
<1>2. BridgeTypeOK'
  BY <1>1 DEF PcOK, BridgeTypeOK, FileOK, ClientOK, NetOK, BrokerOK, BudgetOK
<1>3. StreamAligned'
  BY StreamKept DEF BridgeInv
<1>4. Known'
  BY KnownKept DEF BridgeInv
<1> QED
  BY <1>2, <1>3, <1>4 DEF BridgeInv

\* A step after which nothing is connected.
LEMMA LostStep ==
  ASSUME FileOK', PcOK(proc'), ClientOK', NetOK', BrokerOK', BudgetOK',
         ~client'.fd \/ ~net'.alive
  PROVE  BridgeInv'
<1>1. BridgeTypeOK'
  BY DEF PcOK, BridgeTypeOK, FileOK, ClientOK, NetOK, BrokerOK, BudgetOK
<1>2. StreamAligned'
  BY StreamLost
<1>3. Known'
  BY KnownLost
<1> QED
  BY <1>1, <1>2, <1>3 DEF BridgeInv

LEMMA QuietSteps ==
  ASSUME BridgeInv,
         NoConnect \/ NotUp \/ NoRequest \/ handle_post_command \/ handle_post_config \/ StockWrites
  PROVE  BridgeInv'
<1> USE DEF BridgeInv, BridgeTypeOK
<1>1. CASE NoConnect
  <2>1. PcOK(proc') /\ proc'.up = proc.up /\ proc'.prev = proc.prev /\ proc.pc # "publish"
    BY <1>1, GotoType DEF NoConnect
  <2>2. FileOK' /\ BudgetOK'
    BY <1>1 DEF NoConnect, FileOK, BudgetOK
  <2> QED
    BY <1>1, <2>1, <2>2, QuietStep DEF NoConnect
<1>2. CASE NotUp
  <2>1. PcOK(proc') /\ proc'.up = proc.up /\ ~proc.up
    BY <1>2, GotoType DEF NotUp
  <2>2. FileOK' /\ BudgetOK' /\ ClientOK' /\ NetOK' /\ BrokerOK'
    BY <1>2 DEF NotUp, FileOK, BudgetOK, ClientOK, NetOK, BrokerOK
  <2>3. BridgeTypeOK'
    BY <2>1, <2>2 DEF PcOK, BridgeTypeOK, FileOK, ClientOK, NetOK, BrokerOK, BudgetOK
  <2>4. StreamAligned'
    BY <1>2, StreamKept DEF NotUp
  <2>5. Known'
    BY <2>1, KnownLost
  <2> QED
    BY <2>3, <2>4, <2>5
<1>3. CASE NoRequest
  <2>1. PcOK(proc') /\ proc'.up = proc.up /\ proc'.prev = proc.prev /\ proc.pc # "publish"
    BY <1>3, GotoType DEF NoRequest
  <2>2. FileOK' /\ BudgetOK'
    BY <1>3 DEF NoRequest, FileOK, BudgetOK
  <2> QED
    BY <1>3, <2>1, <2>2, QuietStep DEF NoRequest
<1>4. CASE handle_post_command
  <2>1. BudgetOK'
    BY <1>4, SpendType DEF handle_post_command, BudgetOK
  <2>2. FileOK' /\ PcOK(proc')
    BY <1>4 DEF handle_post_command, FileOK, PcOK
  <2> QED
    BY <1>4, <2>1, <2>2, QuietStep DEF handle_post_command
<1>5. CASE handle_post_config
  <2>1. BudgetOK'
    BY <1>5, SpendType DEF handle_post_config, BudgetOK
  <2>2. PICK c \in [write : BOOLEAN, web : BOOLEAN], stored \in BOOLEAN :
          /\ proc' = [proc EXCEPT !.cfg = c]
          /\ file' = IF stored THEN proc'.cfg ELSE file
    BY <1>5 DEF handle_post_config
  <2>3. PcOK(proc') /\ proc'.cfg = c /\ proc'.up = proc.up /\ proc'.prev = proc.prev /\ proc'.pc = proc.pc
    BY <2>2 DEF PcOK
  <2>4. FileOK'
    BY <2>2, <2>3 DEF FileOK
  <2> QED
    BY <1>5, <2>1, <2>3, <2>4, QuietStep DEF handle_post_config
<1>6. CASE StockWrites
  <2>1. BudgetOK'
    BY <1>6, SpendType DEF StockWrites, BudgetOK
  <2>2. FileOK' /\ PcOK(proc')
    BY <1>6 DEF StockWrites, FileOK, PcOK
  <2> QED
    BY <1>6, <2>1, <2>2, QuietStep DEF StockWrites
<1> QED
  BY <1>1, <1>2, <1>3, <1>4, <1>5, <1>6

-----------------------------------------------------------------------------
(* Steps that end a connection, at the bridge or between it and the broker. *)

LEMMA NewSessionType ==
  ASSUME BridgeTypeOK, NewSession
  PROVE  BrokerOK' /\ broker'.session.open = TRUE
BY DEF BridgeTypeOK, NewSession, BrokerOK, Exact

\* Records of the network with a given queue to the broker.
LEMMA NetType ==
  ASSUME NEW tx, IsSeq(tx), NEW down, down \in Seq(Piece), NEW a \in BOOLEAN,
         net' = [alive |-> a, tx |-> tx, down |-> down]
  PROVE  NetOK' /\ net'.alive = a /\ net'.tx = tx /\ net'.down = down
<1>1. net'.tx = tx
  OBVIOUS
<1>2. IsSeq(net'.tx)
  BY <1>1
<1>3. net' \in [alive : BOOLEAN, tx : {net'.tx}, down : Seq(Piece)]
  OBVIOUS
<1> QED
  BY <1>2, <1>3 DEF NetOK

LEMMA NetRecord ==
  ASSUME NetOK
  PROVE  /\ net = [alive |-> net.alive, tx |-> net.tx, down |-> net.down]
         /\ net.alive \in BOOLEAN /\ IsSeq(net.tx) /\ net.down \in Seq(Piece)
BY DEF NetOK

LEMMA NothingArrives == <<>> \in Seq(Piece)
OBVIOUS

LEMMA BackToStart ==
  ASSUME FileOK', proc' = Started(file'), client' = mqtt_client_init
  PROVE  PcOK(proc') /\ ClientOK' /\ ~client'.fd
BY StartedType, InitClientType DEF FileOK, ClientOK

LEMMA LostSteps ==
  ASSUME BridgeInv,
         nb_init_fails \/ do_restart \/ Shutdown \/ PowerGoes \/ LinkDies \/ BrokerRestarts
  PROVE  BridgeInv'
<1>0. FileOK /\ PcOK(proc) /\ ClientOK /\ NetOK /\ BrokerOK /\ BudgetOK /\ BridgeTypeOK
  BY DEF BridgeInv, BridgeTypeOK
<1>1. CASE nb_init_fails
  <2>1. BudgetOK' /\ FileOK' /\ BrokerOK'
    BY <1>0, <1>1, SpendType, NewSessionType DEF nb_init_fails, BudgetOK, FileOK
  <2>2. ClientOK' /\ ~client'.fd
    BY <1>1, InitClientType DEF nb_init_fails, ClientOK
  <2>3. PICK k \in 0..Len(InitMessages) - 1 :
          net' = [alive |-> FALSE, tx |-> SubSeq(InitMessages, 1, k), down |-> <<>>]
    BY <1>1 DEF nb_init_fails
  <2>4. IsSeq(SubSeq(InitMessages, 1, k))
    <3>1. Len(InitMessages) \in Nat
      BY InitMessagesType, Behind
    <3>2. k \in 0..Len(InitMessages)
      BY <3>1
    <3> QED
      BY <3>2, InitMessagesType, CutShort
  <2>5. NetOK'
    BY <2>3, <2>4, NothingArrives, NetType
  <2>6. PcOK(proc')
    <3>1. PcOK(Goto("publish"))
      BY <1>0, GotoType
    <3>2. PcOK(Connected)
      BY <1>0 DEF PcOK, Connected
    <3> QED
      BY <1>1, <3>1, <3>2 DEF nb_init_fails
  <2> QED
    BY <2>1, <2>2, <2>5, <2>6, LostStep
<1>2. CASE do_restart
  <2>1. BudgetOK' /\ FileOK' /\ NetOK' /\ BrokerOK'
    BY <1>0, <1>2, SpendType DEF do_restart, BudgetOK, FileOK, NetOK, BrokerOK
  <2>2. PcOK(proc') /\ ClientOK' /\ ~client'.fd
    <3>1. PICK free \in BOOLEAN : proc' = [Started(file) EXCEPT !.web = @ /\ free]
      BY <1>2 DEF do_restart
    <3>2. PcOK(proc')
      BY <1>0, <3>1 DEF FileOK, PcOK, Started
    <3>3. client' = mqtt_client_init
      BY <1>2 DEF do_restart
    <3> QED BY <3>2, <3>3, InitClientType DEF ClientOK
  <2> QED
    BY <2>1, <2>2, LostStep
<1>3. CASE Shutdown
  <2>1. BudgetOK' /\ FileOK' /\ BrokerOK'
    BY <1>0, <1>3, SpendType DEF Shutdown, BudgetOK, FileOK, BrokerOK
  <2>2. PcOK(proc') /\ ClientOK' /\ ~client'.fd
    BY <1>3, <2>1, BackToStart DEF Shutdown
  <2> DEFINE bye == <<<<"availability", "offline">>, <<"disconnect">>>>
             tx  == IF client.fd /\ net.alive THEN net.tx \o bye ELSE net.tx
  <2>3. IsSeq(bye)
    <3>1. bye \in Seq({<<"availability", "offline">>, <<"disconnect">>})
      OBVIOUS
    <3> QED
      BY <3>1 DEF IsSeq
  <2>4. net' = [net EXCEPT !.tx = tx]
    BY <1>3 DEF Shutdown
  <2> HIDE DEF bye
  <2>5. IsSeq(tx)
    BY <1>0, <2>3, Behind, NetRecord
  <2> HIDE DEF tx
  <2>6. net' = [alive |-> net.alive, tx |-> tx, down |-> net.down]
    BY <1>0, <2>4, NetRecord
  <2>7. NetOK'
    BY <1>0, <2>5, <2>6, NetType, NetRecord
  <2> QED
    BY <2>1, <2>2, <2>7, LostStep
<1>4. CASE PowerGoes
  <2>1. BudgetOK' /\ BrokerOK'
    BY <1>0, <1>4, SpendType DEF PowerGoes, BudgetOK, BrokerOK
  <2>2. FileOK'
    <3>1. file' = file \/ file' = config_defaults
      BY <1>4 DEF PowerGoes
    <3>2. config_defaults \in [write : BOOLEAN, web : BOOLEAN]
      BY DEF config_defaults
    <3> QED
      BY <1>0, <3>1, <3>2 DEF FileOK
  <2>3. PcOK(proc') /\ ClientOK' /\ ~client'.fd
    BY <1>4, <2>2, BackToStart DEF PowerGoes
  <2>4. net' = [alive |-> FALSE, tx |-> net.tx, down |-> <<>>]
    BY <1>0, <1>4, NetRecord DEF PowerGoes
  <2>5. NetOK'
    BY <1>0, <2>4, NetType, NetRecord, NothingArrives
  <2> QED
    BY <2>1, <2>2, <2>3, <2>5, LostStep
<1>5. CASE LinkDies
  <2>1. BudgetOK' /\ FileOK' /\ BrokerOK' /\ ClientOK' /\ PcOK(proc')
    BY <1>0, <1>5, SpendType DEF LinkDies, BudgetOK, FileOK, BrokerOK, ClientOK
  <2>2. PICK i \in 0..Len(net.tx), j \in 0..Len(net.down) :
          net' = [alive |-> FALSE, tx |-> SubSeq(net.tx, 1, i), down |-> SubSeq(net.down, 1, j)]
    BY <1>5 DEF LinkDies
  <2>3. IsSeq(SubSeq(net.tx, 1, i))
    BY <1>0, <2>2, CutShort, NetRecord
  <2>4. SubSeq(net.down, 1, j) \in Seq(Piece)
    BY <1>0, NetRecord
  <2>5. NetOK' /\ net'.alive = FALSE
    BY <2>2, <2>3, <2>4, NetType
  <2> QED
    BY <2>1, <2>5, LostStep
<1>6. CASE BrokerRestarts
  <2>1. BudgetOK' /\ FileOK' /\ ClientOK' /\ PcOK(proc')
    BY <1>0, <1>6, SpendType DEF BrokerRestarts, BudgetOK, FileOK, ClientOK
  <2>2. BrokerOK'
    BY <1>6 DEF BrokerRestarts, BrokerOK, Lost, NothingRetained, Exact
  <2>3. net' = [alive |-> FALSE, tx |-> <<>>, down |-> <<>>]
    BY <1>6 DEF BrokerRestarts
  <2>4. IsSeq(<<>>)
    BY One
  <2>5. NetOK' /\ net'.alive = FALSE
    BY <2>3, <2>4, NetType, NothingArrives
  <2> QED
    BY <2>1, <2>2, <2>5, LostStep
<1> QED
  BY <1>1, <1>2, <1>3, <1>4, <1>5, <1>6

-----------------------------------------------------------------------------
(* Connecting, publishing, and what the broker takes. *)

LEMMA SendsNet ==
  ASSUME NetOK, NEW msgs, IsSeq(msgs), net' = [net EXCEPT !.tx = IF net.alive THEN @ \o msgs ELSE @]
  PROVE  /\ NetOK' /\ net'.alive = net.alive /\ net'.down = net.down
         /\ net.alive => net'.tx = net.tx \o msgs
<1> DEFINE tx == IF net.alive THEN net.tx \o msgs ELSE net.tx
<1>1. IsSeq(tx)
  BY Behind, NetRecord
<1>2. net' = [net EXCEPT !.tx = tx]
  OBVIOUS
<1>3. net.alive => tx = net.tx \o msgs
  OBVIOUS
<1> HIDE DEF tx
<1>4. net' = [alive |-> net.alive, tx |-> tx, down |-> net.down]
  BY <1>2, NetRecord
<1>5. NetOK' /\ net'.alive = net.alive /\ net'.down = net.down /\ net'.tx = tx
  BY <1>1, <1>4, NetType, NetRecord
<1> QED
  BY <1>3, <1>5

LEMMA SendFailsNet ==
  ASSUME BridgeTypeOK, NEW msgs, IsSeq(msgs), SendFails(msgs)
  PROVE  NetOK' /\ ClientOK' /\ BudgetOK' /\ ~client'.fd
<1>0. NetOK /\ BudgetOK /\ Len(msgs) \in Nat /\ Len(net.tx) \in Nat
  BY NetRecord, Behind DEF BridgeTypeOK
<1>1. ClientOK' /\ ~client'.fd
  BY InitClientType DEF SendFails, ClientOK
<1>2. CASE client.fd /\ net.alive
  <2>1. BudgetOK'
    BY <1>2, SpendType DEF SendFails, BudgetOK
  <2>2. PICK k \in 0..Len(msgs) - 1 :
          net' = [net EXCEPT !.alive = FALSE, !.down = <<>>, !.tx = SubSeq(net.tx \o msgs, 1, k)]
    BY <1>2 DEF SendFails
  <2>3. net' = [alive |-> FALSE, tx |-> SubSeq(net.tx \o msgs, 1, k), down |-> <<>>]
    BY <1>0, <2>2, NetRecord
  <2>4. IsSeq(net.tx \o msgs) /\ Len(net.tx \o msgs) = Len(net.tx) + Len(msgs)
    BY <1>0, Behind, NetRecord
  <2>5. k \in 0..Len(net.tx \o msgs)
    BY <1>0, <2>4
  <2>6. IsSeq(SubSeq(net.tx \o msgs, 1, k))
    BY <2>4, <2>5, CutShort
  <2>7. NetOK'
    BY <2>3, <2>6, NetType, NothingArrives
  <2> QED
    BY <1>1, <2>1, <2>7
<1>3. CASE ~(client.fd /\ net.alive)
  <2>1. NetOK' /\ BudgetOK'
    BY <1>0, <1>3 DEF SendFails, NetOK, BudgetOK
  <2> QED
    BY <1>1, <2>1
<1> QED
  BY <1>2, <1>3

LEMMA ConnectStep == BridgeInv /\ nb_init => BridgeInv'
<1> SUFFICES ASSUME BridgeInv, nb_init PROVE BridgeInv'
  OBVIOUS
<1>0. FileOK /\ PcOK(proc) /\ ClientOK /\ NetOK /\ BrokerOK /\ BudgetOK /\ BridgeTypeOK
  BY DEF BridgeInv, BridgeTypeOK
<1>1. PcOK(proc') /\ proc'.pc = "publish" /\ proc'.prev = Unknown
  BY <1>0 DEF PcOK, nb_init, Connected
<1>2. ClientOK' /\ client'.rx = <<>>
  BY InitClientType DEF nb_init, ClientOK
<1>3. net' = [alive |-> TRUE, tx |-> InitMessages, down |-> <<>>]
  BY DEF nb_init
<1>4. NetOK' /\ net'.down = <<>>
  BY <1>3, InitMessagesType, NetType, NothingArrives
<1>5. FileOK' /\ BudgetOK' /\ BrokerOK'
  BY <1>0, NewSessionType DEF nb_init, FileOK, BudgetOK
<1>6. BridgeTypeOK'
  BY <1>1, <1>2, <1>4, <1>5 DEF PcOK, BridgeTypeOK, FileOK, ClientOK, NetOK, BrokerOK, BudgetOK
<1>7. Known'
  BY <1>1 DEF Known
<1>8. StreamAligned'
  <2>1. client'.rx \o net'.down = <<>>
    BY <1>2, <1>4
  <2>2. Len(client'.rx \o net'.down) = 0
    BY <2>1
  <2> QED
    BY <2>2 DEF StreamAligned, Intact
<1> QED
  BY <1>6, <1>7, <1>8 DEF BridgeInv

\* The first publication after a connection is a full one; a later one repeats what is
\* believed to have changed.
LEMMA PublishedKnown ==
  ASSUME BridgeInv, Publish, net.alive, client.fd, proc.up, broker.session.open,
         NEW tx, tx = net.tx \o Publications,
         NEW t \in Exact
  PROVE  Settles(broker, tx, t, Payload(shm, t))
<1>0. IsSeq(net.tx) /\ proc.pc = "publish"
  BY NetRecord DEF BridgeInv, BridgeTypeOK, Publish
<1>1. /\ IsSeq(Publications)
      /\ Dirty(t) => Says(Publications, t, Payload(shm, t))
      /\ ~Dirty(t) => Silent(Publications, t)
  BY PublicationsHold
<1>2. CASE Dirty(t)
  BY <1>0, <1>1, <1>2, SaysBehind DEF Settles
<1>3. CASE ~Dirty(t)
  <2>1. proc.prev # Unknown
    BY <1>3 DEF Dirty, Full, Unknown
  <2>2. Settles(broker, net.tx, t, Payload(proc.prev, t))
    BY <1>0, <2>1 DEF BridgeInv, Known
  <2>3. Payload(proc.prev, t) = Payload(shm, t)
    BY <1>3 DEF Dirty, charger_state_diff, Exact, Topics
  <2>4. Settles(broker, net.tx, t, Payload(shm, t))
    BY <2>2, <2>3
  <2> QED
    BY <1>0, <1>1, <1>3, <2>4, SaysBehind DEF Settles
<1> QED
  BY <1>2, <1>3

LEMMA PublishStep == BridgeInv /\ Publish => BridgeInv'
<1> SUFFICES ASSUME BridgeInv, Publish PROVE BridgeInv'
  OBVIOUS
<1>0. FileOK /\ PcOK(proc) /\ ClientOK /\ NetOK /\ BrokerOK /\ BudgetOK /\ BridgeTypeOK
  BY DEF BridgeInv, BridgeTypeOK
<1>1. FileOK' /\ BrokerOK' /\ UNCHANGED broker /\ proc.up
  BY <1>0 DEF Publish, FileOK, BrokerOK
<1>2. IsSeq(Publications)
  BY PublicationsHold DEF Exact
<1>3. CASE /\ UNCHANGED <<client, budget>> /\ net'.alive = net.alive /\ net'.down = net.down /\ NetOK'
           /\ net.alive => net'.tx = net.tx \o Publications
           /\ proc' = [proc EXCEPT !.pc = "tick", !.prev = shm]
  <2>1. PcOK(proc') /\ proc'.prev = shm
    BY <1>0, <1>3 DEF PcOK
  <2>2. ClientOK' /\ BudgetOK'
    BY <1>0, <1>3 DEF ClientOK, BudgetOK
  <2>3. BridgeTypeOK'
    BY <1>1, <1>3, <2>1, <2>2 DEF PcOK, BridgeTypeOK, FileOK, ClientOK, NetOK, BrokerOK, BudgetOK
  <2>4. StreamAligned'
    BY <1>3, StreamKept DEF BridgeInv
  <2>5. ASSUME net'.alive, client'.fd, broker'.session.open, NEW t \in Exact
        PROVE  Settles(broker', net'.tx, t, Payload(proc'.prev, t))
    <3>1. net.alive /\ client.fd /\ broker.session.open /\ net'.tx = net.tx \o Publications
      BY <1>1, <1>3, <2>5
    <3>2. Settles(broker, net'.tx, t, Payload(shm, t))
      BY <1>1, <2>5, <3>1, PublishedKnown
    <3> QED
      BY <1>1, <2>1, <3>2 DEF Settles
  <2>6. Known'
    BY <2>5 DEF Known
  <2> QED
    BY <2>3, <2>4, <2>6 DEF BridgeInv
<1>4. CASE SendFails(Publications) /\ proc' = [proc EXCEPT !.pc = "web", !.up = FALSE]
  <2>1. PcOK(proc')
    BY <1>0, <1>4 DEF PcOK
  <2>2. NetOK' /\ ClientOK' /\ BudgetOK' /\ ~client'.fd
    BY <1>0, <1>2, <1>4, SendFailsNet
  <2> QED
    BY <1>1, <2>1, <2>2, LostStep
<1>5. CASE Publications = <<>> /\ UNCHANGED <<client, net, budget>> /\ proc' = [proc EXCEPT !.pc = "tick", !.prev = shm]
  <2>1. NetOK'
    BY <1>0, <1>5 DEF NetOK
  <2>2. net.tx \o <<>> = net.tx
    <3>1. PICK S : net.tx \in Seq(S)
      BY <1>0 DEF NetOK, IsSeq
    <3> QED
      BY <3>1, ConcatEmptySeq
  <2> QED
    BY <1>3, <1>5, <2>1, <2>2
<1>6. CASE Sends(Publications) /\ UNCHANGED <<client, budget>> /\ proc' = [proc EXCEPT !.pc = "tick", !.prev = shm]
  <2>1. /\ NetOK' /\ net'.alive = net.alive /\ net'.down = net.down
        /\ net.alive => net'.tx = net.tx \o Publications
    BY <1>0, <1>2, <1>6, SendsNet DEF Sends
  <2> QED
    BY <1>3, <1>6, <2>1
<1> QED
  BY <1>4, <1>5, <1>6 DEF Publish

\* One message taken: the value it carries is retained under its topic and no other.
LEMMA ReceivedType ==
  ASSUME BrokerOK, NEW m, broker' = Received(broker, m)
  PROVE  /\ BrokerOK'
         /\ \A t \in Exact : broker'.session.open =>
              broker'.retained[t] = IF m[1] = t THEN m[2] ELSE broker.retained[t]
<1> DEFINE R == broker.retained
<1>0. /\ broker \in [session : [open : BOOLEAN, sub : BOOLEAN], retained : {R}]
      /\ R = [t \in DOMAIN R |-> R[t]] /\ Exact \subseteq DOMAIN R
      /\ "discovery" \notin Exact /\ "subscribe" \notin Exact /\ "disconnect" \notin Exact
  BY DEF BrokerOK, Exact
<1>1. CASE m[1] = "subscribe"
  <2> DEFINE now == [broker.session EXCEPT !.sub = TRUE]
  <2>1. broker' = [broker EXCEPT !.session = now] /\ now \in [open : BOOLEAN, sub : BOOLEAN]
    BY <1>0, <1>1 DEF Received
  <2> HIDE DEF now
  <2>2. broker'.retained = R /\ broker' \in [session : [open : BOOLEAN, sub : BOOLEAN], retained : {R}]
    BY <1>0, <2>1
  <2> QED
    BY <1>0, <1>1, <2>2 DEF BrokerOK
<1>2. CASE m[1] = "disconnect"
  <2>1. broker' = [broker EXCEPT !.session = Lost]
    BY <1>2 DEF Received
  <2>2. broker'.retained = R /\ broker' \in [session : [open : BOOLEAN, sub : BOOLEAN], retained : {R}]
    <3>1. Lost \in [open : BOOLEAN, sub : BOOLEAN]
      BY DEF Lost
    <3> QED
      BY <1>0, <2>1, <3>1
  <2> QED
    BY <1>0, <1>2, <2>2 DEF BrokerOK
<1>3. CASE m[1] = "discovery"
  <2>1. broker' = [broker EXCEPT !.retained.discovery = @ \cup {m[2]}]
    BY <1>3 DEF Received
  <2> DEFINE new == R["discovery"] \cup {m[2]}
  <2>2. broker'.retained = [R EXCEPT !["discovery"] = new]
    BY <1>0, <2>1
  <2>3. broker'.session = broker.session /\ broker' = [session |-> broker.session, retained |-> broker'.retained]
    BY <1>0, <2>1
  <2> HIDE DEF new
  <2>4. /\ DOMAIN broker'.retained = DOMAIN R
        /\ broker'.retained = [t \in DOMAIN broker'.retained |-> broker'.retained[t]]
    BY <1>0, <2>2
  <2>5. \A t \in Exact : broker'.retained[t] = R[t]
    BY <1>0, <2>2
  <2>6. BrokerOK'
    BY <1>0, <2>3, <2>4 DEF BrokerOK
  <2> QED
    BY <1>0, <1>3, <2>5, <2>6
<1>4. CASE m[1] \notin {"subscribe", "disconnect", "discovery"}
  <2>1. broker' = [broker EXCEPT !.retained[m[1]] = m[2]]
    BY <1>4 DEF Received
  <2>2. broker'.retained = [R EXCEPT ![m[1]] = m[2]]
    BY <1>0, <2>1
  <2>3. broker'.session = broker.session /\ broker' = [session |-> broker.session, retained |-> broker'.retained]
    BY <1>0, <2>1
  <2>4. /\ DOMAIN broker'.retained = DOMAIN R
        /\ broker'.retained = [t \in DOMAIN broker'.retained |-> broker'.retained[t]]
    BY <1>0, <2>2
  <2>5. \A t \in Exact : broker'.retained[t] = IF m[1] = t THEN m[2] ELSE R[t]
    BY <1>0, <2>2
  <2>6. BrokerOK'
    BY <1>0, <2>3, <2>4 DEF BrokerOK
  <2> QED
    BY <2>5, <2>6
<1> QED
  BY <1>1, <1>2, <1>3, <1>4

LEMMA ReceiveStep == BridgeInv /\ BrokerReceives => BridgeInv'
<1> SUFFICES ASSUME BridgeInv, BrokerReceives PROVE BridgeInv'
  OBVIOUS
<1>0. FileOK /\ PcOK(proc) /\ ClientOK /\ NetOK /\ BrokerOK /\ BudgetOK /\ BridgeTypeOK
  BY DEF BridgeInv, BridgeTypeOK
<1> DEFINE m == Head(net.tx)
<1>1. /\ net.tx # <<>> /\ broker.session.open /\ broker' = Received(broker, m)
      /\ net' = [net EXCEPT !.tx = Tail(net.tx)] /\ UNCHANGED <<shm, file, proc, client, budget>>
  BY DEF BrokerReceives
<1>2. IsSeq(net.tx) /\ IsSeq(Tail(net.tx))
  BY <1>0, <1>1, Rest, NetRecord
<1>3. net' = [alive |-> net.alive, tx |-> Tail(net.tx), down |-> net.down]
  BY <1>0, <1>1, NetRecord
<1>4. NetOK' /\ net'.alive = net.alive /\ net'.tx = Tail(net.tx) /\ net'.down = net.down
  BY <1>0, <1>2, <1>3, NetType, NetRecord
<1> HIDE DEF m
<1>5. /\ BrokerOK'
      /\ \A t \in Exact : broker'.session.open =>
           broker'.retained[t] = IF m[1] = t THEN m[2] ELSE broker.retained[t]
  BY <1>0, <1>1, ReceivedType
<1>6. FileOK' /\ PcOK(proc') /\ ClientOK' /\ BudgetOK'
  BY <1>0, <1>1 DEF FileOK, ClientOK, BudgetOK
<1>7. BridgeTypeOK'
  BY <1>4, <1>5, <1>6 DEF PcOK, BridgeTypeOK, FileOK, ClientOK, NetOK, BrokerOK, BudgetOK
<1>8. StreamAligned'
  BY <1>1, <1>4, StreamKept DEF BridgeInv
<1>9. ASSUME broker'.session.open, NEW t \in Exact, NEW v, Settles(broker, net.tx, t, v)
      PROVE  Settles(broker', net'.tx, t, v)
  <2>1. /\ Silent(net.tx, t) => Silent(net'.tx, t) /\ m[1] # t
        /\ Says(net.tx, t, v) => \/ Says(net'.tx, t, v)
                                 \/ m[1] = t /\ m[2] = v /\ Silent(net'.tx, t)
    BY <1>1, <1>2, <1>4, SaysTail DEF m
  <2> QED
    BY <1>5, <1>9, <2>1 DEF Settles
<1>10. Known'
  <2> SUFFICES ASSUME proc'.up, client'.fd, net'.alive, broker'.session.open,
                      ~(proc'.pc = "publish" /\ proc'.prev = Unknown), NEW t \in Exact
               PROVE  Settles(broker', net'.tx, t, Payload(proc'.prev, t))
    BY DEF Known
  <2>1. UNCHANGED <<proc, client>> /\ net.alive
    BY <1>1, <1>4
  <2>2. Settles(broker, net.tx, t, Payload(proc.prev, t))
    BY <1>1, <2>1 DEF BridgeInv, Known
  <2>3. Payload(proc'.prev, t) = Payload(proc.prev, t)
    BY <2>1
  <2> QED
    BY <1>9, <2>2, <2>3
<1> QED
  BY <1>7, <1>8, <1>10 DEF BridgeInv

LEMMA NoticeStep == BridgeInv /\ BrokerNotices => BridgeInv'
<1> SUFFICES ASSUME BridgeInv, BrokerNotices PROVE BridgeInv'
  OBVIOUS
<1>0. FileOK /\ PcOK(proc) /\ ClientOK /\ NetOK /\ BrokerOK /\ BudgetOK /\ BridgeTypeOK
  BY DEF BridgeInv, BridgeTypeOK
<1>1. FileOK' /\ PcOK(proc') /\ ClientOK' /\ NetOK' /\ BudgetOK' /\ ~net'.alive
  BY <1>0 DEF BrokerNotices, FileOK, ClientOK, NetOK, BudgetOK
<1>2. BrokerOK'
  BY <1>0 DEF BrokerNotices, BrokerOK, Lost
<1> QED
  BY <1>1, <1>2, LostStep

-----------------------------------------------------------------------------
(* Commands on their way to the bridge. *)

LEMMA GiveUpSteps == BridgeInv /\ (TickGivesUp \/ TickSeesDown) => BridgeInv'
<1> SUFFICES ASSUME BridgeInv, TickGivesUp \/ TickSeesDown PROVE BridgeInv'
  OBVIOUS
<1>0. FileOK /\ PcOK(proc) /\ ClientOK /\ NetOK /\ BrokerOK /\ BudgetOK /\ BridgeTypeOK
  BY DEF BridgeInv, BridgeTypeOK
<1>1. FileOK' /\ BrokerOK' /\ BudgetOK'
  BY <1>0 DEF TickGivesUp, TickSeesDown, FileOK, BrokerOK, BudgetOK
<1>2. PcOK(proc')
  BY <1>0 DEF TickGivesUp, TickSeesDown, PcOK
<1>3. ClientOK' /\ ~client'.fd
  BY InitClientType DEF TickGivesUp, TickSeesDown, mqtt_client_disconnect, ClientOK
<1>4. NetOK'
  <2>1. CASE UNCHANGED net
    BY <1>0, <2>1 DEF NetOK
  <2>2. CASE net' = [net EXCEPT !.tx = IF net.alive THEN Append(@, <<"disconnect">>) ELSE @]
    <3> DEFINE bye == <<"disconnect">>
               tx  == IF net.alive THEN Append(net.tx, bye) ELSE net.tx
    <3>1. net' = [net EXCEPT !.tx = tx]
      BY <2>2
    <3> HIDE DEF bye
    <3>2. IsSeq(tx)
      <4>1. PICK S : net.tx \in Seq(S)
        BY <1>0 DEF NetOK, IsSeq
      <4>2. net.tx \in Seq(S \cup {bye})
        BY <4>1
      <4>3. Append(net.tx, bye) \in Seq(S \cup {bye})
        BY <4>2
      <4>4. IsSeq(Append(net.tx, bye)) /\ IsSeq(net.tx)
        BY <4>1, <4>3 DEF IsSeq
      <4> QED
        BY <4>4
    <3> HIDE DEF tx
    <3>3. net' = [alive |-> net.alive, tx |-> tx, down |-> net.down]
      BY <1>0, <3>1, NetRecord
    <3> QED
      BY <1>0, <3>2, <3>3, NetType, NetRecord
  <2> QED
    BY <2>1, <2>2 DEF TickGivesUp, TickSeesDown, mqtt_client_disconnect
<1> QED
  BY <1>1, <1>2, <1>3, <1>4, LostStep

LEMMA ReceiveCommands == BridgeInv /\ TickReceives => BridgeInv'
<1> SUFFICES ASSUME BridgeInv, TickReceives PROVE BridgeInv'
  OBVIOUS
<1>0. FileOK /\ PcOK(proc) /\ ClientOK /\ NetOK /\ BrokerOK /\ BudgetOK /\ BridgeTypeOK
  BY DEF BridgeInv, BridgeTypeOK
<1>1. PICK n \in 0..Len(net.down) :
        LET rx == client.rx \o SubSeq(net.down, 1, n) IN
          /\ client' = [client EXCEPT !.rx = SubSeq(rx, 2 * (Len(rx) \div 2) + 1, Len(rx))]
          /\ net' = [net EXCEPT !.down = SubSeq(net.down, n + 1, Len(net.down))]
  BY DEF TickReceives
<1> DEFINE rx   == client.rx \o SubSeq(net.down, 1, n)
           k    == Len(rx) \div 2
           c    == 2 * k + 1
           left == SubSeq(rx, c, Len(rx))
           come == SubSeq(net.down, n + 1, Len(net.down))
<1>2. client' = [client EXCEPT !.rx = left] /\ net' = [net EXCEPT !.down = come]
  BY <1>1
<1>3. /\ rx \in Seq(Piece) /\ come \in Seq(Piece) /\ Len(rx) \in Nat
      /\ rx \o come = client.rx \o net.down
  <2> DEFINE q == client.rx
             a == SubSeq(net.down, 1, n)
  <2>1. q \in Seq(Piece) /\ net.down \in Seq(Piece) /\ n \in 0..Len(net.down)
    BY <1>0 DEF ClientOK, NetOK
  <2>2. a \in Seq(Piece) /\ come \in Seq(Piece)
    BY <2>1, Halves
  <2>3. a \o come = net.down
    BY <2>1, Halves
  <2>4. rx = q \o a
    OBVIOUS
  <2> HIDE DEF q, a, come, rx
  <2>5. (q \o a) \o come = q \o (a \o come) /\ q \o a \in Seq(Piece)
    BY <2>1, <2>2, Assoc
  <2>6. rx \o come = q \o net.down
    BY <2>3, <2>4, <2>5
  <2>7. rx \in Seq(Piece) /\ Len(rx) \in Nat
    BY <2>4, <2>5, LenProperties
  <2> QED
    BY <2>2, <2>6, <2>7 DEF q
<1> HIDE DEF rx, come
<1>4. k \in Nat /\ c \in Nat /\ c = 2 * k + 1 /\ c <= Len(rx) + 1
  <2>1. k \in Nat /\ 2 * k <= Len(rx)
    BY <1>3
  <2> HIDE DEF k
  <2> QED
    BY <1>3, <2>1
<1>5. left \in Seq(Piece) /\ (Aligned(rx \o come) => Aligned(left \o come))
  <2>0. left = SubSeq(rx, c, Len(rx))
    OBVIOUS
  <2> HIDE DEF k, c, left
  <2>1. left \in Seq(Piece)
    BY <1>3, <1>4, <2>0
  <2>2. ASSUME Aligned(rx \o come) PROVE Aligned(left \o come)
    BY <1>3, <1>4, <2>0, <2>2, AlignedCut
  <2> QED
    BY <2>1, <2>2
<1> HIDE DEF k, c, left
<1>6. ClientOK' /\ client'.rx = left /\ client'.fd = client.fd
  BY <1>0, <1>2, <1>5 DEF ClientOK
<1>7. net' = [alive |-> net.alive, tx |-> net.tx, down |-> come]
  BY <1>0, <1>2, NetRecord
<1>8. NetOK' /\ net'.alive = net.alive /\ net'.tx = net.tx /\ net'.down = come
  BY <1>0, <1>3, <1>7, NetType, NetRecord
<1>9. /\ PcOK(proc') /\ proc'.up = proc.up /\ proc'.prev = proc.prev /\ proc.pc # "publish"
      /\ FileOK' /\ BrokerOK' /\ BudgetOK' /\ UNCHANGED broker
  <2>1. proc.pc = "tick" /\ UNCHANGED <<file, broker, budget>> /\ proc' = [proc EXCEPT !.pc = "web"]
    BY DEF TickReceives, AfterCommands
  <2>2. PcOK(proc') /\ proc'.up = proc.up /\ proc'.prev = proc.prev
    BY <1>0, <2>1 DEF PcOK
  <2>3. FileOK' /\ BrokerOK' /\ BudgetOK'
    BY <1>0, <2>1 DEF FileOK, BrokerOK, BudgetOK
  <2> QED
    BY <2>1, <2>2, <2>3
<1>10. BridgeTypeOK'
  BY <1>6, <1>8, <1>9 DEF PcOK, BridgeTypeOK, FileOK, ClientOK, NetOK, BrokerOK, BudgetOK
<1>11. Known'
  BY <1>6, <1>8, <1>9, KnownKept DEF BridgeInv
<1>12. StreamAligned'
  <2>1. ASSUME client'.fd, net'.alive PROVE Aligned(client'.rx \o net'.down)
    <3>1. Aligned(client.rx \o net.down)
      BY <1>6, <1>8, <2>1, AlignedOnly DEF BridgeInv
    <3>2. Aligned(left \o come)
      BY <1>3, <1>5, <3>1
    <3> QED
      BY <1>6, <1>8, <3>2
  <2> QED
    BY <2>1 DEF StreamAligned, Aligned
<1> QED
  BY <1>10, <1>11, <1>12 DEF BridgeInv

\* A command goes out as a whole packet.
LEMMA CommandPieces ==
  ASSUME NEW id \in Nat, NEW c \in Commands, NEW p, p = [h \in 1..2 |-> [id |-> id, cmd |-> c, half |-> h]]
  PROVE  p \in Seq(Piece) /\ Len(p) = 2 /\ p[1].half = 1 /\ p[2] = [p[1] EXCEPT !.half = 2]
<1>1. \A h \in 1..2 : [id |-> id, cmd |-> c, half |-> h] \in Piece
  BY DEF Piece
<1>2. p \in [1..2 -> Piece]
  BY <1>1
<1>3. p \in Seq(Piece) /\ Len(p) = 2
  BY <1>2
<1>4. p[1] = [id |-> id, cmd |-> c, half |-> 1] /\ p[2] = [id |-> id, cmd |-> c, half |-> 2]
  OBVIOUS
<1>5. p[1].half = 1 /\ p[2] = [p[1] EXCEPT !.half = 2]
  BY <1>4
<1> QED
  BY <1>3, <1>5

LEMMA CommandStep == BridgeInv /\ HaCommands => BridgeInv'
<1> SUFFICES ASSUME BridgeInv, HaCommands PROVE BridgeInv'
  OBVIOUS
<1>0. FileOK /\ PcOK(proc) /\ ClientOK /\ NetOK /\ BrokerOK /\ BudgetOK /\ BridgeTypeOK
  BY DEF BridgeInv, BridgeTypeOK
<1>1. FileOK' /\ PcOK(proc') /\ ClientOK' /\ BrokerOK' /\ BudgetOK' /\ UNCHANGED <<proc, client, broker>>
  BY <1>0, SpendType DEF HaCommands, FileOK, ClientOK, BrokerOK, BudgetOK
<1>2. PICK c \in Commands :
        net' = [net EXCEPT !.down = IF broker.session.open /\ broker.session.sub /\ net.alive
                  THEN @ \o [h \in 1..2 |-> [id |-> budget.commands, cmd |-> c, half |-> h]] ELSE @]
  BY DEF HaCommands
<1> DEFINE p == [h \in 1..2 |-> [id |-> budget.commands, cmd |-> c, half |-> h]]
           s == client.rx \o net.down
<1>3. p \in Seq(Piece) /\ Len(p) = 2 /\ p[1].half = 1 /\ p[2] = [p[1] EXCEPT !.half = 2]
  <2>1. budget.commands \in Nat
    BY <1>0 DEF BudgetOK
  <2> QED
    BY <2>1, CommandPieces
<1>4. net' = net \/ net' = [net EXCEPT !.down = net.down \o p]
  BY <1>0, <1>2 DEF NetOK
<1> HIDE DEF p
<1>5. CASE net' = net
  <2>1. NetOK'
    BY <1>0, <1>5 DEF NetOK
  <2>2. BridgeTypeOK'
    BY <1>1, <2>1 DEF PcOK, BridgeTypeOK, FileOK, ClientOK, NetOK, BrokerOK, BudgetOK
  <2>3. StreamAligned' /\ Known'
    BY <1>1, <1>5, StreamKept, KnownKept DEF BridgeInv
  <2> QED
    BY <2>2, <2>3 DEF BridgeInv
<1>6. CASE net' = [net EXCEPT !.down = net.down \o p]
  <2>1. net.down \in Seq(Piece) /\ client.rx \in Seq(Piece) /\ net.down \o p \in Seq(Piece)
    <3>1. net.down \in Seq(Piece) /\ client.rx \in Seq(Piece)
      BY <1>0 DEF ClientOK, NetOK
    <3> QED
      BY <1>3, <3>1, ConcatProperties
  <2>2. net' = [alive |-> net.alive, tx |-> net.tx, down |-> net.down \o p]
    BY <1>0, <1>6, NetRecord
  <2>3. NetOK' /\ net'.alive = net.alive /\ net'.tx = net.tx /\ net'.down = net.down \o p
    BY <1>0, <2>1, <2>2, NetType, NetRecord
  <2>4. BridgeTypeOK'
    BY <1>1, <2>3 DEF PcOK, BridgeTypeOK, FileOK, ClientOK, NetOK, BrokerOK, BudgetOK
  <2>5. Known'
    BY <1>1, <2>3, KnownKept DEF BridgeInv
  <2>6. client.rx \o (net.down \o p) = s \o p /\ s \in Seq(Piece)
    <3>1. (client.rx \o net.down) \o p = client.rx \o (net.down \o p)
      <4> DEFINE a == client.rx
                 b == net.down
      <4>1. a \in Seq(Piece) /\ b \in Seq(Piece) /\ p \in Seq(Piece)
        BY <1>3, <2>1
      <4> HIDE DEF a, b
      <4>2. (a \o b) \o p = a \o (b \o p)
        BY <4>1, Assoc
      <4> QED
        BY <4>2 DEF a, b
    <3>2. client.rx \o net.down \in Seq(Piece)
      BY <2>1, ConcatProperties
    <3> QED
      BY <3>1, <3>2
  <2> HIDE DEF s
  <2>7. ASSUME Aligned(s) PROVE Aligned(s \o p)
    <3>1. IsSeq(s) /\ IsSeq(p)
      BY <1>3, <2>6 DEF IsSeq
    <3>2. /\ Len(s) \in Nat /\ Len(s \o p) = Len(s) + 2
          /\ \A j \in 1..Len(s) : (s \o p)[j] = s[j]
          /\ \A j \in 1..2 : (s \o p)[Len(s) + j] = p[j]
      <4>1. Len(p) = 2
        BY <1>3
      <4>2. /\ Len(s) \in Nat /\ Len(s \o p) = Len(s) + Len(p)
            /\ \A j \in 1..Len(s) : (s \o p)[j] = s[j]
            /\ \A j \in 1..Len(p) : (s \o p)[Len(s) + j] = p[j]
        BY <3>1, Behind
      <4> QED
        BY <4>1, <4>2
    <3>3. (s \o p)[Len(s) + 1] = p[1] /\ (s \o p)[Len(s) + 2] = p[2]
      BY <3>2
    <3> QED
      BY <1>3, <2>7, <3>2, <3>3, AlignedAppend
  <2>8. StreamAligned'
    <3>1. ASSUME client'.fd, net'.alive PROVE Aligned(client'.rx \o net'.down)
      <4>1. Aligned(s)
        BY <1>1, <2>3, <3>1, AlignedOnly DEF BridgeInv, s
      <4>2. client'.rx \o net'.down = s \o p
        BY <1>1, <2>3, <2>6
      <4> QED
        BY <2>7, <4>1, <4>2
    <3> QED
      BY <3>1 DEF StreamAligned, Aligned
  <2> QED
    BY <2>4, <2>5, <2>8 DEF BridgeInv
<1> QED
  BY <1>4, <1>5, <1>6

-----------------------------------------------------------------------------
(* The theorems. *)

\* Types, alignment and what is known hold in every reachable state.
THEOREM BridgeInvariant == BridgeSpec => []BridgeInv
<1>1. BridgeInit => BridgeInv
  BY InitType DEF BridgeInit, BridgeInv, StreamAligned, Known
<1>2. BridgeInv /\ [BridgeNext]_bridgeVars => BridgeInv'
  <2> SUFFICES ASSUME BridgeInv, [BridgeNext]_bridgeVars PROVE BridgeInv'
    OBVIOUS
  <2>1. CASE UNCHANGED bridgeVars
    <3>1. BridgeTypeOK'
      BY <2>1 DEF BridgeInv, BridgeTypeOK, FileOK, PcOK, ClientOK, NetOK, BrokerOK, BudgetOK, bridgeVars
    <3>2. StreamAligned' /\ Known'
      BY <2>1, StreamKept, KnownKept DEF BridgeInv, bridgeVars
    <3> QED
      BY <3>1, <3>2 DEF BridgeInv
  <2>2. CASE BridgeNext
    BY <2>2, ConnectStep, LostSteps, QuietSteps, PublishStep, ReceiveCommands, GiveUpSteps,
       ReceiveStep, NoticeStep, CommandStep DEF BridgeNext
  <2> QED
    BY <2>1, <2>2
<1> QED
  BY <1>1, <1>2, PTL DEF BridgeSpec

\* No piece of an old connection stands before a command of a new one.
THEOREM StreamStaysAligned == BridgeSpec => []StreamAligned
<1>1. BridgeInv => StreamAligned
  BY DEF BridgeInv
<1> QED
  BY <1>1, BridgeInvariant, PTL

\* What the bridge believes to have published is what a live link makes the broker retain.
THEOREM PublishedIsRetained == BridgeSpec => []PrevIsPublished
<1>1. BridgeInv => PrevIsPublished
  BY DEF BridgeInv, Known, PrevIsPublished
<1> QED
  BY <1>1, BridgeInvariant, PTL
=============================================================================
