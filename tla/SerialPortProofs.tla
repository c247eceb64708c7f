-------------------------- MODULE SerialPortProofs --------------------------
(***************************************************************************)
(* Theorems about SerialPort, for every buffer size, every set of packets  *)
(* and LED commands, any number of faults and any division of the bytes    *)
(* into reads.                                                             *)
(***************************************************************************)
EXTENDS SerialPort, SequenceTheorems, WellFoundedInduction, TLAPS

\* i is where check_buffer finds the first start character of s.
FirstAt(s, i) == i \in 1 .. Len(s) /\ s[i] = START /\ \A j \in 1 .. i - 1 : s[j] # START

-----------------------------------------------------------------------------
(***************************************************************************)
(* Parts of sequences.                                                     *)
(***************************************************************************)

\* What SubSeq returns within the bounds of a buffer.
LEMMA PartFacts ==
    ASSUME NEW s \in Seq(Nat), NEW m \in 1 .. Len(s) + 1, NEW n \in m - 1 .. Len(s)
    PROVE  /\ SubSeq(s, m, n) \in Seq(Nat) /\ Len(SubSeq(s, m, n)) = n - m + 1
           /\ DOMAIN SubSeq(s, m, n) = 1 .. n - m + 1
           /\ \A i \in 1 .. n - m + 1 : SubSeq(s, m, n)[i] = s[m + i - 1]
<1>1. Len(s) \in Nat /\ m \in Int /\ n \in Int /\ \A i \in m .. n : s[i] \in Nat
  BY LenProperties
<1>2. /\ SubSeq(s, m, n) \in Seq(Nat)
      /\ Len(SubSeq(s, m, n)) = IF m <= n THEN n - m + 1 ELSE 0
      /\ \A i \in 1 .. n - m + 1 : SubSeq(s, m, n)[i] = s[m + i - 1]
  BY <1>1, SubSeqProperties
<1>3. Len(SubSeq(s, m, n)) = n - m + 1
  BY <1>1, <1>2
<1> QED BY <1>2, <1>3, LenProperties

\* The first n bytes of a buffer.
LEMMA PrefixFacts ==
    ASSUME NEW s \in Seq(Nat), NEW n \in 0 .. Len(s)
    PROVE  /\ SubSeq(s, 1, n) \in Seq(Nat) /\ Len(SubSeq(s, 1, n)) = n
           /\ \A i \in 1 .. n : SubSeq(s, 1, n)[i] = s[i]
<1>1. Len(s) \in Nat
  BY LenProperties
<1> QED BY <1>1, PartFacts

\* What two buffers one behind the other are.
LEMMA JoinFacts ==
    ASSUME NEW s \in Seq(Nat), NEW t \in Seq(Nat)
    PROVE  /\ s \o t \in Seq(Nat) /\ Len(s \o t) = Len(s) + Len(t)
           /\ Len(s) \in Nat /\ Len(t) \in Nat
           /\ \A i \in 1 .. Len(s) : (s \o t)[i] = s[i]
           /\ \A i \in Len(s) + 1 .. Len(s) + Len(t) : (s \o t)[i] = t[i - Len(s)]
<1>1. Len(s) \in Nat /\ Len(t) \in Nat
  BY LenProperties
<1> QED BY <1>1, ConcatProperties

LEMMA JoinAssociative ==
    ASSUME NEW s \in Seq(Nat), NEW t \in Seq(Nat), NEW u \in Seq(Nat)
    PROVE  (s \o t) \o u = s \o (t \o u)
BY ConcatAssociative, SMTT(60)

\* A buffer with a start character has a first one.
LEMMA FirstExists ==
    ASSUME NEW s \in Seq(Nat), ~NoStartIn(s) PROVE \E i \in DOMAIN s : FirstAt(s, i)
<1>1. Len(s) \in Nat /\ DOMAIN s = 1 .. Len(s)
  BY LenProperties
<1> DEFINE T == {i \in 1 .. Len(s) : s[i] = START}
<1>2. T \subseteq Nat /\ T # {}
  BY <1>1 DEF NoStartIn
<1>3. \E x \in T : \A y \in T : ~(<<y, x>> \in OpToRel(<, Nat))
  BY <1>2, WFMin, NatLessThanWellFounded
<1>4. PICK x \in T : \A y \in T : ~(<<y, x>> \in OpToRel(<, Nat))
  BY <1>3
<1>5. \A y \in T : ~(y < x)
  BY <1>2, <1>4 DEF OpToRel
<1>6. FirstAt(s, x)
  BY <1>1, <1>5 DEF FirstAt
<1> QED BY <1>1, <1>6

\* check_buffer keeps nothing, or what there is from the first start character on.
LEMMA FromStartFacts ==
    ASSUME NEW s \in Seq(Nat)
    PROVE  /\ NoStartIn(s) => FromStart(s) = <<>>
           /\ \A i : FirstAt(s, i) => FromStart(s) = SubSeq(s, i, Len(s))
           /\ FromStart(s) \in Seq(Nat) /\ Len(FromStart(s)) <= Len(s)
<1>1. Len(s) \in Nat /\ DOMAIN s = 1 .. Len(s)
  BY LenProperties
<1>2. ASSUME NEW i, NEW j, FirstAt(s, i), FirstAt(s, j) PROVE i = j
  BY <1>1, <1>2 DEF FirstAt
<1>3. ASSUME NEW i \in DOMAIN s
      PROVE  (s[i] = START /\ NoStartIn(SubSeq(s, 1, i - 1))) <=> FirstAt(s, i)
  <2>1. /\ DOMAIN SubSeq(s, 1, i - 1) = 1 .. i - 1
        /\ \A j \in 1 .. i - 1 : SubSeq(s, 1, i - 1)[j] = s[j]
    BY <1>1, PartFacts
  <2> QED BY <1>1, <2>1 DEF NoStartIn, FirstAt
<1>4. ASSUME NEW i, FirstAt(s, i) PROVE FromStart(s) = SubSeq(s, i, Len(s)) /\ ~NoStartIn(s)
  <2> DEFINE c == CHOOSE k \in DOMAIN s : s[k] = START /\ NoStartIn(SubSeq(s, 1, k - 1))
  <2>1. i \in DOMAIN s /\ ~NoStartIn(s)
    BY <1>1, <1>4 DEF FirstAt, NoStartIn
  <2>2. c \in DOMAIN s /\ s[c] = START /\ NoStartIn(SubSeq(s, 1, c - 1))
    BY <1>3, <1>4, <2>1
  <2>3. c = i
    BY <1>2, <1>3, <1>4, <2>2
  <2>4. FromStart(s) = SubSeq(s, c, Len(s))
    BY <2>1 DEF FromStart
  <2> QED BY <2>1, <2>3, <2>4
<1>5. CASE NoStartIn(s)
  <2>1. FromStart(s) = <<>>
    BY <1>5 DEF FromStart
  <2> QED BY <1>1, <1>4, <1>5, <2>1
<1>6. CASE ~NoStartIn(s)
  <2>1. PICK i \in DOMAIN s : FirstAt(s, i)
    BY <1>6, FirstExists
  <2>2. FromStart(s) = SubSeq(s, i, Len(s))
    BY <1>4, <2>1
  <2>3. FromStart(s) \in Seq(Nat) /\ Len(FromStart(s)) = Len(s) - i + 1
    BY <1>1, <2>1, <2>2, PartFacts
  <2> QED BY <1>1, <1>4, <1>6, <2>1, <2>3
<1> QED BY <1>5, <1>6

-----------------------------------------------------------------------------
(***************************************************************************)
(* The inductive invariant.  BufferInv: between two iterations of          *)
(* thread_rx the buffer is too short for a header, or begins with a        *)
(* rejected one, or is shorter than the packet its header announces.       *)
(***************************************************************************)

PortTypes ==
    /\ wire \in Seq(Nat) /\ read_buffer \in Seq(Nat)
    /\ writing \in Packets \union Leds \union {<<>>}
    /\ clean \in Packets \union {<<>>}

BufferInv ==
    Len(read_buffer) >= HeaderLen =>
        \/ read_buffer[1] = 0
        \/ read_buffer[2] \in ValidIds /\ Len(read_buffer) < read_buffer[3] + HeaderLen

PortInv == PortTypes /\ BufferInv /\ CleanPacketArrives

\* The packet p is in t at k, and no start character is before it.
PacketAt(t, p, k) ==
    /\ FirstAt(t, k) /\ k + Len(p) - 1 <= Len(t)
    /\ \A i \in 1 .. Len(p) : t[k + i - 1] = p[i]

LEMMA PacketFacts ==
    ASSUME NEW p \in Packets
    PROVE  /\ p \in Seq(Nat) /\ Len(p) \in Nat /\ p # <<>>
           /\ p[1] = START /\ p[2] \in ValidIds /\ p[3] \in Nat
           /\ Len(p) = p[3] + HeaderLen /\ Len(p) >= HeaderLen
<1>1. /\ p \in Seq(Nat) /\ Len(p) = p[3] + HeaderLen /\ p[1] = START /\ p[2] \in ValidIds
      /\ HeaderLen <= Len(p)
  BY PortAssumption
<1>2. Len(p) \in Nat /\ \A i \in 1 .. Len(p) : p[i] \in Nat
  BY <1>1, LenProperties
<1>3. p # <<>>
  BY <1>1 DEF HeaderLen
<1> QED BY <1>1, <1>2, <1>3 DEF HeaderLen

LEMMA WrittenAreBytes ==
    ASSUME NEW b \in Packets \union Leds \union {<<>>} PROVE b \in Seq(Nat)
<1>1. CASE b \in Packets \union Leds
  BY <1>1, PortAssumption, Zenon
<1>2. CASE b = <<>>
  BY <1>2
<1> QED BY <1>1, <1>2

\* CleanPacketArrives in terms of positions.
LEMMA ArrivesFacts ==
    ASSUME NEW t \in Seq(Nat), NEW p \in Packets
    PROVE  BeginsWith(FromStart(t), p) <=> \E k \in 1 .. Len(t) : PacketAt(t, p, k)
<1>1. /\ Len(t) \in Nat /\ p \in Seq(Nat) /\ Len(p) \in Nat \ {0}
      /\ \A i \in 1 .. Len(t) : t[i] \in Nat
  BY PacketFacts, LenProperties DEF HeaderLen
<1>2. ASSUME NEW k \in 1 .. Len(t), FirstAt(t, k)
      PROVE  BeginsWith(FromStart(t), p) <=> PacketAt(t, p, k)
  <2>1. PICK b : b = FromStart(t)
    OBVIOUS
  <2>2. /\ b \in Seq(Nat) /\ Len(b) = Len(t) - k + 1
        /\ \A i \in 1 .. Len(t) - k + 1 : b[i] = t[k + i - 1]
    <3>1. b = SubSeq(t, k, Len(t))
      BY <1>2, <2>1, FromStartFacts
    <3> QED BY <1>1, <3>1, PartFacts
  <2>3. CASE Len(p) > Len(b)
    <3>1. ~BeginsWith(b, p)
      BY <1>1, <2>2, <2>3 DEF BeginsWith
    <3>2. ~PacketAt(t, p, k)
      BY <1>1, <2>2, <2>3 DEF PacketAt
    <3> QED BY <2>1, <3>1, <3>2
  <2>4. CASE Len(p) <= Len(b)
    <3>1. PICK c : c = SubSeq(b, 1, Len(p))
      OBVIOUS
    <3>2. c \in Seq(Nat) /\ Len(c) = Len(p) /\ \A i \in 1 .. Len(p) : c[i] = b[i]
      <4>1. Len(p) \in 0 .. Len(b)
        BY <1>1, <2>2, <2>4
      <4> QED BY <2>2, <3>1, <4>1, PrefixFacts
    <3>3. c = p <=> \A i \in 1 .. Len(p) : c[i] = p[i]
      BY <1>1, <3>2, SeqEqual
    <3>4. \A i \in 1 .. Len(p) : c[i] = t[k + i - 1]
      BY <1>1, <2>2, <2>4, <3>2
    <3>5. BeginsWith(FromStart(t), p) <=> c = p
      BY <2>1, <2>4, <3>1 DEF BeginsWith
    <3>6. k + Len(p) - 1 <= Len(t)
      BY <1>1, <2>2, <2>4
    <3>7. PacketAt(t, p, k) <=> \A i \in 1 .. Len(p) : t[k + i - 1] = p[i]
      BY <1>2, <3>6 DEF PacketAt
    <3> QED BY <3>3, <3>4, <3>5, <3>7
  <2> QED BY <1>1, <2>2, <2>3, <2>4
<1>3. CASE NoStartIn(t)
  <2>1. FromStart(t) = <<>> /\ Len(<<>>) = 0
    BY <1>3, FromStartFacts
  <2>2. ~BeginsWith(FromStart(t), p)
    BY <1>1, <2>1 DEF BeginsWith
  <2>3. \A k \in 1 .. Len(t) : ~PacketAt(t, p, k)
    BY <1>3, LenProperties DEF PacketAt, FirstAt, NoStartIn
  <2> QED BY <2>2, <2>3
<1>4. CASE ~NoStartIn(t)
  <2>1. PICK k \in 1 .. Len(t) : FirstAt(t, k)
    BY <1>4, FirstExists DEF FirstAt
  <2>2. \A j \in 1 .. Len(t) : PacketAt(t, p, j) => j = k
    BY <1>1, <2>1 DEF PacketAt, FirstAt
  <2> QED BY <1>2, <2>1, <2>2
<1> QED BY <1>3, <1>4

\* Bytes that come behind a packet do not change where it is found.
LEMMA ExtendKeeps ==
    ASSUME NEW t \in Seq(Nat), NEW u \in Seq(Nat), NEW p \in Packets, NEW k \in 1 .. Len(t),
           PacketAt(t, p, k)
    PROVE  PacketAt(t \o u, p, k)
<1>1. /\ Len(t) \in Nat /\ Len(u) \in Nat /\ Len(p) \in Nat /\ Len(t \o u) = Len(t) + Len(u)
      /\ \A i \in 1 .. Len(t) : (t \o u)[i] = t[i]
  BY PacketFacts, JoinFacts
<1> QED BY <1>1 DEF PacketAt, FirstAt

-----------------------------------------------------------------------------
(***************************************************************************)
(* One iteration of thread_rx.                                             *)
(***************************************************************************)

\* Every iteration leaves the buffer as BufferInv says.
LEMMA ProcessFacts ==
    ASSUME NEW s \in Seq(Nat), NEW rest \in Seq(Nat), Process(s, rest)
    PROVE  wire' \in Seq(Nat) /\ read_buffer' \in Seq(Nat) /\ BufferInv'
<1>1. PICK buf : buf = FromStart(s)
  OBVIOUS
<1>2. buf \in Seq(Nat) /\ Len(buf) \in Nat /\ \A i \in 1 .. Len(buf) : buf[i] \in Nat
  BY <1>1, FromStartFacts, LenProperties
<1>3. CASE Len(buf) < HeaderLen /\ read_buffer' = buf /\ wire' = rest
  BY <1>2, <1>3 DEF BufferInv, HeaderLen
<1>4. CASE Len(buf) >= HeaderLen /\ read_buffer' = Rejected(buf) /\ wire' = rest
  <2>1. 1 \in DOMAIN buf /\ 0 \in Nat
    BY <1>2, <1>4, LenProperties DEF HeaderLen
  <2>2. Rejected(buf) \in Seq(Nat) /\ Rejected(buf)[1] = 0
    BY <1>2, <2>1 DEF Rejected
  <2> QED BY <1>4, <2>2 DEF BufferInv
<1>5. CASE /\ Len(buf) >= HeaderLen /\ read_buffer' = buf /\ wire' = rest
           /\ buf[2] \in ValidIds /\ ~HasPacket(buf)
  <2>1. buf[3] \in Nat
    BY <1>2, <1>5 DEF HeaderLen
  <2>2. Len(buf) < buf[3] + HeaderLen
    BY <1>2, <1>5, <2>1 DEF HasPacket, HeaderLen
  <2> QED BY <1>2, <1>5, <2>2 DEF BufferInv
<1>6. CASE read_buffer' = <<>> /\ wire' \in Suffixes(rest)
  <2>1. PICK n \in 1 .. Len(rest) + 1 : wire' = SubSeq(rest, n, Len(rest))
    BY <1>6 DEF Suffixes
  <2>2. Len(rest) \in Nat
    BY LenProperties
  <2>3. wire' \in Seq(Nat)
    BY <2>1, <2>2, PartFacts
  <2> QED BY <1>6, <2>3 DEF BufferInv, HeaderLen
<1> QED BY <1>1, <1>3, <1>4, <1>5, <1>6 DEF Process, HandlePacket

\* A packet with nothing unfinished before it survives an iteration of thread_rx
\* that has taken the bytes s from the line, or is what the iteration accepts.
LEMMA ProcessKeeps ==
    ASSUME NEW s \in Seq(Nat), NEW rest \in Seq(Nat), Process(s, rest),
           NEW p \in Packets, NEW k \in 1 .. Len(s \o rest), PacketAt(s \o rest, p, k)
    PROVE  \/ \E j \in 1 .. Len(read_buffer' \o wire') : PacketAt(read_buffer' \o wire', p, j)
           \/ verdict' = "accept" /\ BeginsWith(FromStart(s), p)
<1>1. PICK t : t = s \o rest
  OBVIOUS
<1>2. PICK a : a = Len(s)
  OBVIOUS
<1>3. PICK r : r = Len(rest)
  OBVIOUS
<1>4. PICK l : l = Len(p)
  OBVIOUS
<1>5. a \in Nat /\ r \in Nat /\ Len(t) = a + r
  BY <1>1, <1>2, <1>3, JoinFacts
<1>6. \A i \in 1 .. a : t[i] = s[i]
  BY <1>1, <1>2, JoinFacts
<1>7. \A i \in 1 .. r : t[a + i] = rest[i]
  <2> SUFFICES ASSUME NEW i \in 1 .. r PROVE t[a + i] = rest[i]
    OBVIOUS
  <2>1. a + i \in a + 1 .. a + r /\ (a + i) - a = i
    BY <1>5
  <2> QED BY <1>1, <1>2, <1>3, <2>1, JoinFacts
<1>8. l \in Nat /\ l >= HeaderLen /\ p[2] \in ValidIds /\ p[3] \in Nat /\ l = p[3] + HeaderLen
  BY <1>4, PacketFacts
<1>9. k \in 1 .. a + r /\ k \in Nat /\ k + l - 1 <= a + r
  BY <1>1, <1>4, <1>5 DEF PacketAt
<1>10. t[k] = START /\ \A j \in 1 .. k - 1 : t[j] # START
  BY <1>1 DEF PacketAt, FirstAt
<1>11. \A i \in 1 .. l : t[k + i - 1] = p[i]
  BY <1>1, <1>4 DEF PacketAt
<1>12. CASE k > a
  \* Nothing of the packet has been read: what was read holds no start character.
  <2>1. NoStartIn(s)
    <3>1. DOMAIN s = 1 .. a
      BY <1>2, LenProperties
    <3>2. \A i \in 1 .. a : i \in 1 .. k - 1
      BY <1>5, <1>9, <1>12
    <3> QED BY <1>6, <1>10, <3>1, <3>2 DEF NoStartIn
  <2>2. FromStart(s) = <<>> /\ Len(<<>>) = 0
    BY <2>1, FromStartFacts
  <2>3. read_buffer' = <<>> /\ wire' = rest
    BY <2>2 DEF Process, HeaderLen
  <2>4. read_buffer' \o wire' = rest
    BY <2>3
  <2>5. FirstAt(rest, k - a)
    <3>1. k - a \in 1 .. r /\ a + (k - a) = k
      BY <1>5, <1>8, <1>9, <1>12
    <3>2. rest[k - a] = START
      BY <1>7, <1>10, <3>1
    <3>3. ASSUME NEW j \in 1 .. (k - a) - 1 PROVE rest[j] # START
      <4>1. j \in 1 .. r /\ a + j \in 1 .. k - 1
        BY <1>5, <1>9, <1>12
      <4> QED BY <1>7, <1>10, <4>1
    <3> QED BY <1>3, <3>1, <3>2, <3>3 DEF FirstAt
  <2>6. \A i \in 1 .. l : rest[(k - a) + i - 1] = p[i]
    <3> SUFFICES ASSUME NEW i \in 1 .. l PROVE rest[(k - a) + i - 1] = p[i]
      OBVIOUS
    <3>1. (k - a) + i - 1 \in 1 .. r /\ a + ((k - a) + i - 1) = k + i - 1
      BY <1>5, <1>8, <1>9, <1>12
    <3> QED BY <1>7, <1>11, <3>1
  <2>7. PacketAt(rest, p, k - a) /\ k - a \in 1 .. Len(rest)
    <3>1. k - a \in 1 .. r /\ (k - a) + l - 1 <= r
      <4>1. l \in Nat /\ l >= 5
        BY <1>8 DEF HeaderLen
      <4> QED BY <1>5, <1>9, <1>12, <4>1
    <3> QED BY <1>3, <1>4, <2>5, <2>6, <3>1 DEF PacketAt
  <2> QED BY <2>4, <2>7
<1>13. CASE k <= a
  <2>1. FirstAt(s, k)
    <3>1. k \in 1 .. a /\ \A j \in 1 .. k - 1 : j \in 1 .. a
      BY <1>5, <1>9, <1>13
    <3> QED BY <1>2, <1>6, <1>10, <3>1 DEF FirstAt
  <2>2. PICK buf : buf = FromStart(s)
    OBVIOUS
  <2>3. /\ buf \in Seq(Nat) /\ Len(buf) = a - k + 1 /\ Len(buf) \in Nat
        /\ \A i \in 1 .. a - k + 1 : buf[i] = s[k + i - 1]
    <3>1. buf = SubSeq(s, k, a)
      BY <1>2, <2>1, <2>2, FromStartFacts
    <3>2. k \in 1 .. Len(s) + 1 /\ a \in k - 1 .. Len(s) /\ a - k + 1 \in Nat
      BY <1>2, <1>5, <1>9, <1>13
    <3> QED BY <3>1, <3>2, PartFacts
  <2>4. \A i \in 1 .. Len(buf) : buf[i] = t[k + i - 1]
    <3> SUFFICES ASSUME NEW i \in 1 .. a - k + 1 PROVE buf[i] = t[k + i - 1]
      BY <2>3
    <3>1. k + i - 1 \in 1 .. a
      BY <1>5, <1>9, <1>13
    <3> QED BY <1>6, <2>3, <3>1
  <2>5. ASSUME read_buffer' = buf, wire' = rest
        PROVE  PacketAt(read_buffer' \o wire', p, 1) /\ 1 \in 1 .. Len(read_buffer' \o wire')
    <3>1. PICK n : n = buf \o rest
      OBVIOUS
    <3>2. /\ Len(n) = (a - k + 1) + r
          /\ \A i \in 1 .. a - k + 1 : n[i] = buf[i]
          /\ \A i \in (a - k + 1) + 1 .. (a - k + 1) + r : n[i] = rest[i - (a - k + 1)]
      <4>1. buf \in Seq(Nat) /\ Len(buf) = a - k + 1
        BY <2>3
      <4>2. /\ Len(n) = Len(buf) + Len(rest)
            /\ \A i \in 1 .. Len(buf) : n[i] = buf[i]
            /\ \A i \in Len(buf) + 1 .. Len(buf) + Len(rest) : n[i] = rest[i - Len(buf)]
        BY <3>1, <4>1, JoinFacts
      <4> QED BY <1>3, <4>1, <4>2
    <3>3. \A i \in 1 .. (a - k + 1) + r : n[i] = t[k + i - 1]
      <4> SUFFICES ASSUME NEW i \in 1 .. (a - k + 1) + r PROVE n[i] = t[k + i - 1]
        OBVIOUS
      <4>1. CASE i <= a - k + 1
        <5>1. i \in 1 .. a - k + 1
          BY <1>5, <1>9, <4>1
        <5> QED BY <2>3, <2>4, <3>2, <5>1
      <4>2. CASE i > a - k + 1
        <5>1. i - (a - k + 1) \in 1 .. r /\ a + (i - (a - k + 1)) = k + i - 1
          BY <1>5, <1>9, <4>2
        <5>2. i \in (a - k + 1) + 1 .. (a - k + 1) + r
          BY <1>5, <1>9, <4>2
        <5> QED BY <1>7, <3>2, <5>1, <5>2
      <4> QED BY <1>5, <1>9, <4>1, <4>2
    <3>4. \A i \in 1 .. l : n[i] = p[i]
      <4>1. \A i \in 1 .. l : i \in 1 .. (a - k + 1) + r
        BY <1>5, <1>8, <1>9
      <4> QED BY <1>11, <3>3, <4>1
    <3>5. FirstAt(n, 1) /\ 1 + l - 1 <= Len(n) /\ 1 \in 1 .. Len(n)
      <4>1. 1 + l - 1 <= (a - k + 1) + r /\ 1 \in 1 .. (a - k + 1) + r /\ 1 \in 1 .. l
        <5>1. l \in Nat /\ l >= 5
          BY <1>8 DEF HeaderLen
        <5>2. a \in Nat /\ r \in Nat /\ k \in Nat /\ k + l - 1 <= a + r
          BY <1>5, <1>9
        <5> QED BY <5>1, <5>2
      <4>2. n[1] = START
        BY <3>4, <4>1, PacketFacts
      <4> QED BY <3>2, <4>1, <4>2 DEF FirstAt
    <3>6. \A i \in 1 .. l : n[1 + i - 1] = p[i]
      BY <1>8, <3>4
    <3> QED BY <1>4, <2>5, <3>1, <3>5, <3>6 DEF PacketAt
  <2>6. ASSUME Len(buf) >= HeaderLen PROVE buf[2] = p[2] /\ buf[3] = p[3]
    <3>1. /\ 2 \in 1 .. Len(buf) /\ 3 \in 1 .. Len(buf) /\ 2 \in 1 .. l /\ 3 \in 1 .. l
      <4>1. Len(buf) \in Nat /\ Len(buf) >= 5 /\ l \in Nat /\ l >= 5
        BY <1>8, <2>3, <2>6 DEF HeaderLen
      <4> QED BY <4>1
    <3> QED BY <1>11, <2>4, <3>1
  <2>7. ASSUME Len(buf) >= HeaderLen, HasPacket(buf), HandlePacket(buf, rest)
        PROVE  verdict' = "accept" /\ BeginsWith(buf, p)
    <3>1. Len(buf) >= l
      BY <1>8, <2>6, <2>7 DEF HasPacket
    <3>2. \A i \in 1 .. l : buf[i] = p[i]
      <4>1. \A i \in 1 .. l : i \in 1 .. Len(buf)
        BY <1>8, <2>3, <3>1
      <4> QED BY <1>11, <2>4, <4>1
    <3>3. Intact(buf)
      <4>1. \A i \in 3 .. l : i \in 1 .. l
        BY <1>8
      <4> QED BY <1>4, <3>1, <3>2, <4>1 DEF Intact
    <3>4. verdict' = "accept"
      BY <2>7, <3>3 DEF HandlePacket
    <3>5. BeginsWith(buf, p)
      <4>1. PICK c : c = SubSeq(buf, 1, l)
        OBVIOUS
      <4>2. c \in Seq(Nat) /\ Len(c) = l /\ \A i \in 1 .. l : c[i] = buf[i]
        <5>1. l \in 0 .. Len(buf)
          BY <1>8, <2>3, <3>1
        <5> QED BY <2>3, <4>1, <5>1, PrefixFacts
      <4>3. c = p
        BY <1>4, <3>2, <4>2, PacketFacts, SeqEqual
      <4> QED BY <1>4, <3>1, <4>1, <4>3 DEF BeginsWith
    <3> QED BY <3>4, <3>5
  <2>8. CASE Len(buf) < HeaderLen /\ read_buffer' = buf /\ wire' = rest
    BY <2>5, <2>8
  <2>9. CASE Len(buf) >= HeaderLen /\ buf[2] \notin ValidIds
    BY <1>8, <2>6, <2>9
  <2>10. CASE Len(buf) >= HeaderLen /\ ~HasPacket(buf) /\ read_buffer' = buf /\ wire' = rest
    BY <2>5, <2>10
  <2>11. CASE Len(buf) >= HeaderLen /\ HasPacket(buf) /\ HandlePacket(buf, rest)
    BY <2>2, <2>7, <2>11
  <2> QED BY <2>2, <2>8, <2>9, <2>10, <2>11 DEF Process
<1> QED BY <1>5, <1>9, <1>12, <1>13

-----------------------------------------------------------------------------
(***************************************************************************)
(* The steps.                                                              *)
(***************************************************************************)

\* What a step that only makes the line longer keeps.
LEMMA LongerWire ==
    ASSUME PortInv, NEW u \in Seq(Nat), wire' = wire \o u, read_buffer' = read_buffer,
           writing' \in Packets \union Leds \union {<<>>}, clean' = clean
    PROVE  PortInv'
<1>1. wire \in Seq(Nat) /\ read_buffer \in Seq(Nat) /\ clean \in Packets \union {<<>>}
  BY DEF PortInv, PortTypes
<1>2. wire' \in Seq(Nat)
  BY <1>1, JoinFacts
<1>3. PortTypes'
  BY <1>1, <1>2 DEF PortTypes
<1>4. BufferInv'
  BY DEF PortInv, BufferInv
<1>5. CleanPacketArrives'
  <2> SUFFICES ASSUME clean # <<>> PROVE BeginsWith(FromStart(read_buffer' \o wire'), clean)
    BY DEF CleanPacketArrives
  <2>1. PICK t : t = read_buffer \o wire
    OBVIOUS
  <2>2. t \in Seq(Nat) /\ clean \in Packets
    BY <1>1, <2>1, JoinFacts
  <2>3. BeginsWith(FromStart(t), clean)
    BY <2>1 DEF PortInv, CleanPacketArrives
  <2>4. PICK k \in 1 .. Len(t) : PacketAt(t, clean, k)
    BY <2>2, <2>3, ArrivesFacts
  <2>5. PacketAt(t \o u, clean, k)
    BY <2>2, <2>4, ExtendKeeps
  <2>6. t \o u \in Seq(Nat) /\ k \in 1 .. Len(t \o u)
    BY <2>2, <2>4, JoinFacts
  <2>7. BeginsWith(FromStart(t \o u), clean)
    BY <2>2, <2>5, <2>6, ArrivesFacts
  <2>8. read_buffer' \o wire' = t \o u
    <3>1. (read_buffer \o wire) \o u = read_buffer \o (wire \o u)
      BY <1>1, JoinAssociative
    <3> QED BY <2>1, <3>1, Zenon
  <2> QED BY <2>7, <2>8
<1> QED BY <1>3, <1>4, <1>5 DEF PortInv

\* tcflush leaves the line as it was, with some more bytes or with fewer.
LEMMA FlushKeeps ==
    ASSUME PortInv, NEW u \in Seq(Nat), Flushed(wire \o u), read_buffer' = read_buffer,
           writing' = writing
    PROVE  PortInv'
<1>1. wire \in Seq(Nat) /\ Len(wire) \in Nat /\ Len(u) \in Nat
  BY LenProperties DEF PortInv, PortTypes
<1>2. PICK s : s = wire \o u
  OBVIOUS
<1>3. /\ s \in Seq(Nat) /\ Len(s) = Len(wire) + Len(u)
      /\ \A i \in 1 .. Len(wire) : s[i] = wire[i]
      /\ \A i \in Len(wire) + 1 .. Len(wire) + Len(u) : s[i] = u[i - Len(wire)]
  BY <1>1, <1>2, JoinFacts
<1>4. PICK n \in 0 .. Len(s) : wire' = SubSeq(s, 1, n)
  BY <1>2 DEF Flushed, Prefixes
<1>5. wire' \in Seq(Nat) /\ Len(wire') = n /\ \A i \in 1 .. n : wire'[i] = s[i]
  BY <1>3, <1>4, PrefixFacts
<1>6. CASE n < Len(wire)
  <2>1. clean' = <<>>
    BY <1>5, <1>6 DEF Flushed
  <2>2. PortTypes'
    BY <1>5, <2>1 DEF PortInv, PortTypes
  <2>3. BufferInv'
    BY DEF PortInv, BufferInv
  <2> QED BY <2>1, <2>2, <2>3 DEF PortInv, CleanPacketArrives
<1>7. CASE n >= Len(wire)
  <2>1. PICK m : m = n - Len(wire)
    OBVIOUS
  <2>2. m \in 0 .. Len(u) /\ n = Len(wire) + m
    BY <1>1, <1>3, <1>7, <2>1
  <2>3. PICK v : v = SubSeq(u, 1, m)
    OBVIOUS
  <2>4. v \in Seq(Nat) /\ Len(v) = m /\ \A i \in 1 .. m : v[i] = u[i]
    BY <2>2, <2>3, PrefixFacts
  <2>5. PICK w : w = wire \o v
    OBVIOUS
  <2>6. /\ w \in Seq(Nat) /\ Len(w) = n
        /\ \A i \in 1 .. Len(wire) : w[i] = wire[i]
        /\ \A i \in Len(wire) + 1 .. n : w[i] = v[i - Len(wire)]
    <3>1. /\ w \in Seq(Nat) /\ Len(w) = Len(wire) + Len(v)
          /\ \A i \in 1 .. Len(wire) : w[i] = wire[i]
          /\ \A i \in Len(wire) + 1 .. Len(wire) + Len(v) : w[i] = v[i - Len(wire)]
      BY <1>1, <2>4, <2>5, JoinFacts
    <3>2. Len(wire) + Len(v) = n
      BY <2>2, <2>4
    <3> QED BY <3>1, <3>2
  <2>7. ASSUME NEW i \in 1 .. n PROVE wire'[i] = w[i]
    <3>1. CASE i \in 1 .. Len(wire)
      BY <1>3, <1>5, <2>6, <3>1
    <3>2. CASE i \in Len(wire) + 1 .. n
      <4>1. i - Len(wire) \in 1 .. m /\ i \in Len(wire) + 1 .. Len(wire) + Len(u)
        BY <1>1, <2>2, <3>2
      <4>2. w[i] = u[i - Len(wire)]
        BY <2>4, <2>6, <3>2, <4>1
      <4>3. s[i] = u[i - Len(wire)]
        BY <1>3, <4>1
      <4> QED BY <1>5, <4>2, <4>3
    <3>3. i \in 1 .. Len(wire) \/ i \in Len(wire) + 1 .. n
      BY <1>1, <2>2
    <3> QED BY <3>1, <3>2, <3>3
  <2>8. wire' = w
    BY <1>5, <2>6, <2>7, SeqEqual
  <2>9. clean' = clean
    BY <1>1, <1>5, <1>7, <2>2 DEF Flushed
  <2> QED BY <2>4, <2>5, <2>8, <2>9, LongerWire DEF PortInv, PortTypes
<1> QED BY <1>1, <1>3, <1>6, <1>7

\* Nothing PortInv speaks of but the write buffer changes.
LEMMA QuietKeeps ==
    ASSUME PortInv, UNCHANGED <<wire, read_buffer, clean>>,
           writing' \in Packets \union Leds \union {<<>>}
    PROVE  PortInv'
BY DEF PortInv, PortTypes, BufferInv, CleanPacketArrives

\* A clean packet is one behind bytes that hold no start character.
LEMMA WriteOkKeeps == ASSUME PortInv, WriteOk PROVE PortInv'
<1>1. /\ wire' = wire \o writing /\ writing' = writing /\ read_buffer' = read_buffer
      /\ writing \in Packets \union Leds \union {<<>>}
      /\ wire \in Seq(Nat) /\ read_buffer \in Seq(Nat)
  BY DEF WriteOk, PortInv, PortTypes
<1>2. writing \in Seq(Nat)
  BY <1>1, WrittenAreBytes
<1>3. CASE clean' = clean
  BY <1>1, <1>2, <1>3, LongerWire
<1>4. CASE writing \in Packets /\ NoStartIn(read_buffer \o wire) /\ clean' = writing
  <2>1. PICK t : t = read_buffer \o wire
    OBVIOUS
  <2>2. t \in Seq(Nat) /\ Len(t) \in Nat /\ DOMAIN t = 1 .. Len(t) /\ NoStartIn(t)
    BY <1>1, <1>4, <2>1, JoinFacts, LenProperties
  <2>3. PICK u : u = t \o writing
    OBVIOUS
  <2>4. read_buffer' \o wire' = u
    <3>1. (read_buffer \o wire) \o writing = read_buffer \o (wire \o writing)
      BY <1>1, <1>2, JoinAssociative
    <3> QED BY <1>1, <2>1, <2>3, <3>1, Zenon
  <2>5. /\ u \in Seq(Nat) /\ Len(u) = Len(t) + Len(writing) /\ Len(writing) \in Nat
        /\ \A i \in 1 .. Len(t) : u[i] = t[i]
        /\ \A i \in Len(t) + 1 .. Len(t) + Len(writing) : u[i] = writing[i - Len(t)]
    BY <1>2, <2>2, <2>3, JoinFacts
  <2>6. \A i \in 1 .. Len(writing) : u[(Len(t) + 1) + i - 1] = writing[i]
    <3> SUFFICES ASSUME NEW i \in 1 .. Len(writing)
                 PROVE  u[(Len(t) + 1) + i - 1] = writing[i]
      OBVIOUS
    <3>1. /\ (Len(t) + 1) + i - 1 \in Len(t) + 1 .. Len(t) + Len(writing)
          /\ ((Len(t) + 1) + i - 1) - Len(t) = i
      BY <2>2, <2>5
    <3> QED BY <2>5, <3>1
  <2>7. 1 \in 1 .. Len(writing) /\ (Len(t) + 1) + 1 - 1 = Len(t) + 1 /\ writing[1] = START
    BY <1>4, <2>2, <2>5, PacketFacts, SMTT(60) DEF HeaderLen
  <2>8. u[Len(t) + 1] = START
    BY <2>6, <2>7
  <2>9. \A j \in 1 .. (Len(t) + 1) - 1 : u[j] # START
    BY <2>2, <2>5 DEF NoStartIn
  <2>10. /\ Len(t) + 1 \in 1 .. Len(u) /\ (Len(t) + 1) + Len(writing) - 1 <= Len(u)
    BY <2>2, <2>5, <2>7
  <2>11. PacketAt(u, writing, Len(t) + 1)
    BY <2>6, <2>8, <2>9, <2>10 DEF PacketAt, FirstAt
  <2>12. BeginsWith(FromStart(u), writing)
    BY <1>4, <2>5, <2>10, <2>11, ArrivesFacts
  <2>13. CleanPacketArrives'
    BY <1>4, <2>4, <2>12 DEF CleanPacketArrives
  <2>14. PortTypes'
    BY <1>1, <1>2, <1>4, JoinFacts DEF PortTypes
  <2>15. BufferInv'
    BY <1>1 DEF PortInv, BufferInv
  <2> QED BY <2>13, <2>14, <2>15 DEF PortInv
<1> QED BY <1>3, <1>4 DEF WriteOk

\* A short write and its tcflush.
LEMMA WriteShortKeeps == ASSUME PortInv, WriteShort PROVE PortInv'
<1>1. PICK u : u = SubSeq(writing, 1, Len(writing) - 1)
  OBVIOUS
<1>2. writing \in Seq(Nat)
  BY WrittenAreBytes DEF PortInv, PortTypes
<1>3. u \in Seq(Nat)
  <2>1. CASE Len(writing) = 0
    BY <1>1, <1>2, <2>1
  <2>2. CASE Len(writing) # 0
    <3>1. Len(writing) - 1 \in 0 .. Len(writing)
      BY <1>2, <2>2, LenProperties
    <3> QED BY <1>1, <1>2, <3>1, PrefixFacts
  <2> QED BY <2>1, <2>2
<1>4. Flushed(wire \o u) /\ read_buffer' = read_buffer /\ writing' = writing
  BY <1>1 DEF WriteShort
<1> QED BY <1>3, <1>4, FlushKeeps

LEMMA WriteReturnKeeps == ASSUME PortInv, WriteReturn PROVE PortInv'
<1>1. read_buffer' = read_buffer /\ writing' = writing
  BY DEF WriteReturn
<1>2. CASE UNCHANGED <<wire, clean>>
  BY <1>1, <1>2, QuietKeeps DEF PortInv, PortTypes
<1>3. CASE Flushed(wire)
  <2>1. wire \in Seq(Nat) /\ <<>> \in Seq(Nat)
    BY DEF PortInv, PortTypes
  <2>2. wire \o <<>> = wire
    BY <2>1
  <2> QED BY <1>1, <1>3, <2>1, <2>2, FlushKeeps
<1> QED BY <1>2, <1>3 DEF WriteReturn

LEMMA LineLosesByteKeeps == ASSUME PortInv, LineLosesByte PROVE PortInv'
<1>1. wire \in Seq(Nat) /\ Len(wire) \in Nat /\ DOMAIN wire = 1 .. Len(wire)
  BY LenProperties DEF PortInv, PortTypes
<1>2. PICK i \in DOMAIN wire : wire' = SubSeq(wire, 1, i - 1) \o SubSeq(wire, i + 1, Len(wire))
  BY DEF LineLosesByte
<1>3. /\ i - 1 \in 0 .. Len(wire) /\ i + 1 \in 1 .. Len(wire) + 1
      /\ Len(wire) \in (i + 1) - 1 .. Len(wire)
  <2>1. PICK n \in Nat : n = Len(wire)
    BY <1>1
  <2>2. i \in 1 .. n
    BY <1>1, <2>1
  <2>3. i - 1 \in 0 .. n /\ i + 1 \in 1 .. n + 1 /\ n \in (i + 1) - 1 .. n
    BY <2>2
  <2> QED BY <2>1, <2>3
<1>4. SubSeq(wire, 1, i - 1) \in Seq(Nat) /\ SubSeq(wire, i + 1, Len(wire)) \in Seq(Nat)
  BY <1>1, <1>3, PrefixFacts, PartFacts
<1>5. wire' \in Seq(Nat)
  BY <1>2, <1>4, JoinFacts
<1>6. clean' = <<>> /\ read_buffer' = read_buffer /\ writing' = writing
  BY DEF LineLosesByte, writer
<1>7. PortTypes' /\ CleanPacketArrives'
  BY <1>5, <1>6 DEF PortInv, PortTypes, CleanPacketArrives
<1>8. BufferInv'
  BY <1>6 DEF PortInv, BufferInv
<1> QED BY <1>7, <1>8 DEF PortInv

\* However many bytes a read brings.
LEMMA ReadKeeps == ASSUME PortInv, NEW n \in DOMAIN wire, Read(n) PROVE PortInv'
<1>1. /\ wire \in Seq(Nat) /\ read_buffer \in Seq(Nat) /\ Len(wire) \in Nat
      /\ n \in 1 .. Len(wire) /\ clean \in Packets \union {<<>>}
  BY LenProperties DEF PortInv, PortTypes
<1>2. PICK x : x = SubSeq(wire, 1, n)
  OBVIOUS
<1>3. PICK rest : rest = SubSeq(wire, n + 1, Len(wire))
  OBVIOUS
<1>4. x \in Seq(Nat) /\ Len(x) = n /\ \A i \in 1 .. n : x[i] = wire[i]
  <2>1. n \in 0 .. Len(wire)
    BY <1>1
  <2> QED BY <1>1, <1>2, <2>1, PrefixFacts
<1>5. /\ rest \in Seq(Nat) /\ Len(rest) = Len(wire) - n
      /\ \A i \in 1 .. Len(wire) - n : rest[i] = wire[n + i]
  <2>1. n + 1 \in 1 .. Len(wire) + 1 /\ Len(wire) \in (n + 1) - 1 .. Len(wire)
    BY <1>1
  <2>2. /\ rest \in Seq(Nat) /\ Len(rest) = Len(wire) - (n + 1) + 1
        /\ \A i \in 1 .. Len(wire) - (n + 1) + 1 : rest[i] = wire[(n + 1) + i - 1]
    BY <1>1, <1>3, <2>1, PartFacts
  <2>3. Len(wire) - (n + 1) + 1 = Len(wire) - n
    BY <1>1
  <2>4. ASSUME NEW i \in 1 .. Len(wire) - n PROVE rest[i] = wire[n + i]
    <3>1. (n + 1) + i - 1 = n + i /\ i \in 1 .. Len(wire) - (n + 1) + 1
      BY <1>1
    <3> QED BY <2>2, <3>1
  <2> QED BY <2>2, <2>3, <2>4
<1>6. x \o rest = wire
  <2>1. PICK y : y = x \o rest
    OBVIOUS
  <2>2. /\ y \in Seq(Nat) /\ Len(y) = n + Len(rest)
        /\ \A i \in 1 .. n : y[i] = x[i]
        /\ \A i \in n + 1 .. n + Len(rest) : y[i] = rest[i - n]
    BY <1>4, <1>5, <2>1, JoinFacts
  <2>3. n + Len(rest) = Len(wire)
    BY <1>1, <1>5
  <2>4. ASSUME NEW i \in 1 .. Len(wire) PROVE y[i] = wire[i]
    <3>1. CASE i <= n
      BY <1>1, <1>4, <2>2, <3>1, SMTT(60)
    <3>2. CASE i > n
      <4>1. i \in n + 1 .. n + Len(rest) /\ i - n \in 1 .. Len(wire) - n /\ n + (i - n) = i
        BY <1>1, <2>3, <3>2, SMTT(60)
      <4> QED BY <1>5, <2>2, <4>1
    <3> QED BY <1>1, <3>1, <3>2
  <2> QED BY <1>1, <2>1, <2>2, <2>3, <2>4, SeqEqual
<1>7. PICK s : s = read_buffer \o x
  OBVIOUS
<1>8. s \in Seq(Nat) /\ s \o rest = read_buffer \o wire
  <2>1. s \o rest = read_buffer \o (x \o rest)
    <3>1. (read_buffer \o x) \o rest = read_buffer \o (x \o rest)
      BY <1>1, <1>4, <1>5, JoinAssociative
    <3> QED BY <1>7, <3>1
  <2>2. s \o rest = read_buffer \o wire
    BY <1>6, <2>1, Zenon
  <2>3. s \in Seq(Nat)
    BY <1>1, <1>4, <1>7, JoinFacts
  <2> QED BY <2>2, <2>3
<1>9. /\ Process(s, rest) /\ writing' = writing
      /\ clean' = IF verdict' = "accept" /\ BeginsWith(FromStart(s), clean) THEN <<>> ELSE clean
  BY <1>2, <1>3, <1>7 DEF Read, writer
<1>10. wire' \in Seq(Nat) /\ read_buffer' \in Seq(Nat) /\ BufferInv'
  BY <1>5, <1>8, <1>9, ProcessFacts
<1>11. PortTypes'
  BY <1>1, <1>9, <1>10 DEF PortInv, PortTypes
<1>12. CleanPacketArrives'
  <2> SUFFICES ASSUME clean' # <<>> PROVE BeginsWith(FromStart(read_buffer' \o wire'), clean')
    BY DEF CleanPacketArrives
  <2>1. /\ clean' = clean /\ clean \in Packets
        /\ ~(verdict' = "accept" /\ BeginsWith(FromStart(s), clean))
    BY <1>1, <1>9
  <2>2. BeginsWith(FromStart(s \o rest), clean)
    BY <1>8, <2>1 DEF PortInv, CleanPacketArrives
  <2>3. s \o rest \in Seq(Nat)
    BY <1>5, <1>8, JoinFacts
  <2>4. PICK k \in 1 .. Len(s \o rest) : PacketAt(s \o rest, clean, k)
    BY <2>1, <2>2, <2>3, ArrivesFacts
  <2>5. \E j \in 1 .. Len(read_buffer' \o wire') : PacketAt(read_buffer' \o wire', clean, j)
    BY <1>5, <1>8, <1>9, <2>1, <2>4, ProcessKeeps
  <2>6. read_buffer' \o wire' \in Seq(Nat)
    BY <1>10, JoinFacts
  <2> QED BY <2>1, <2>5, <2>6, ArrivesFacts
<1> QED BY <1>10, <1>11, <1>12 DEF PortInv

\* A failed read forgets a byte, and with it what was clean.
LEMMA ReadFailsKeeps == ASSUME PortInv, ReadFails PROVE PortInv'
<1>1. wire \in Seq(Nat) /\ read_buffer \in Seq(Nat) /\ clean' = <<>> /\ writing' = writing
  BY DEF PortInv, PortTypes, ReadFails, writer
<1>2. wire' \in Seq(Nat) /\ read_buffer' \in Seq(Nat) /\ BufferInv'
  <2>1. CASE UNCHANGED <<wire, read_buffer>>
    BY <1>1, <2>1 DEF PortInv, BufferInv
  <2>2. CASE /\ read_buffer # <<>>
             /\ Process(SubSeq(read_buffer, 1, Len(read_buffer) - 1), wire)
    <3>1. Len(read_buffer) - 1 \in 0 .. Len(read_buffer)
      BY <1>1, <2>2, EmptySeq, LenProperties
    <3>2. SubSeq(read_buffer, 1, Len(read_buffer) - 1) \in Seq(Nat)
      BY <1>1, <3>1, PrefixFacts
    <3> QED BY <1>1, <2>2, <3>2, ProcessFacts
  <2> QED BY <2>1, <2>2 DEF ReadFails
<1>3. PortTypes' /\ CleanPacketArrives'
  BY <1>1, <1>2 DEF PortInv, PortTypes, CleanPacketArrives
<1> QED BY <1>2, <1>3 DEF PortInv

-----------------------------------------------------------------------------

LEMMA PortInit == Init => PortInv
<1> SUFFICES ASSUME Init PROVE PortInv
  OBVIOUS
<1>1. Len(read_buffer) = 0
  BY DEF Init
<1> QED BY <1>1 DEF Init, PortInv, PortTypes, BufferInv, CleanPacketArrives, HeaderLen

LEMMA PortStep == PortInv /\ [Next]_vars => PortInv'
<1> SUFFICES ASSUME PortInv, [Next]_vars PROVE PortInv'
  OBVIOUS
<1>1. ASSUME NEW buf \in Packets \union Leds, WriteStart(buf) PROVE PortInv'
  BY <1>1, QuietKeeps DEF WriteStart
<1>2. CASE SendPacket
  BY <1>1, <1>2 DEF SendPacket
<1>3. CASE SetLed
  BY <1>1, <1>3 DEF SetLed
<1>4. CASE WriteOk
  BY <1>4, WriteOkKeeps
<1>5. CASE WriteExhausted
  BY <1>5, QuietKeeps DEF WriteExhausted, PortInv, PortTypes
<1>6. CASE WriteReturn
  BY <1>6, WriteReturnKeeps
<1>7. CASE WriteShort
  BY <1>7, WriteShortKeeps
<1>8. CASE LineLosesByte
  BY <1>8, LineLosesByteKeeps
<1>9. CASE ReadStep
  BY <1>9, ReadKeeps DEF ReadStep
<1>10. CASE ReadFails
  BY <1>10, ReadFailsKeeps
<1>11. CASE UNCHANGED vars
  BY <1>11, QuietKeeps DEF vars, PortInv, PortTypes
<1> QED BY <1>2, <1>3, <1>4, <1>5, <1>6, <1>7, <1>8, <1>9, <1>10, <1>11
        DEF Next, WriteStep, Spins, Dead

-----------------------------------------------------------------------------

\* thread_rx stops for good in two ways only: its buffer is full and begins with a
\* header that get_data_head rejected, or with one that announces a packet longer
\* than the buffer.  No packet that fits is ever left lying in it.
THEOREM WedgedByHeader == Spec => []WedgedOnlyByHeader
<1>1. PortInv => WedgedOnlyByHeader
  <2> SUFFICES ASSUME PortInv, Wedged, read_buffer[1] # 0
               PROVE  read_buffer[2] \in ValidIds /\ read_buffer[3] + HeaderLen > PRO_MAX_BUFFER_SIZE
    BY DEF WedgedOnlyByHeader
  <2>1. /\ Len(read_buffer) = PRO_MAX_BUFFER_SIZE /\ PRO_MAX_BUFFER_SIZE \in Nat
        /\ PRO_MAX_BUFFER_SIZE >= HeaderLen
    BY PortAssumption DEF Wedged
  <2>2. read_buffer[2] \in ValidIds /\ Len(read_buffer) < read_buffer[3] + HeaderLen
    BY <2>1 DEF PortInv, BufferInv
  <2>3. read_buffer[3] \in Nat
    BY <2>1, LenProperties DEF PortInv, PortTypes, HeaderLen
  <2> QED BY <2>1, <2>2, <2>3 DEF HeaderLen
<1> QED BY <1>1, PortInit, PortStep, PTL DEF Spec

\* A packet that write_port has put on the line with nothing unfinished before it is
\* the next thing thread_rx finds, until it has accepted it, however the bytes are
\* divided into reads and whatever is written, flushed or lit behind it.
THEOREM CleanPacketFound == Spec => []CleanPacketArrives
<1>1. PortInv => CleanPacketArrives
  BY DEF PortInv
<1> QED BY <1>1, PortInit, PortStep, PTL DEF Spec
=============================================================================
