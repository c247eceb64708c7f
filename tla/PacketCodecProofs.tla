------------------------- MODULE PacketCodecProofs --------------------------
(***************************************************************************)
(* Theorems about PacketCodec, for every message and every domain of at    *)
(* least two bytes.  Neither the sender's nor the receiver's loop counts   *)
(* in the other's unit, so the invariant that carries the round trip says  *)
(* where in the data domain the escape of each fed byte begins.  The last  *)
(* three theorems are about the check code behind the data: its two bytes, *)
(* and that no change of a single byte of the data goes unnoticed.         *)
(***************************************************************************)
EXTENDS Crc8, WellFoundedInduction, TLAPS

CodecTypeOK ==
    /\ msg \in Seq(Byte) /\ msg # <<>>
    /\ pos \in 0 .. Len(msg)
    /\ data \in Seq(Byte)
    /\ rd \in Nat
    /\ out \in Seq(Byte)
    /\ pc \in {"feed", "unpack", "done"}
    /\ pc = "done" => data = <<>> /\ pos = Len(msg)

\* The j-th byte fed into the current packet, of n.
Fed(n, j) == msg[pos - n + j]

\* at[k] is where the escapes of the first k of the n fed bytes end.
Layout(n, at) ==
    /\ at \in [0 .. n -> 0 .. Len(data)]
    /\ at[0] = 0 /\ at[n] = Len(data)
    /\ \A i, j \in 0 .. n : i < j => at[i] < at[j]
    /\ \A k \in 1 .. n :
           /\ at[k] = at[k - 1] + Len(Escape(Fed(n, k)))
           /\ \A j \in 1 .. Len(Escape(Fed(n, k))) : data[at[k - 1] + j] = Escape(Fed(n, k))[j]

\* The receiver has read k of them.
Read(n, at, k) == rd = at[k] /\ out = SubSeq(msg, 1, pos - n + k) /\ (pc = "feed" => k = 0)

Aligned == \E n \in 0 .. pos : \E at : Layout(n, at) /\ \E k \in 0 .. n : Read(n, at, k)

IInv == CodecTypeOK /\ FitsDomain /\ NoStartCharInData /\ Aligned

-----------------------------------------------------------------------------
\* An escape is one byte, or ESC and one more; neither START nor ZERO is in it,
\* and reading it back gives the byte.
LEMMA EscapeFacts ==
    ASSUME NEW b \in Byte
    PROVE  /\ Escape(b) \in Seq(Byte)
           /\ Len(Escape(b)) \in {1, 2}
           /\ \A j \in 1 .. Len(Escape(b)) : Escape(b)[j] \in Byte \ {START, ZERO}
           /\ Escape(b)[1] = ESC => Len(Escape(b)) = 2 /\ Unescaped(Escape(b)[2]) = b
           /\ Escape(b)[1] # ESC => Len(Escape(b)) = 1 /\ Escape(b)[1] = b
<1> USE DEF Byte, ZERO, ESC, START, F0, FA
<1>0. ASSUME NEW c \in Byte \ {START, ZERO}, Escape(b) = <<ESC, c>>, Unescaped(c) = b
      PROVE  /\ Escape(b) \in Seq(Byte)
             /\ Len(Escape(b)) = 2
             /\ \A j \in 1 .. Len(Escape(b)) : Escape(b)[j] \in Byte \ {START, ZERO}
             /\ Escape(b)[1] = ESC /\ Escape(b)[2] = c
  <2>1. Len(<<ESC, c>>) = 2 /\ <<ESC, c>>[1] = ESC /\ <<ESC, c>>[2] = c /\ <<ESC, c>> \in Seq(Byte)
    OBVIOUS
  <2>2. \A j \in 1 .. 2 : j = 1 \/ j = 2
    OBVIOUS
  <2> QED BY <1>0, <2>1, <2>2
<1>1. CASE b = ZERO
  <2>1. Escape(b) = <<ESC, F0>> /\ Unescaped(F0) = b
    BY <1>1 DEF Escape, Unescaped
  <2> QED BY <1>0, <2>1
<1>2. CASE b = ESC
  <2>1. Escape(b) = <<ESC, ESC>> /\ Unescaped(ESC) = b
    BY <1>2 DEF Escape, Unescaped
  <2> QED BY <1>0, <2>1
<1>3. CASE b = START
  <2>1. Escape(b) = <<ESC, FA>> /\ Unescaped(FA) = b
    BY <1>3 DEF Escape, Unescaped
  <2> QED BY <1>0, <2>1
<1>4. CASE b \notin {ZERO, ESC, START}
  <2>1. Escape(b) = <<b>>
    BY <1>4 DEF Escape
  <2> QED BY <1>4, <2>1
<1> QED BY <1>1, <1>2, <1>3, <1>4

\* Appending one sequence to another.
LEMMA ConcatFacts ==
    ASSUME NEW S, NEW s \in Seq(S), NEW t \in Seq(S)
    PROVE  /\ s \o t \in Seq(S)
           /\ Len(s \o t) = Len(s) + Len(t)
           /\ \A j \in 1 .. Len(s) : (s \o t)[j] = s[j]
           /\ \A j \in 1 .. Len(t) : (s \o t)[Len(s) + j] = t[j]
  OBVIOUS

\* One more element of a prefix.
LEMMA PrefixFacts ==
    ASSUME NEW S, NEW s \in Seq(S), NEW k \in 0 .. Len(s)
    PROVE  /\ k < Len(s) => Append(SubSeq(s, 1, k), s[k + 1]) = SubSeq(s, 1, k + 1)
           /\ k = Len(s) => SubSeq(s, 1, k) = s
           /\ k = 0 => SubSeq(s, 1, k) = <<>>
           /\ SubSeq(s, 1, k) \in Seq(S)
  OBVIOUS

-----------------------------------------------------------------------------
\* Before the first byte, an empty layout.
LEMMA CodecInit == Init => IInv
<1> SUFFICES ASSUME Init PROVE IInv
  OBVIOUS
<1>1. CodecTypeOK /\ FitsDomain /\ NoStartCharInData
  BY InputsAssumption, DomainAssumption DEF Init, CodecTypeOK, FitsDomain, NoStartCharInData
<1>2. Aligned
  <2> DEFINE at == [i \in 0 .. 0 |-> 0]
  <2>1. Layout(0, at)
    BY DEF Init, Layout
  <2>2. Read(0, at, 0)
    BY <1>1, PrefixFacts DEF Init, Read, CodecTypeOK
  <2> QED BY <2>1, <2>2 DEF Aligned, Init
<1> QED BY <1>1, <1>2 DEF IInv

\* FeedByte extends the layout by the escape of one byte.
LEMMA Feeds == ASSUME IInv, FeedByte PROVE IInv'
<1> USE DomainAssumption
<1> DEFINE e == Escape(msg[pos + 1])
<1>1. /\ msg \in Seq(Byte) /\ data \in Seq(Byte) /\ out \in Seq(Byte)
      /\ pos \in Nat /\ pos < Len(msg) /\ pos + 1 \in 1 .. Len(msg)
      /\ pos' = pos + 1 /\ data' = data \o e
      /\ pc = "feed" /\ UNCHANGED <<msg, rd, out, pc>>
  BY DEF IInv, CodecTypeOK, FeedByte
<1>2. msg[pos + 1] \in Byte
  BY <1>1
<1>3. /\ e \in Seq(Byte) /\ Len(e) \in {1, 2}
      /\ \A j \in 1 .. Len(e) : e[j] \in Byte \ {START, ZERO}
  BY <1>2, EscapeFacts
<1> HIDE DEF e
<1>4. /\ data' \in Seq(Byte) /\ Len(data') = Len(data) + Len(e)
      /\ \A j \in 1 .. Len(data) : data'[j] = data[j]
      /\ \A j \in 1 .. Len(e) : data'[Len(data) + j] = e[j]
  BY <1>1, <1>3, ConcatFacts
<1>5. CodecTypeOK'
  BY <1>1, <1>4 DEF IInv, CodecTypeOK
<1>6. FitsDomain'
  <2>1. Len(data) < Domain - 1 /\ Len(data) \in Nat
    BY <1>1 DEF FeedByte, Room
  <2>2. Len(data') = Len(data) + Len(e) /\ Len(e) \in 1 .. 2
    BY <1>3, <1>4
  <2>3. ASSUME NEW n \in Nat, NEW l \in 1 .. 2, n < Domain - 1 PROVE n + l <= Domain
    BY <2>3, DomainAssumption
  <2>4. Len(data') <= Domain
    BY <2>1, <2>2, <2>3
  <2> QED BY <2>4 DEF FitsDomain
<1>7. NoStartCharInData'
  <2> SUFFICES ASSUME NEW k \in DOMAIN data' PROVE data'[k] \notin {START, ZERO}
    BY DEF NoStartCharInData
  <2>1. k \in 1 .. Len(data) + Len(e) /\ Len(data) \in Nat /\ Len(e) \in Nat
    BY <1>1, <1>3, <1>4
  <2>2. CASE k \in 1 .. Len(data)
    BY <1>1, <1>4, <2>2 DEF IInv, NoStartCharInData
  <2>3. CASE k > Len(data)
    <3>1. k - Len(data) \in 1 .. Len(e) /\ k = Len(data) + (k - Len(data))
      BY <2>1, <2>3
    <3> QED BY <1>3, <1>4, <3>1
  <2> QED BY <2>1, <2>2, <2>3
<1>8. Aligned'
  <2>1. PICK n \in 0 .. pos : \E at : Layout(n, at) /\ \E k \in 0 .. n : Read(n, at, k)
    BY DEF IInv, Aligned
  <2>2. PICK at : Layout(n, at) /\ \E k \in 0 .. n : Read(n, at, k)
    BY <2>1
  <2>3. Read(n, at, 0)
    BY <1>1, <2>2 DEF Read
  <2>0. PICK new : new = [i \in 0 .. n + 1 |-> IF i = n + 1 THEN Len(data) + Len(e) ELSE at[i]]
    OBVIOUS
  <2>4. n \in Nat /\ n + 1 \in 0 .. pos' /\ Len(data) \in Nat /\ Len(e) \in 1 .. 2
    BY <1>1, <1>3
  <2>5. \A i \in 0 .. n : new[i] = at[i] /\ at[i] \in 0 .. Len(data)
    BY <2>0, <2>2, <2>4 DEF Layout
  <2>6. new[n + 1] = Len(data) + Len(e) /\ new[n] = Len(data) /\ new[0] = 0
    BY <2>0, <2>2, <2>4, <2>5 DEF Layout
  <2>7. \A k \in 1 .. n : (Fed(n + 1, k))' = Fed(n, k)
    BY <1>1, <2>4 DEF Fed
  <2>8. (Fed(n + 1, n + 1))' = msg[pos + 1]
    BY <1>1, <2>4 DEF Fed
  <2>9. new \in [0 .. n + 1 -> 0 .. Len(data')]
    <3>1. \A i \in 0 .. n + 1 : new[i] \in 0 .. Len(data')
      <4> SUFFICES ASSUME NEW i \in 0 .. n + 1 PROVE new[i] \in 0 .. Len(data')
        OBVIOUS
      <4>1. i \in 0 .. n \/ i = n + 1
        BY <2>4
      <4> QED BY <1>4, <2>4, <2>5, <2>6, <4>1
    <3> QED BY <2>0, <3>1
  <2>10. \A i, j \in 0 .. n + 1 : i < j => new[i] < new[j]
    <3> SUFFICES ASSUME NEW i \in 0 .. n + 1, NEW j \in 0 .. n + 1, i < j PROVE new[i] < new[j]
      OBVIOUS
    <3>1. CASE j = n + 1
      <4>1. i \in 0 .. n
        BY <2>4, <3>1
      <4>2. new[j] = Len(data) + Len(e) /\ new[i] \in 0 .. Len(data)
        BY <2>5, <2>6, <3>1, <4>1
      <4>3. ASSUME NEW x \in 0 .. Len(data) PROVE x < Len(data) + Len(e)
        <5>1. Len(e) \in {1, 2} /\ Len(data) \in Nat
          BY <1>3, <2>4
        <5>2. \A y \in Nat, z \in {1, 2} : \A w \in 0 .. y : w < y + z
          OBVIOUS
        <5> QED BY <5>1, <5>2
      <4> QED BY <4>2, <4>3
    <3>2. CASE j # n + 1
      <4>1. i \in 0 .. n /\ j \in 0 .. n
        BY <2>4, <3>2
      <4>2. at[i] < at[j]
        BY <2>2, <4>1 DEF Layout
      <4> QED BY <2>5, <4>1, <4>2
    <3> QED BY <3>1, <3>2
  <2>11. ASSUME NEW k \in 1 .. n + 1
         PROVE  /\ new[k] = new[k - 1] + Len(Escape(Fed(n + 1, k)'))
                /\ \A j \in 1 .. Len(Escape(Fed(n + 1, k)')) :
                       data'[new[k - 1] + j] = Escape(Fed(n + 1, k)')[j]
    <3>1. CASE k = n + 1
      <4>1. Fed(n + 1, k)' = msg[pos + 1] /\ new[k] = Len(data) + Len(e) /\ new[k - 1] = Len(data)
        BY <2>4, <2>6, <2>8, <3>1
      <4> QED BY <1>4, <4>1 DEF e
    <3>2. CASE k # n + 1
      <4>1. k \in 1 .. n /\ k \in 0 .. n /\ k - 1 \in 0 .. n
        BY <2>4, <3>2
      <4>2. /\ at[k] = at[k - 1] + Len(Escape(Fed(n, k)))
            /\ \A j \in 1 .. Len(Escape(Fed(n, k))) :
                   data[at[k - 1] + j] = Escape(Fed(n, k))[j]
        BY <2>2, <4>1 DEF Layout
      <4>3. Len(Escape(Fed(n, k))) \in Nat
        <5>1. Fed(n, k) \in Byte
          BY <1>1, <2>4, <4>1 DEF Fed
        <5> QED BY <5>1, EscapeFacts
      <4>4. \A j \in 1 .. Len(Escape(Fed(n, k))) : at[k - 1] + j \in 1 .. Len(data)
        BY <2>4, <2>5, <4>1, <4>2, <4>3
      <4> QED BY <1>4, <2>5, <2>7, <4>1, <4>2, <4>4
    <3> QED BY <3>1, <3>2
  <2>12. Layout(n + 1, new)'
    BY <1>4, <2>6, <2>9, <2>10, <2>11 DEF Layout
  <2>13. Read(n + 1, new, 0)'
    BY <1>1, <2>3, <2>4, <2>5, <2>6 DEF Read, Layout
  <2> QED BY <2>4, <2>12, <2>13 DEF Aligned
<1> QED BY <1>5, <1>6, <1>7, <1>8 DEF IInv

\* Handing the packet over changes nothing but the side.
LEMMA Sends == ASSUME IInv, SendPacket PROVE IInv'
<1>1. pc' = "unpack" /\ UNCHANGED <<msg, pos, data, rd, out>>
  BY DEF SendPacket
<1>2. CodecTypeOK' /\ FitsDomain' /\ NoStartCharInData'
  BY <1>1 DEF IInv, CodecTypeOK, FitsDomain, NoStartCharInData
<1>3. ASSUME NEW n, NEW at, NEW k, Layout(n, at), Read(n, at, k)
      PROVE  Layout(n, at)' /\ Read(n, at, k)'
  BY <1>1, <1>3 DEF Layout, Read, Fed
<1>4. Aligned'
  BY <1>1, <1>3 DEF IInv, Aligned
<1> QED BY <1>2, <1>4 DEF IInv

\* UnpackByte reads the next escape of the layout and gets its byte.
LEMMA Unpacks == ASSUME IInv, UnpackByte PROVE IInv'
<1>1. /\ msg \in Seq(Byte) /\ data \in Seq(Byte) /\ out \in Seq(Byte) /\ Len(data) \in Nat
      /\ pos \in 0 .. Len(msg) /\ Len(msg) \in Nat /\ rd < Len(data)
      /\ pc = "unpack" /\ UNCHANGED <<msg, pos, data, pc>>
  BY DEF IInv, CodecTypeOK, UnpackByte
<1>2. PICK n \in 0 .. pos : \E at : Layout(n, at) /\ \E k \in 0 .. n : Read(n, at, k)
  BY DEF IInv, Aligned
<1>3. PICK at : Layout(n, at) /\ \E k \in 0 .. n : Read(n, at, k)
  BY <1>2
<1>4. PICK k \in 0 .. n : Read(n, at, k)
  BY <1>3
<1>5. k # n /\ n \in Nat /\ k \in Nat
  BY <1>1, <1>3, <1>4 DEF Layout, Read
<1>6. k + 1 \in 1 .. n /\ k + 1 \in 0 .. n /\ (k + 1) - 1 = k /\ pos - n + k + 1 \in 1 .. Len(msg)
      /\ pos - n + k \in 0 .. Len(msg) /\ pos - n + (k + 1) = pos - n + k + 1
  BY <1>1, <1>5
<1> DEFINE b == msg[pos - n + k + 1]
<1>7. b \in Byte /\ Fed(n, k + 1) = b
  BY <1>1, <1>6 DEF Fed
<1> HIDE DEF b
<1>8. /\ at[k + 1] = rd + Len(Escape(b)) /\ rd \in Nat
      /\ \A j \in 1 .. Len(Escape(b)) : data[rd + j] = Escape(b)[j]
  <2>1. at[k] = rd /\ rd \in 0 .. Len(data)
    BY <1>3, <1>4 DEF Layout, Read
  <2>2. \A l \in 1 .. n :
            /\ at[l] = at[l - 1] + Len(Escape(Fed(n, l)))
            /\ \A j \in 1 .. Len(Escape(Fed(n, l))) : data[at[l - 1] + j] = Escape(Fed(n, l))[j]
    BY <1>3 DEF Layout
  <2>3. /\ at[k + 1] = at[k] + Len(Escape(b))
        /\ \A j \in 1 .. Len(Escape(b)) : data[at[k] + j] = Escape(b)[j]
    BY <1>6, <1>7, <2>2
  <2> QED BY <1>1, <2>1, <2>3
<1>9. at[k + 1] \in 0 .. Len(data)
  BY <1>3, <1>6 DEF Layout
<1>10. rd' = at[k + 1] /\ out' = Append(out, b)
  <2>0. data[rd + 1] = Escape(b)[1]
    BY <1>7, <1>8, EscapeFacts
  <2>1. CASE data[rd + 1] = ESC
    <3>1. Len(Escape(b)) = 2 /\ Unescaped(Escape(b)[2]) = b
      BY <1>7, <2>0, <2>1, EscapeFacts
    <3>2. data[rd + 2] = Escape(b)[2]
      BY <1>8, <3>1
    <3>3. rd + 2 <= Len(data)
      BY <1>1, <1>8, <1>9, <3>1
    <3> QED BY <1>8, <2>1, <3>1, <3>2, <3>3 DEF UnpackByte, Peek
  <2>2. CASE data[rd + 1] # ESC
    <3>1. Len(Escape(b)) = 1 /\ Escape(b)[1] = b
      BY <1>7, <2>0, <2>2, EscapeFacts
    <3> QED BY <1>8, <2>0, <2>2, <3>1 DEF UnpackByte
  <2> QED BY <2>1, <2>2
<1>11. out' = SubSeq(msg, 1, pos - n + (k + 1))
  BY <1>1, <1>4, <1>6, <1>10, PrefixFacts DEF Read, b
<1>12. CodecTypeOK'
  <2>1. rd' \in Nat /\ out' \in Seq(Byte)
    BY <1>1, <1>7, <1>9, <1>10
  <2> QED BY <1>1, <2>1 DEF IInv, CodecTypeOK
<1>13. FitsDomain' /\ NoStartCharInData'
  BY <1>1 DEF IInv, FitsDomain, NoStartCharInData
<1>14. Layout(n, at)' /\ Read(n, at, k + 1)'
  BY <1>1, <1>3, <1>10, <1>11 DEF Layout, Read, Fed
<1> QED BY <1>1, <1>6, <1>12, <1>13, <1>14 DEF IInv, Aligned

\* At the end of the packet everything fed has been read.
LEMMA GoesOn == ASSUME IInv, NextPacket PROVE IInv'
<1>1. /\ msg \in Seq(Byte) /\ Len(data) \in Nat /\ out \in Seq(Byte)
      /\ pos \in 0 .. Len(msg) /\ Len(msg) \in Nat /\ rd >= Len(data)
      /\ UNCHANGED <<msg, pos, out>> /\ data' = <<>> /\ rd' = 0
      /\ pc' \in {"feed", "done"} /\ (pc' = "done" => pos = Len(msg))
  BY DEF IInv, CodecTypeOK, NextPacket
<1>2. PICK n \in 0 .. pos : \E at : Layout(n, at) /\ \E k \in 0 .. n : Read(n, at, k)
  BY DEF IInv, Aligned
<1>3. PICK at : Layout(n, at) /\ \E k \in 0 .. n : Read(n, at, k)
  BY <1>2
<1>4. PICK k \in 0 .. n : Read(n, at, k)
  BY <1>3
<1>5. k = n
  <2>1. k < n => at[k] < at[n]
    BY <1>1, <1>3 DEF Layout
  <2> QED BY <1>1, <1>3, <1>4, <2>1 DEF Layout, Read
<1>6. out = SubSeq(msg, 1, pos)
  <2>1. pos - n + n = pos
    BY <1>1
  <2> QED BY <1>4, <1>5, <2>1 DEF Read
<1>7. CodecTypeOK' /\ FitsDomain' /\ NoStartCharInData'
  BY <1>1, DomainAssumption DEF IInv, CodecTypeOK, FitsDomain, NoStartCharInData
<1>8. PICK new : new = [i \in 0 .. 0 |-> 0]
  OBVIOUS
<1>9. Layout(0, new)'
  BY <1>1, <1>8 DEF Layout
<1>10. Read(0, new, 0)'
  <2>1. pos - 0 + 0 = pos
    BY <1>1
  <2> QED BY <1>1, <1>6, <1>8, <2>1 DEF Read
<1>11. 0 \in 0 .. pos' /\ 0 \in 0 .. 0
  BY <1>1
<1> QED BY <1>7, <1>9, <1>10, <1>11 DEF IInv, Aligned

\* Every step keeps the invariant.
LEMMA CodecStep == IInv /\ [Next]_vars => IInv'
<1> SUFFICES ASSUME IInv, [Next]_vars PROVE IInv'
  OBVIOUS
<1>1. CASE Done \/ UNCHANGED vars
  <2>1. UNCHANGED vars
    BY <1>1 DEF Done
  <2>2. CodecTypeOK' /\ FitsDomain' /\ NoStartCharInData'
    BY <2>1 DEF vars, IInv, CodecTypeOK, FitsDomain, NoStartCharInData
  <2>3. ASSUME NEW n, NEW at, NEW k, Layout(n, at), Read(n, at, k)
        PROVE  Layout(n, at)' /\ Read(n, at, k)'
    BY <2>1, <2>3 DEF vars, Layout, Read, Fed
  <2>4. Aligned'
    BY <2>1, <2>3 DEF vars, IInv, Aligned
  <2> QED BY <2>2, <2>4 DEF IInv
<1> QED BY <1>1, Feeds, Sends, Unpacks, GoesOn DEF Next

\* The layout of an empty data domain is empty, so nothing is left unread.
LEMMA AlignedReassembles == IInv => Reassembles
<1> SUFFICES ASSUME IInv PROVE Reassembles
  OBVIOUS
<1>1. msg \in Seq(Byte) /\ pos \in 0 .. Len(msg) /\ Len(msg) \in Nat
  BY DEF IInv, CodecTypeOK
<1>2. ASSUME data = <<>> PROVE out = SubSeq(msg, 1, pos)
  <2>1. PICK n \in 0 .. pos : \E at : Layout(n, at) /\ \E k \in 0 .. n : Read(n, at, k)
    BY DEF IInv, Aligned
  <2>2. PICK at : Layout(n, at) /\ \E k \in 0 .. n : Read(n, at, k)
    BY <2>1
  <2>3. n = 0
    <3>1. at[0] = 0 /\ at[n] = 0
      BY <1>2, <2>2 DEF Layout
    <3>2. 0 < n => at[0] < at[n]
      BY <1>1, <2>2 DEF Layout
    <3> QED BY <1>1, <3>1, <3>2
  <2>4. Read(n, at, 0)
    BY <2>2, <2>3
  <2>5. pos - 0 + 0 = pos
    BY <1>1
  <2> QED BY <2>3, <2>4, <2>5 DEF Read
<1>3. SubSeq(msg, 1, Len(msg)) = msg
  BY <1>1, PrefixFacts
<1>4. pc = "done" => data = <<>> /\ pos = Len(msg)
  BY DEF IInv, CodecTypeOK
<1> QED BY <1>2, <1>3, <1>4 DEF Reassembles

\* No data domain is ever overrun, whatever the message and the escapes in it.
THEOREM DataDomainSafe == Spec => []FitsDomain
  BY CodecInit, CodecStep, PTL DEF Spec, IInv

\* Whatever the message, the receiver puts together what the sender cut up.
THEOREM RoundTrip == Spec => []Reassembles
  BY CodecInit, CodecStep, AlignedReassembles, PTL DEF Spec
-----------------------------------------------------------------------------
\* The two bytes for a check code contain neither START nor ZERO and are read back
\* as it: of the four forms no two are taken for one another.
LEMMA PackedFacts ==
    ASSUME NEW c
    PROVE  Unpacked(Packed(c)) = c /\ \A i \in {1, 2} : Packed(c)[i] \notin {START, ZERO}
<1>1. CASE c = ESC
  BY <1>1 DEF Packed, Unpacked, Unescaped, ESC, ZERO, START, F0, FA
<1>2. CASE c = ZERO
  BY <1>2 DEF Packed, Unpacked, Unescaped, ESC, ZERO, START, F0, FA
<1>3. CASE c = START
  BY <1>3 DEF Packed, Unpacked, Unescaped, ESC, ZERO, START, F0, FA
<1>4. CASE c \notin {ESC, ZERO, START}
  <2>1. Packed(c) = <<c, c>>
    BY <1>4 DEF Packed
  <2> QED BY <1>4, <2>1 DEF Unpacked
<1> QED BY <1>1, <1>2, <1>3, <1>4

\* deal_with_indata never refuses a packet that arrives as pro_pack_data made it, for
\* every message, domain size and check code: pro_unpack_pkg reads the code back.
THEOREM UndamagedIsAccepted == Spec => []UndamagedAccepted
<1>1. UndamagedAccepted
  BY PackedFacts DEF UndamagedAccepted, Accepts, CrcBytes
<1> QED BY <1>1, PTL

\* Neither the data nor the two bytes that pro_pack_data writes for their check code
\* contain a byte that could be taken for the start of a packet, for every message and
\* domain size.
THEOREM DataAndCrcAreClean == Spec => []DataAndCrcClean
<1>1. IInv => DataAndCrcClean
  BY PackedFacts DEF IInv, DataAndCrcClean, CrcBytes
<1> QED BY <1>1, CodecInit, CodecStep, PTL DEF Spec
-----------------------------------------------------------------------------
(***************************************************************************)
(* The loops of the check code.  calcrc_bytes and calcrc_1byte are         *)
(* recursive functions over the turns of their loops; what holds after     *)
(* every turn is shown with the least turn after which it would not.       *)
(***************************************************************************)
\* Induction on the numbers up to n, with the set of those for which the claim holds.
LEMMA UpTo ==
    ASSUME NEW n \in Nat, NEW G, 0 \in G, \A i \in 0 .. n - 1 : i \in G => i + 1 \in G
    PROVE  \A i \in 0 .. n : i \in G
<1> DEFINE T == {i \in 0 .. n : i \notin G}
<1> SUFFICES ASSUME T # {} PROVE FALSE
  OBVIOUS
<1>1. T \subseteq Nat
  OBVIOUS
<1>2. \E x \in T : \A y \in T : ~(<<y, x>> \in OpToRel(<, Nat))
  BY <1>1, WFMin, NatLessThanWellFounded
<1>3. PICK x \in T : \A y \in T : ~(<<y, x>> \in OpToRel(<, Nat))
  BY <1>2
<1>4. \A y \in T : ~(y < x)
  BY <1>1, <1>3 DEF OpToRel
<1>5. x # 0 /\ x - 1 \in 0 .. n - 1 /\ (x - 1) + 1 = x
  OBVIOUS
<1>6. x - 1 \in G
  BY <1>4, <1>5
<1> QED BY <1>5, <1>6

\* f holds the values of a loop before its first turn and after each of n.
Iterates(f, n, S, a, F) ==
    f \in [0 .. n -> S] /\ f[0] = a /\ \A i \in 1 .. n : f[i] = F[i][f[i - 1]]

\* A function of the turns that S -> S steps determine exists.
LEMMA Recursion ==
    ASSUME NEW n \in Nat, NEW S, NEW a \in S, NEW F \in [1 .. n -> [S -> S]]
    PROVE  \E f : Iterates(f, n, S, a, F)
<1> DEFINE G == {k \in Nat : \E f : Iterates(f, k, S, a, F)}
<1>1. 0 \in G
  <2>1. Iterates([i \in 0 .. 0 |-> a], 0, S, a, F)
    BY DEF Iterates
  <2> QED BY <2>1
<1>2. ASSUME NEW k \in 0 .. n - 1, k \in G PROVE k + 1 \in G
  <2>1. PICK f : Iterates(f, k, S, a, F)
    BY <1>2
  <2>2. k \in Nat /\ k + 1 \in Nat /\ k + 1 \in 1 .. n
    OBVIOUS
  <2>3. PICK g : g = [i \in 0 .. k + 1 |-> IF i = k + 1 THEN F[k + 1][f[k]] ELSE f[i]]
    OBVIOUS
  <2>4. g \in [0 .. k + 1 -> S]
    BY <2>1, <2>2, <2>3 DEF Iterates
  <2>5. \A i \in 0 .. k : g[i] = f[i]
    BY <2>2, <2>3
  <2>6. ASSUME NEW i \in 1 .. k + 1 PROVE g[i] = F[i][g[i - 1]]
    <3>1. CASE i = k + 1
      BY <2>2, <2>3, <2>5, <3>1
    <3>2. CASE i \in 1 .. k
      BY <2>1, <2>2, <2>5, <3>2 DEF Iterates
    <3> QED BY <2>2, <3>1, <3>2
  <2>7. Iterates(g, k + 1, S, a, F)
    BY <2>1, <2>2, <2>4, <2>5, <2>6 DEF Iterates
  <2> QED BY <2>2, <2>7
<1>3. \A k \in 0 .. n - 1 : k \in G => k + 1 \in G
  BY <1>2
<1> HIDE DEF G
<1>4. \A i \in 0 .. n : i \in G
  BY <1>1, <1>3, UpTo
<1>5. n \in G
  BY <1>4
<1> USE DEF G
<1> QED BY <1>5

\* The CRC a loop begins with.
LEMMA ZeroByte == 0 \in Byte
BY DEF Byte

\* A loop goes through the values of some function f, one for each turn.
LEMMA LoopFacts ==
    ASSUME NEW n \in Nat, NEW body \in [1 .. n -> [Byte -> Byte]], Len(body) = n
    PROVE  \E f : Iterates(f, n, Byte, 0, body) /\ Loop(body) = f[n]
<1> DEFINE Def(g) == g = [i \in 0 .. Len(body) |-> IF i = 0 THEN 0 ELSE body[i][g[i - 1]]]
<1>1. PICK f : Iterates(f, n, Byte, 0, body)
  BY ZeroByte, Recursion
<1>2. f \in [0 .. n -> Byte] /\ f[0] = 0 /\ \A i \in 1 .. n : f[i] = body[i][f[i - 1]]
  BY <1>1 DEF Iterates
<1>3. Def(f)
  BY <1>2
<1>4. PICK g : g = CHOOSE h : Def(h)
  OBVIOUS
<1>5. Def(g)
  <2>1. Def(CHOOSE h : Def(h))
    BY <1>3, Zenon
  <2> HIDE DEF Def
  <2> QED BY <1>4, <2>1, Zenon
<1>6. Loop(body) = g[n]
  BY <1>4 DEF Loop
<1>7. g[0] = 0 /\ \A i \in 1 .. n : g[i] = body[i][g[i - 1]]
  <2>1. 0 \in 0 .. n /\ \A i \in 1 .. n : i \in 0 .. n /\ i # 0
    OBVIOUS
  <2>2. \A i \in 0 .. Len(body) : g[i] = IF i = 0 THEN 0 ELSE body[i][g[i - 1]]
    BY <1>5, Zenon
  <2> QED BY <2>1, <2>2
<1>8. \A i \in 0 .. n : g[i] = f[i]
  <2> DEFINE G == {i \in 0 .. n : g[i] = f[i]}
  <2>1. 0 \in G
    BY <1>2, <1>7
  <2>2. ASSUME NEW i \in 0 .. n - 1, i \in G PROVE i + 1 \in G
    <3>1. i + 1 \in 1 .. n /\ i + 1 \in 0 .. n /\ (i + 1) - 1 = i
      OBVIOUS
    <3>2. g[i + 1] = f[i + 1]
      BY <1>2, <1>7, <2>2, <3>1
    <3> QED BY <3>1, <3>2
  <2>3. \A i \in 0 .. n - 1 : i \in G => i + 1 \in G
    BY <2>2
  <2> HIDE DEF G
  <2>4. \A i \in 0 .. n : i \in G
    BY <2>1, <2>3, UpTo
  <2> USE DEF G
  <2> QED BY <2>4
<1> QED BY <1>1, <1>6, <1>8

-----------------------------------------------------------------------------
\* The bit of x with value p.
Bit(x, p) == (x \div p) % 2

Powers == {1, 2, 4, 8, 16, 32, 64, 128}

\* A bit is 0 or 1.
LEMMA BitRange == ASSUME NEW x \in Nat, NEW p \in Powers PROVE Bit(x, p) \in {0, 1}
BY DEF Bit, Powers

\* A sum of different powers is a byte with just those bits.
LEMMA Binary ==
    ASSUME NEW a \in {0, 1}, NEW b \in {0, 1}, NEW c \in {0, 1}, NEW d \in {0, 1},
           NEW e \in {0, 1}, NEW f \in {0, 1}, NEW g \in {0, 1}, NEW h \in {0, 1}, NEW x,
           x = 1 * a + 2 * b + 4 * c + 8 * d + 16 * e + 32 * f + 64 * g + 128 * h
    PROVE  /\ x \in Byte
           /\ Bit(x, 1) = a /\ Bit(x, 2) = b /\ Bit(x, 4) = c /\ Bit(x, 8) = d
           /\ Bit(x, 16) = e /\ Bit(x, 32) = f /\ Bit(x, 64) = g /\ Bit(x, 128) = h
BY SMTT(60) DEF Bit, Byte

\* A byte is the sum of its bits.
LEMMA Expansion ==
    ASSUME NEW x \in Byte
    PROVE  x = 1 * Bit(x, 1) + 2 * Bit(x, 2) + 4 * Bit(x, 4) + 8 * Bit(x, 8) + 16 * Bit(x, 16)
                 + 32 * Bit(x, 32) + 64 * Bit(x, 64) + 128 * Bit(x, 128)
BY SMTT(60) DEF Bit, Byte

\* Whether two bytes differ in a bit.
LEMMA BitSum ==
    ASSUME NEW c \in Byte, NEW b \in Byte, NEW p \in Powers
    PROVE  (c \div p + b \div p) % 2 = (Bit(c, p) + Bit(b, p)) % 2
BY SMTT(60) DEF Bit, Byte, Powers

\* >>= 1 moves every bit down.
LEMMA HalfBit ==
    ASSUME NEW x \in Byte
    PROVE  /\ x \div 2 \in Byte /\ x \div 2 < 128
           /\ \A p \in Powers \ {128} : Bit(x \div 2, p) = Bit(x, 2 * p)
           /\ Bit(x \div 2, 128) = 0
BY SMTT(60) DEF Bit, Byte, Powers

\* |= 0x80 sets the high bit and leaves the others.
LEMMA HighBit ==
    ASSUME NEW x \in Byte, x < 128
    PROVE  /\ x + 128 \in Byte
           /\ \A p \in Powers \ {128} : Bit(x + 128, p) = Bit(x, p)
           /\ Bit(x + 128, 128) = 1
BY SMTT(60) DEF Bit, Byte, Powers

\* A byte is known by its bits.
LEMMA SameBits ==
    ASSUME NEW x \in Byte, NEW y \in Byte, \A p \in Powers : Bit(x, p) = Bit(y, p)
    PROVE  x = y
<1>1. /\ Bit(x, 1) = Bit(y, 1) /\ Bit(x, 2) = Bit(y, 2) /\ Bit(x, 4) = Bit(y, 4)
      /\ Bit(x, 8) = Bit(y, 8) /\ Bit(x, 16) = Bit(y, 16) /\ Bit(x, 32) = Bit(y, 32)
      /\ Bit(x, 64) = Bit(y, 64) /\ Bit(x, 128) = Bit(y, 128)
  BY DEF Powers
<1> QED BY <1>1, Expansion

\* ^ works bit by bit.
LEMMA XorBit ==
    ASSUME NEW c \in Byte, NEW b \in Byte
    PROVE  /\ XorByte[c][b] \in Byte
           /\ \A p \in Powers : Bit(XorByte[c][b], p) = (Bit(c, p) + Bit(b, p)) % 2
<1> DEFINE D(p) == (Bit(c, p) + Bit(b, p)) % 2
<1>1. \A p \in Powers : D(p) \in {0, 1} /\ Differ(c, b, p) = p * D(p)
  <2> SUFFICES ASSUME NEW p \in Powers PROVE D(p) \in {0, 1} /\ Differ(c, b, p) = p * D(p)
    OBVIOUS
  <2>1. D(p) \in {0, 1}
    BY BitRange DEF Byte
  <2>2. Differ(c, b, p) = p * D(p)
    BY BitSum DEF Differ
  <2> QED BY <2>1, <2>2
<1>2. XorByte[c][b] = Differ(c, b, 1) + Differ(c, b, 2) + Differ(c, b, 4) + Differ(c, b, 8)
            + Differ(c, b, 16) + Differ(c, b, 32) + Differ(c, b, 64) + Differ(c, b, 128)
  BY DEF XorByte
<1> HIDE DEF D
<1>3. /\ D(1) \in {0, 1} /\ D(2) \in {0, 1} /\ D(4) \in {0, 1} /\ D(8) \in {0, 1}
      /\ D(16) \in {0, 1} /\ D(32) \in {0, 1} /\ D(64) \in {0, 1} /\ D(128) \in {0, 1}
  BY <1>1 DEF Powers
<1>4. XorByte[c][b] = 1 * D(1) + 2 * D(2) + 4 * D(4) + 8 * D(8) + 16 * D(16) + 32 * D(32)
                        + 64 * D(64) + 128 * D(128)
  BY <1>1, <1>2 DEF Powers
<1>5. XorByte[c][b] \in Byte /\ \A p \in Powers : Bit(XorByte[c][b], p) = D(p)
  BY <1>3, <1>4, Binary DEF Powers
<1> QED BY <1>5 DEF D

\* ^ with zero changes nothing, and ^ is one-to-one in each argument.
LEMMA XorCancels ==
    ASSUME NEW c \in Byte, NEW b \in Byte
    PROVE  /\ XorByte[c][0] = c
           /\ XorByte[0][b] = b
           /\ \A d \in Byte : XorByte[c][b] = XorByte[c][d] => b = d
           /\ \A d \in Byte : XorByte[b][c] = XorByte[d][c] => b = d
<1>0. 0 \in Byte /\ \A p \in Powers : Bit(0, p) = 0
  BY DEF Byte, Bit, Powers
<1>1. \A x \in Byte, p \in Powers : Bit(x, p) \in {0, 1}
  BY BitRange DEF Byte
<1>2. XorByte[c][0] = c
  BY <1>0, <1>1, XorBit, SameBits
<1>3. XorByte[0][b] = b
  BY <1>0, <1>1, XorBit, SameBits
<1>4. ASSUME NEW d \in Byte, XorByte[c][b] = XorByte[c][d] PROVE b = d
  <2>1. \A p \in Powers : (Bit(c, p) + Bit(b, p)) % 2 = (Bit(c, p) + Bit(d, p)) % 2
    BY <1>4, XorBit
  <2>2. \A p \in Powers : Bit(b, p) = Bit(d, p)
    BY <1>1, <2>1
  <2> QED BY <2>2, SameBits
<1>5. ASSUME NEW d \in Byte, XorByte[b][c] = XorByte[d][c] PROVE b = d
  <2>1. \A p \in Powers : (Bit(b, p) + Bit(c, p)) % 2 = (Bit(d, p) + Bit(c, p)) % 2
    BY <1>5, XorBit
  <2>2. \A p \in Powers : Bit(b, p) = Bit(d, p)
    BY <1>1, <2>1
  <2> QED BY <2>2, SameBits
<1> QED BY <1>2, <1>3, <1>4, <1>5

\* The bits of a byte after one turn: all move down by one, and when the bit
\* that is moved out is 1, those of the polynomial flip.
Moved(c, o, p) == (Bit(c, 2 * p) + o * Bit(24, 2 * p)) % 2
ShiftedTo(y, c, o) ==
    y \in Byte /\ Bit(y, 128) = o /\ \A p \in Powers \ {128} : Bit(y, p) = Moved(c, o, p)

\* A turn of calcrc_1byte moves out the lowest bit of crc_1byte ^ abyte.
LEMMA ShiftBits ==
    ASSUME NEW c \in Byte, NEW t \in {0, 1}
    PROVE  ShiftedTo(Shift(c, t), c, (Bit(c, 1) + t) % 2)
<1>0. t \in Byte /\ 24 \in Byte /\ Bit(t, 1) = t /\ 1 \in Powers
  BY DEF Byte, Bit, Powers
<1>1. \A x \in Byte : x % 2 = Bit(x, 1)
  BY DEF Byte, Bit
<1>2. XorByte[c][t] % 2 = (Bit(c, 1) + t) % 2
  <2>1. XorByte[c][t] \in Byte /\ Bit(XorByte[c][t], 1) = (Bit(c, 1) + Bit(t, 1)) % 2
    BY <1>0, XorBit
  <2> QED BY <1>0, <1>1, <2>1
<1>3. \A p \in Powers \ {128} : 2 * p \in Powers
  BY DEF Powers
<1>4. \A p \in Powers : Bit(c, p) \in {0, 1} /\ Bit(24, p) \in {0, 1}
  BY BitRange DEF Byte
<1>5. CASE (Bit(c, 1) + t) % 2 = 1
  <2>0. PICK x : x = XorByte[c][24]
    OBVIOUS
  <2>1. x \in Byte /\ \A p \in Powers : Bit(x, p) = (Bit(c, p) + Bit(24, p)) % 2
    BY <1>0, <2>0, XorBit
  <2>2. Shift(c, t) = (x \div 2) + 128
    BY <1>2, <1>5, <2>0 DEF Shift
  <2>3. Shift(c, t) \in Byte /\ Bit(Shift(c, t), 128) = 1
    BY <2>1, <2>2, HalfBit, HighBit
  <2>4. \A p \in Powers \ {128} : Bit(Shift(c, t), p) = (Bit(c, 2 * p) + Bit(24, 2 * p)) % 2
    BY <1>3, <2>1, <2>2, HalfBit, HighBit
  <2> QED BY <1>3, <1>4, <1>5, <2>3, <2>4 DEF ShiftedTo, Moved
<1>6. CASE (Bit(c, 1) + t) % 2 = 0
  <2>1. Shift(c, t) = c \div 2
    BY <1>2, <1>6 DEF Shift
  <2>2. Shift(c, t) \in Byte /\ Bit(Shift(c, t), 128) = 0
    BY <2>1, HalfBit
  <2>3. \A p \in Powers \ {128} : Bit(Shift(c, t), p) = Bit(c, 2 * p)
    BY <2>1, HalfBit
  <2> QED BY <1>3, <1>4, <1>6, <2>2, <2>3 DEF ShiftedTo, Moved
<1>7. (Bit(c, 1) + t) % 2 \in {0, 1}
  BY <1>0, <1>4
<1> QED BY <1>5, <1>6, <1>7

\* A turn in which abyte has no more bits is one-to-one: the high bit tells whether
\* the polynomial was applied.
LEMMA EmptyTurn ==
    /\ \A x \in Byte : Shift(x, 0) \in Byte
    /\ \A x, y \in Byte : Shift(x, 0) = Shift(y, 0) => x = y
<1>0. \A x \in Byte, p \in Powers : Bit(x, p) \in {0, 1}
  BY BitRange DEF Byte
<1>1. \A x \in Byte : ShiftedTo(Shift(x, 0), x, Bit(x, 1))
  <2>1. 1 \in Powers
    BY DEF Powers
  <2>2. \A x \in Byte : (Bit(x, 1) + 0) % 2 = Bit(x, 1)
    BY <1>0, <2>1
  <2> QED BY <2>2, ShiftBits
<1>2. ASSUME NEW x \in Byte, NEW y \in Byte, Shift(x, 0) = Shift(y, 0) PROVE x = y
  <2>1. Bit(x, 1) = Bit(y, 1)
    BY <1>1, <1>2 DEF ShiftedTo
  <2>2. 24 \in Byte /\ 1 \in Powers /\ \A p \in Powers \ {128} : 2 * p \in Powers
    BY DEF Byte, Powers
  <2>3. \A p \in Powers \ {128} : Moved(x, Bit(x, 1), p) = Moved(y, Bit(x, 1), p)
    BY <1>1, <1>2, <2>1 DEF ShiftedTo
  <2>4. \A p \in Powers \ {128} : Bit(x, 2 * p) = Bit(y, 2 * p)
    <3> SUFFICES ASSUME NEW p \in Powers \ {128} PROVE Bit(x, 2 * p) = Bit(y, 2 * p)
      OBVIOUS
    <3>1. /\ Bit(x, 1) \in {0, 1} /\ Bit(24, 2 * p) \in {0, 1}
          /\ Bit(x, 2 * p) \in {0, 1} /\ Bit(y, 2 * p) \in {0, 1}
      BY <1>0, <2>2
    <3> QED BY <2>3, <3>1 DEF Moved
  <2>5. \A p \in Powers \ {1} : \E q \in Powers \ {128} : p = 2 * q
    BY DEF Powers
  <2>6. \A p \in Powers : Bit(x, p) = Bit(y, p)
    BY <2>1, <2>4, <2>5
  <2> QED BY <2>6, SameBits
<1> QED BY <1>1, <1>2 DEF ShiftedTo

\* Taking the bits of abyte one by one is the same as taking them all at once: what
\* is left of w can be joined to the CRC before the turn or after it.
LEMMA TurnIsShift ==
    ASSUME NEW c \in Byte, NEW w \in Byte
    PROVE  /\ Shift(c, w % 2) \in Byte
           /\ XorByte[Shift(c, w % 2)][w \div 2] = Shift(XorByte[c][w], 0)
<1>0. w % 2 = Bit(w, 1) /\ w % 2 \in {0, 1} /\ w \div 2 \in Byte /\ 24 \in Byte
  BY DEF Byte, Bit
<1>1. \A x \in Byte, p \in Powers : Bit(x, p) \in {0, 1}
  BY BitRange DEF Byte
<1>2. PICK x : x = XorByte[c][w]
  OBVIOUS
<1>3. x \in Byte /\ \A p \in Powers : Bit(x, p) = (Bit(c, p) + Bit(w, p)) % 2
  BY <1>2, XorBit
<1>4. PICK o : o = (Bit(c, 1) + Bit(w, 1)) % 2
  OBVIOUS
<1>5. 1 \in Powers /\ 128 \in Powers /\ \A p \in Powers \ {128} : 2 * p \in Powers
  BY DEF Powers
<1>6. o \in {0, 1} /\ (Bit(x, 1) + 0) % 2 = o
  BY <1>1, <1>3, <1>4, <1>5
<1>7. PICK y : y = Shift(c, w % 2)
  OBVIOUS
<1>8. ShiftedTo(y, c, o)
  BY <1>0, <1>4, <1>7, ShiftBits
<1>9. PICK z : z = Shift(x, 0)
  OBVIOUS
<1>10. ShiftedTo(z, x, o)
  BY <1>3, <1>6, <1>9, ShiftBits
<1>11. PICK v : v = XorByte[y][w \div 2]
  OBVIOUS
<1>12. v \in Byte /\ \A p \in Powers : Bit(v, p) = (Bit(y, p) + Bit(w \div 2, p)) % 2
  BY <1>0, <1>8, <1>11, XorBit DEF ShiftedTo
<1>13. Bit(v, 128) = Bit(z, 128)
  <2>1. Bit(y, 128) = o /\ Bit(z, 128) = o /\ Bit(w \div 2, 128) = 0
    BY <1>8, <1>10, HalfBit DEF ShiftedTo
  <2> QED BY <1>5, <1>6, <1>12, <2>1
<1>14. ASSUME NEW p \in Powers \ {128} PROVE Bit(v, p) = Bit(z, p)
  <2>1. Bit(y, p) = Moved(c, o, p) /\ Bit(z, p) = Moved(x, o, p) /\ Bit(w \div 2, p) = Bit(w, 2 * p)
    BY <1>8, <1>10, HalfBit DEF ShiftedTo
  <2>2. Bit(c, 2 * p) \in {0, 1} /\ Bit(w, 2 * p) \in {0, 1} /\ Bit(24, 2 * p) \in {0, 1}
    BY <1>0, <1>1, <1>5
  <2>3. Bit(x, 2 * p) = (Bit(c, 2 * p) + Bit(w, 2 * p)) % 2
    BY <1>3, <1>5
  <2>4. Bit(v, p) = (Moved(c, o, p) + Bit(w, 2 * p)) % 2
    BY <1>12, <2>1
  <2>5. (Moved(c, o, p) + Bit(w, 2 * p)) % 2 = Moved(x, o, p)
    BY <1>6, <2>2, <2>3 DEF Moved
  <2> QED BY <2>1, <2>4, <2>5
<1>15. v = z
  <2>1. \A p \in Powers : Bit(v, p) = Bit(z, p)
    BY <1>13, <1>14
  <2> QED BY <1>10, <1>12, <2>1, SameBits DEF ShiftedTo
<1> QED BY <1>2, <1>7, <1>8, <1>9, <1>11, <1>15 DEF ShiftedTo

\* Eight turns, each of which is a step of x to Shift(x, 0).
Turns(u, x) == u \in [0 .. 8 -> Byte] /\ u[0] = x /\ \A i \in 1 .. 8 : u[i] = Shift(u[i - 1], 0)

\* calcrc_1byte(abyte) is eight such turns from abyte.
LEMMA EightTurns ==
    ASSUME NEW abyte \in Byte
    PROVE  \E u : Turns(u, abyte) /\ calcrc_1byte[abyte] = u[8]
<1> DEFINE w == [i \in 0 .. 8 |-> abyte \div 2^i]
<1>1. /\ w[0] = abyte /\ w[8] = 0
      /\ \A i \in 1 .. 8 : w[i - 1] \in Byte /\ w[i] \in Byte /\ w[i] = w[i - 1] \div 2
  <2>1. /\ w[0] = abyte /\ w[1] = abyte \div 2 /\ w[2] = abyte \div 4 /\ w[3] = abyte \div 8
        /\ w[4] = abyte \div 16 /\ w[5] = abyte \div 32 /\ w[6] = abyte \div 64
        /\ w[7] = abyte \div 128 /\ w[8] = abyte \div 256
    <3>1. /\ 2^0 = 1 /\ 2^1 = 2 /\ 2^2 = 4 /\ 2^3 = 8 /\ 2^4 = 16
          /\ 2^5 = 32 /\ 2^6 = 64 /\ 2^7 = 128 /\ 2^8 = 256
      OBVIOUS
    <3>2. /\ w[0] = abyte \div 2^0 /\ w[1] = abyte \div 2^1 /\ w[2] = abyte \div 2^2
          /\ w[3] = abyte \div 2^3 /\ w[4] = abyte \div 2^4 /\ w[5] = abyte \div 2^5
          /\ w[6] = abyte \div 2^6 /\ w[7] = abyte \div 2^7 /\ w[8] = abyte \div 2^8
      OBVIOUS
    <3>3. abyte \div 1 = abyte
      BY DEF Byte
    <3> HIDE DEF w
    <3> QED BY <3>1, <3>2, <3>3
  <2> HIDE DEF w
  <2>2. \A i \in 1 .. 8 : i \in {1, 2, 3, 4, 5, 6, 7, 8}
    OBVIOUS
  <2>3. w[0] = abyte /\ w[8] = 0
    BY <2>1 DEF Byte
  <2>4. /\ w[0] \in Byte /\ w[1] \in Byte /\ w[2] \in Byte /\ w[3] \in Byte /\ w[4] \in Byte
        /\ w[5] \in Byte /\ w[6] \in Byte /\ w[7] \in Byte /\ w[8] \in Byte
    BY <2>1 DEF Byte
  <2>5. /\ w[1] = w[0] \div 2 /\ w[2] = w[1] \div 2 /\ w[3] = w[2] \div 2 /\ w[4] = w[3] \div 2
        /\ w[5] = w[4] \div 2 /\ w[6] = w[5] \div 2 /\ w[7] = w[6] \div 2 /\ w[8] = w[7] \div 2
    BY <2>1 DEF Byte
  <2>6. /\ 1 - 1 = 0 /\ 2 - 1 = 1 /\ 3 - 1 = 2 /\ 4 - 1 = 3
        /\ 5 - 1 = 4 /\ 6 - 1 = 5 /\ 7 - 1 = 6 /\ 8 - 1 = 7
    OBVIOUS
  <2>7. ASSUME NEW i \in 1 .. 8
        PROVE  w[i - 1] \in Byte /\ w[i] \in Byte /\ w[i] = w[i - 1] \div 2
    <3>1. CASE i \in {1, 2, 3, 4}
      BY <2>4, <2>5, <2>6, <3>1, Zenon
    <3>2. CASE i \in {5, 6, 7, 8}
      BY <2>4, <2>5, <2>6, <3>2, Zenon
    <3> QED BY <2>2, <3>1, <3>2
  <2> QED BY <2>3, <2>7
<1>2. \A i \in 1 .. 8 : BitLoop(abyte)[i] = [c \in Byte |-> Shift(c, w[i - 1] % 2)]
  <2> SUFFICES ASSUME NEW i \in 1 .. 8
               PROVE  BitLoop(abyte)[i] = [c \in Byte |-> Shift(c, w[i - 1] % 2)]
    OBVIOUS
  <2>1. i - 1 \in 0 .. 8
    OBVIOUS
  <2>2. w[i - 1] = abyte \div 2^(i - 1)
    BY <2>1, Zenon
  <2>3. BitLoop(abyte)[i] = [c \in Byte |-> Shift(c, (abyte \div 2^(i - 1)) % 2)]
    BY Zenon DEF BitLoop
  <2> HIDE DEF w
  <2> QED BY <2>2, <2>3, Zenon
<1>3. BitLoop(abyte) = [i \in 1 .. 8 |-> BitLoop(abyte)[i]] /\ Len(BitLoop(abyte)) = 8
  BY DEF BitLoop
<1> HIDE DEF w
<1>4. BitLoop(abyte) \in [1 .. 8 -> [Byte -> Byte]]
  <2>1. \A i \in 1 .. 8 : \A c \in Byte : Shift(c, w[i - 1] % 2) \in Byte
    BY <1>1, TurnIsShift
  <2>2. \A i \in 1 .. 8 : BitLoop(abyte)[i] \in [Byte -> Byte]
    BY <1>2, <2>1
  <2> QED BY <1>3, <2>2
<1>5. PICK f : Iterates(f, 8, Byte, 0, BitLoop(abyte)) /\ Loop(BitLoop(abyte)) = f[8]
  BY <1>3, <1>4, LoopFacts
<1>6. f \in [0 .. 8 -> Byte] /\ f[0] = 0 /\ \A i \in 1 .. 8 : f[i] = Shift(f[i - 1], w[i - 1] % 2)
  BY <1>2, <1>5 DEF Iterates
<1>7. PICK u : u = [i \in 0 .. 8 |-> XorByte[f[i]][w[i]]]
  OBVIOUS
<1>8. \A i \in 0 .. 8 : w[i] \in Byte
  <2>1. \A i \in 0 .. 8 : i = 0 \/ i \in 1 .. 8
    OBVIOUS
  <2> QED BY <1>1, <2>1
<1>9. u \in [0 .. 8 -> Byte]
  BY <1>6, <1>7, <1>8, XorBit
<1>10. u[0] = abyte /\ u[8] = f[8]
  BY <1>1, <1>6, <1>7, XorCancels
<1>11. ASSUME NEW i \in 1 .. 8 PROVE u[i] = Shift(u[i - 1], 0)
  <2>1. i \in 0 .. 8 /\ i - 1 \in 0 .. 8
    OBVIOUS
  <2>2. f[i - 1] \in Byte /\ w[i - 1] \in Byte /\ u[i - 1] = XorByte[f[i - 1]][w[i - 1]]
    BY <1>6, <1>7, <1>8, <2>1
  <2>3. u[i] = XorByte[Shift(f[i - 1], w[i - 1] % 2)][w[i - 1] \div 2]
    BY <1>1, <1>6, <1>7, <2>1
  <2> QED BY <2>2, <2>3, TurnIsShift
<1>12. calcrc_1byte[abyte] = Loop(BitLoop(abyte))
  BY DEF calcrc_1byte
<1> QED BY <1>5, <1>9, <1>10, <1>11, <1>12 DEF Turns

\* calcrc_1byte is one-to-one on bytes.
LEMMA CrcByteFacts ==
    /\ \A x \in Byte : calcrc_1byte[x] \in Byte
    /\ \A x, y \in Byte : calcrc_1byte[x] = calcrc_1byte[y] => x = y
<1>1. \A x \in Byte : calcrc_1byte[x] \in Byte
  BY EightTurns DEF Turns
<1>2. ASSUME NEW x \in Byte, NEW y \in Byte, x # y PROVE calcrc_1byte[x] # calcrc_1byte[y]
  <2>1. PICK u : Turns(u, x) /\ calcrc_1byte[x] = u[8]
    BY EightTurns
  <2>2. PICK v : Turns(v, y) /\ calcrc_1byte[y] = v[8]
    BY EightTurns
  <2> DEFINE G == {i \in 0 .. 8 : u[i] # v[i]}
  <2>3. 0 \in G
    BY <1>2, <2>1, <2>2 DEF Turns
  <2>4. ASSUME NEW i \in 0 .. 8 - 1, i \in G PROVE i + 1 \in G
    <3>1. i + 1 \in 1 .. 8 /\ i + 1 \in 0 .. 8 /\ (i + 1) - 1 = i
      OBVIOUS
    <3>2. u[i] \in Byte /\ v[i] \in Byte /\ u[i + 1] = Shift(u[i], 0) /\ v[i + 1] = Shift(v[i], 0)
      BY <2>1, <2>2, <3>1 DEF Turns
    <3>3. u[i + 1] # v[i + 1]
      BY <2>4, <3>2, EmptyTurn
    <3> QED BY <3>1, <3>3
  <2>5. \A i \in 0 .. 8 - 1 : i \in G => i + 1 \in G
    BY <2>4
  <2> HIDE DEF G
  <2>6. \A i \in 0 .. 8 : i \in G
    BY <2>3, <2>5, UpTo
  <2> USE DEF G
  <2> QED BY <2>1, <2>2, <2>6
<1> QED BY <1>1, <1>2

\* The CRC after each byte of s.
Running(f, s) ==
    /\ f \in [0 .. Len(s) -> Byte] /\ f[0] = 0
    /\ \A i \in 1 .. Len(s) : f[i] = calcrc_1byte[XorByte[f[i - 1]][s[i]]]

\* calcrc_bytes is the last of them.
LEMMA CrcBytesFacts ==
    ASSUME NEW s \in Seq(Byte)
    PROVE  \E f : Running(f, s) /\ calcrc_bytes(s) = f[Len(s)]
<1>1. Len(s) \in Nat /\ \A i \in 1 .. Len(s) : s[i] \in Byte
  OBVIOUS
<1>2. ByteLoop(s) \in [1 .. Len(s) -> [Byte -> Byte]] /\ Len(ByteLoop(s)) = Len(s)
  <2>1. \A i \in 1 .. Len(s) : \A c \in Byte : calcrc_1byte[XorByte[c][s[i]]] \in Byte
    BY <1>1, XorBit, CrcByteFacts
  <2> QED BY <1>1, <2>1 DEF ByteLoop
<1>3. PICK f : Iterates(f, Len(s), Byte, 0, ByteLoop(s)) /\ Loop(ByteLoop(s)) = f[Len(s)]
  BY <1>1, <1>2, LoopFacts
<1>4. /\ f \in [0 .. Len(s) -> Byte] /\ f[0] = 0
      /\ \A i \in 1 .. Len(s) : f[i] = ByteLoop(s)[i][f[i - 1]]
  BY <1>3 DEF Iterates
<1>5. ASSUME NEW i \in 1 .. Len(s) PROVE f[i] = calcrc_1byte[XorByte[f[i - 1]][s[i]]]
  <2>1. i - 1 \in 0 .. Len(s)
    BY <1>1
  <2>2. f[i - 1] \in Byte
    BY <1>4, <2>1
  <2>3. ByteLoop(s)[i][f[i - 1]] = calcrc_1byte[XorByte[f[i - 1]][s[i]]]
    BY <2>2 DEF ByteLoop
  <2> QED BY <1>4, <2>3
<1>6. calcrc_bytes(s) = f[Len(s)]
  BY <1>3 DEF calcrc_bytes
<1> QED BY <1>4, <1>5, <1>6 DEF Running

\* A damaged byte changes the CRC, and no later byte hides it.
LEMMA DamageShows ==
    ASSUME NEW s \in Seq(Byte), NEW k \in 1 .. Len(s), NEW b \in Byte, b # s[k]
    PROVE  calcrc_bytes([s EXCEPT ![k] = b]) # calcrc_bytes(s)
<1>1. PICK t : t = [s EXCEPT ![k] = b]
  OBVIOUS
<1>2. /\ t \in Seq(Byte) /\ Len(t) = Len(s) /\ t[k] = b
      /\ \A i \in 1 .. Len(s) : s[i] \in Byte /\ t[i] \in Byte /\ (i # k => t[i] = s[i])
  BY <1>1
<1>3. PICK f : Running(f, s) /\ calcrc_bytes(s) = f[Len(s)]
  BY CrcBytesFacts
<1>4. PICK g : Running(g, t) /\ calcrc_bytes(t) = g[Len(s)]
  BY <1>2, CrcBytesFacts
<1> DEFINE G == {i \in 0 .. Len(s) : (i < k => f[i] = g[i]) /\ (i >= k => f[i] # g[i])}
<1>5. 0 \in G
  BY <1>2, <1>3, <1>4 DEF Running
<1>6. ASSUME NEW i \in 0 .. Len(s) - 1, i \in G PROVE i + 1 \in G
  <2>1. i + 1 \in 1 .. Len(s) /\ i + 1 \in 0 .. Len(s) /\ (i + 1) - 1 = i
    OBVIOUS
  <2>2. /\ f[i] \in Byte /\ f[i + 1] = calcrc_1byte[XorByte[f[i]][s[i + 1]]]
        /\ g[i] \in Byte /\ g[i + 1] = calcrc_1byte[XorByte[g[i]][t[i + 1]]]
    BY <1>2, <1>3, <1>4, <2>1 DEF Running
  <2>3. s[i + 1] \in Byte /\ t[i + 1] \in Byte
    BY <1>2, <2>1
  <2>4. CASE i + 1 < k
    <3>1. f[i] = g[i] /\ s[i + 1] = t[i + 1]
      BY <1>2, <1>6, <2>1, <2>4
    <3>2. f[i + 1] = g[i + 1]
      BY <2>2, <3>1
    <3> QED BY <2>1, <2>4, <3>2
  <2>5. CASE i + 1 = k
    <3>1. f[i] = g[i] /\ s[i + 1] # t[i + 1]
      BY <1>2, <1>6, <2>1, <2>5
    <3>2. XorByte[f[i]][s[i + 1]] # XorByte[g[i]][t[i + 1]]
      BY <2>2, <2>3, <3>1, XorCancels
    <3>3. f[i + 1] # g[i + 1]
      BY <2>2, <2>3, <3>2, XorBit, CrcByteFacts
    <3> QED BY <2>1, <2>5, <3>3
  <2>6. CASE i + 1 > k
    <3>0. i >= k /\ i + 1 # k
      BY <2>6
    <3>1. f[i] # g[i] /\ s[i + 1] = t[i + 1]
      BY <1>2, <1>6, <2>1, <3>0
    <3>2. XorByte[f[i]][s[i + 1]] # XorByte[g[i]][t[i + 1]]
      BY <2>2, <2>3, <3>1, XorCancels
    <3>3. f[i + 1] # g[i + 1]
      BY <2>2, <2>3, <3>2, XorBit, CrcByteFacts
    <3> QED BY <2>1, <2>6, <3>3
  <2> QED BY <2>4, <2>5, <2>6
<1>7. \A i \in 0 .. Len(s) - 1 : i \in G => i + 1 \in G
  BY <1>6
<1> HIDE DEF G
<1>8. \A i \in 0 .. Len(s) : i \in G
  <2>1. Len(s) \in Nat
    OBVIOUS
  <2> QED BY <1>5, <1>7, <2>1, UpTo
<1> USE DEF G
<1>9. Len(s) \in 0 .. Len(s) /\ Len(s) >= k
  OBVIOUS
<1> QED BY <1>1, <1>3, <1>4, <1>8, <1>9

\* deal_with_indata refuses every packet of which one byte of the data domain was
\* changed on the line, for every message and domain size.
THEOREM OneByteIsDetected == Spec => []OneByteDetected
<1>1. IInv => OneByteDetected
  <2> SUFFICES ASSUME IInv, NEW i \in DOMAIN data, NEW b \in Byte \ {data[i]}
               PROVE  ~Accepts([data EXCEPT ![i] = b], CrcBytes)
    BY DEF OneByteDetected
  <2>1. data \in Seq(Byte)
    BY DEF IInv, CodecTypeOK
  <2>2. i \in 1 .. Len(data)
    BY <2>1
  <2>3. calcrc_bytes([data EXCEPT ![i] = b]) # calcrc_bytes(data)
    BY <2>1, <2>2, DamageShows
  <2>4. Unpacked(CrcBytes) = calcrc_bytes(data)
    BY PackedFacts DEF CrcBytes
  <2> QED BY <2>3, <2>4 DEF Accepts
<1> QED BY <1>1, CodecInit, CodecStep, PTL DEF Spec
=============================================================================
