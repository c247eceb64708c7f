-------------------------------- MODULE Crc8 --------------------------------
(***************************************************************************)
(* The check code of link/link_proto.c: calcrc_1byte and calcrc_bytes, the *)
(* two bytes pro_pack_data writes for it, and the comparison by which      *)
(* deal_with_indata decides between using a packet and a nak.  The CRC is  *)
(* over the escaped data domain, so the properties are about every data    *)
(* domain PacketCodec puts together.                                       *)
(***************************************************************************)
EXTENDS PacketCodec

\* c ^ b of two bytes, the sum of the bits in which they differ; looked up because it
\* is needed so often.
Differ(c, b, p) == p * ((c \div p + b \div p) % 2)
XorByte ==
    [c \in Byte |-> [b \in Byte |->
        Differ(c, b, 1) + Differ(c, b, 2) + Differ(c, b, 4) + Differ(c, b, 8)
            + Differ(c, b, 16) + Differ(c, b, 32) + Differ(c, b, 64) + Differ(c, b, 128)]]

WrongShift(c, bit) == IF XorByte[c][bit] % 2 = 1 THEN XorByte[c][24] \div 2 ELSE c \div 2

\* One iteration of calcrc_1byte: c is crc_1byte, bit the low bit of abyte.
Shift(c, bit) == IF XorByte[c][bit] % 2 = 1 THEN (XorByte[c][24] \div 2) + 128 ELSE c \div 2

\* A loop of Len(body) turns that begins with a CRC of 0; body[i] is its i-th turn.
Loop(body) ==
    LET after[i \in 0 .. Len(body)] == IF i = 0 THEN 0 ELSE body[i][after[i - 1]]
    IN  after[Len(body)]

\* calcrc_1byte for every byte; its turns shift abyte to the right.
BitLoop(abyte) == [i \in 1 .. 8 |-> [c \in Byte |-> Shift(c, (abyte \div 2^(i - 1)) % 2)]]
calcrc_1byte == [abyte \in Byte |-> Loop(BitLoop(abyte))]

ByteLoop(s) == [i \in 1 .. Len(s) |-> [c \in Byte |-> calcrc_1byte[XorByte[c][s[i]]]]]
calcrc_bytes(s) == Loop(ByteLoop(s))

\* The two bytes pro_pack_data writes, and what pro_unpack_pkg reads from them.
WrongPacked(c) == IF c = ZERO THEN <<ESC, F0>> ELSE <<c, c>>

Packed(c) == CASE c = ESC   -> <<ESC, ESC>>
               [] c = ZERO  -> <<ESC, F0>>
               [] c = START -> <<ESC, FA>>
               [] OTHER     -> <<c, c>>

WrongUnpacked(p) == p[1]

Unpacked(p) == IF p[1] # ESC THEN p[1] ELSE Unescaped(p[2])

\* deal_with_indata, given the data domain and the two bytes that arrived.
Accepts(recv, wire) == calcrc_bytes(recv) = Unpacked(wire)

-----------------------------------------------------------------------------
Complete == pc = "unpack" /\ rd = 0

CrcBytes == Packed(calcrc_bytes(data))

\* An undamaged packet is never refused, whatever its CRC: the escape of the
\* CRC's two bytes loses nothing.
UndamagedAccepted == Complete => Accepts(data, CrcBytes)

\* A packet whose data domain differs from what was sent in the bits of one byte is
\* always refused: calcrc_1byte is one-to-one.
OneByteDetected ==
    Complete =>
        LET wire == CrcBytes
        IN  \A i \in DOMAIN data : \A b \in Byte \ {data[i]} :
                ~Accepts([data EXCEPT ![i] = b], wire)

\* Neither the data nor the bytes sent for their CRC contain the start character or
\* zero, so that check_buffer cannot take one of them for the beginning of a packet.
DataAndCrcClean ==
    /\ NoStartCharInData
    /\ Complete => \A i \in {1, 2} : CrcBytes[i] \notin {START, ZERO}
=============================================================================
