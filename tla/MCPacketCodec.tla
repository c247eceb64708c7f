--------------------------- MODULE MCPacketCodec ----------------------------
(* All messages of up to MaxLen bytes over the bytes that matter, and enough *)
(* of two bytes for every check code to occur.                               *)
EXTENDS Crc8

CONSTANTS Alphabet, MaxLen

AllMessages == UNION {[1 .. n -> Alphabet] : n \in 1 .. MaxLen}
                   \union {<<a, b>> : a \in {1, 238}, b \in Byte}
=============================================================================
