---------------------------- MODULE PacketCodec -----------------------------
(***************************************************************************)
(* How link/link_proto.c cuts a message into packets and puts it together  *)
(* again, byte by byte: feed_data_inpacket escapes bytes into the data     *)
(* domain of a packet until it is full, pro_unpack_pkg undoes it, and      *)
(* deal_with_sof_packet and deal_with_tx_packet append the result.  Header *)
(* and CRC are in Crc8 and SerialPort, losses and retries in LinkTransfer. *)
(***************************************************************************)
EXTENDS Integers, Sequences

CONSTANTS
    Domain,    \* PRO_MAX_DATADOMAIN_SIZE (240)
    Inputs     \* the messages link_send is called with

ZERO  == 0
START == 170    \* 0xAA, TTY_DATA_HEADER
ESC   == 255    \* 0xFF
F0    == 240
FA    == 250

Byte == 0 .. 255

ASSUME DomainAssumption == Domain \in Nat \ {0, 1}
\* link_send returns early for an empty message.
ASSUME InputsAssumption == Inputs \subseteq Seq(Byte) \ {<<>>}

VARIABLES
    msg,     \* the message
    pos,     \* bytes of it fed into packets so far
    data,    \* data domain of the current packet
    rd,      \* bytes of it that pro_unpack_pkg has read
    out,     \* what the receiver has put together
    pc       \* "feed", "unpack" or "done"
vars == <<msg, pos, data, rd, out, pc>>

Init == /\ msg \in Inputs
        /\ pos = 0 /\ data = <<>> /\ rd = 0 /\ out = <<>>
        /\ pc = "feed"

\* Definitions whose names begin with Wrong are plausible mistakes; no action
\* uses them.  They serve to show that the properties would notice them.
WrongEscape(b) == IF b \in {ZERO, ESC} THEN <<ESC, IF b = ZERO THEN F0 ELSE ESC>> ELSE <<b>>

Escape(b) == CASE b = ZERO  -> <<ESC, F0>>
               [] b = ESC   -> <<ESC, ESC>>
               [] b = START -> <<ESC, FA>>
               [] OTHER     -> <<b>>

\* The byte after an escape.
WrongUnescaped(c) == IF c = F0 THEN ZERO ELSE c

Unescaped(c) == CASE c = FA -> START [] c = F0 -> ZERO [] OTHER -> c

\* The loop condition: room for a byte that needs two.
WrongRoom == Len(data) < Domain

Room == Len(data) < Domain - 1

\* One iteration of feed_data_inpacket.
FeedByte ==
    /\ pc = "feed"
    /\ Room
    /\ pos < Len(msg)
    /\ data' = data \o Escape(msg[pos + 1])
    /\ pos' = pos + 1
    /\ UNCHANGED <<msg, rd, out, pc>>

\* The packet is full or the message at its end: it goes to the receiver.
SendPacket ==
    /\ pc = "feed"
    /\ ~Room \/ pos = Len(msg)
    /\ pc' = "unpack"
    /\ UNCHANGED <<msg, pos, data, rd, out>>

\* Past its length, the receive buffer holds zeroes (or what else was read).
Peek(k) == IF k <= Len(data) THEN data[k] ELSE ZERO

\* One iteration of pro_unpack_pkg, and the append of deal_with_tx_packet.
UnpackByte ==
    /\ pc = "unpack"
    /\ rd < Len(data)
    /\ IF data[rd + 1] = ESC
       THEN out' = Append(out, Unescaped(Peek(rd + 2))) /\ rd' = rd + 2
       ELSE out' = Append(out, data[rd + 1]) /\ rd' = rd + 1
    /\ UNCHANGED <<msg, pos, data, pc>>

\* The while(data_len) loop of tx_data_info.
NextPacket ==
    /\ pc = "unpack"
    /\ rd >= Len(data)
    /\ pc' = IF pos = Len(msg) THEN "done" ELSE "feed"
    /\ data' = <<>>
    /\ rd' = 0
    /\ UNCHANGED <<msg, pos, out>>

Done == pc = "done" /\ UNCHANGED vars

Next == FeedByte \/ SendPacket \/ UnpackByte \/ NextPacket \/ Done
Spec == Init /\ [][Next]_vars

-----------------------------------------------------------------------------
\* feed_data_inpacket never writes past data[PRO_MAX_DATADOMAIN_SIZE], although
\* it tests for one free byte more than it has written and may write two.
FitsDomain == Len(data) <= Domain

\* The start character and zero never occur in a data domain.
NoStartCharInData == \A k \in DOMAIN data : data[k] \notin {START, ZERO}

\* What the receiver has is always the beginning of what is sent: between two
\* packets all that was fed so far, at the end the whole message.  No escape is
\* cut in two by the end of a packet.
Reassembles ==
    /\ pc = "feed" /\ data = <<>> => out = SubSeq(msg, 1, pos)
    /\ pc = "done" => out = msg
=============================================================================
