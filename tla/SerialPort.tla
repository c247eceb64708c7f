----------------------------- MODULE SerialPort -----------------------------
(***************************************************************************)
(* One direction of the serial line, in bytes: write_port with its three   *)
(* attempts (tty/tty_proto.c), and thread_rx of link/link_proto.c, which   *)
(* looks for packets in whatever the reads bring, with check_buffer and    *)
(* get_data_head.  The same port carries the four-byte commands of         *)
(* hw_led_on and hw_led_off.  mutex_tx_buf keeps one write from another.   *)
(*                                                                         *)
(* A packet is START, the id/cmd/num byte, the length of the data, two CRC *)
(* bytes and the data; no byte but the length may be START.  The CRC is    *)
(* taken to be perfect (see Crc8).  Sizes and byte values are parameters   *)
(* so that the buffer can be small.                                        *)
(***************************************************************************)
EXTENDS Integers, Sequences

CONSTANTS
    PRO_MAX_BUFFER_SIZE,  \* 255
    START,                \* PRO_PKT_START_CHAR (0xAA)
    ValidIds,             \* id/cmd/num bytes get_data_head lets through
    Packets,              \* the packets that are sent
    Leds,                 \* the LED commands that are sent
    Faults,               \* "short": write fails; "lose": the line loses a byte;
                          \* "read": read fails
    MaxFaults,            \* bound on these
    MaxWire               \* bound on the bytes under way

HeaderLen == 5            \* sizeof(struct data_info_header)

ASSUME PortAssumption ==
    /\ PRO_MAX_BUFFER_SIZE \in Nat /\ PRO_MAX_BUFFER_SIZE >= HeaderLen
    /\ Packets \subseteq Seq(Nat) /\ Leds \subseteq Seq(Nat)
    /\ \A p \in Packets : /\ p[1] = START /\ p[2] \in ValidIds
                          /\ Len(p) = p[3] + HeaderLen
                          /\ HeaderLen <= Len(p) /\ Len(p) <= PRO_MAX_BUFFER_SIZE
                          /\ \A i \in 2 .. Len(p) : p[i] = START => i = 3
    /\ \A l \in Leds : \A i \in DOMAIN l : l[i] # START
    /\ START \notin ValidIds

VARIABLES
    wpc, writing, times,  \* write_port: where it is, its buffer, its counter
    wire,                 \* the bytes under way
    read_buffer,          \* thread_rx: the first len bytes of its buffer
    verdict,              \* what its last iteration made of a packet
    clean,                \* a packet written with nothing unfinished before it
    faults
vars == <<wpc, writing, times, wire, read_buffer, verdict, clean, faults>>
writer == <<wpc, writing, times>>

Init ==
    /\ wpc = "idle" /\ writing = <<>> /\ times = 0
    /\ wire = <<>>
    /\ read_buffer = <<>>
    /\ verdict = "none"
    /\ clean = <<>>
    /\ faults = 0

NoStartIn(s) == \A i \in DOMAIN s : s[i] # START
BeginsWith(s, t) == Len(t) <= Len(s) /\ SubSeq(s, 1, Len(t)) = t
Prefixes(s) == {SubSeq(s, 1, n) : n \in 0 .. Len(s)}
Suffixes(s) == {SubSeq(s, n, Len(s)) : n \in 1 .. Len(s) + 1}

-----------------------------------------------------------------------------
(***************************************************************************)
(* write_port.                                                             *)
(***************************************************************************)

WriteStart(buf) ==
    /\ wpc = "idle"
    /\ Len(wire) + Len(buf) <= MaxWire
    /\ wpc' = "loop"
    /\ writing' = buf
    /\ times' = 3
    /\ UNCHANGED <<wire, read_buffer, verdict, clean, faults>>

\* send_data_to_other, send_answer_packet and send_answer_nack.
SendPacket == \E p \in Packets : WriteStart(p)

\* hw_led_on and hw_led_off, which no start character precedes.
SetLed == \E l \in Leds : WriteStart(l)

WriteOk ==
    /\ wpc = "loop" /\ times > 0
    /\ times' = times - 1
    /\ wire' = wire \o writing
    /\ clean' = IF writing \in Packets /\ NoStartIn(read_buffer \o wire) THEN writing ELSE clean
    /\ wpc' = "return"
    /\ UNCHANGED <<writing, read_buffer, verdict, faults>>

\* tcflush(TCOFLUSH) takes back what has not left the output queue yet, older
\* bytes included.
Flushed(s) ==
    /\ wire' \in Prefixes(s)
    /\ clean' = IF Len(wire') < Len(wire) THEN <<>> ELSE clean

WriteShort ==
    /\ "short" \in Faults /\ faults < MaxFaults
    /\ wpc = "loop" /\ times > 0
    /\ faults' = faults + 1
    /\ times' = times - 1
    /\ Flushed(wire \o SubSeq(writing, 1, Len(writing) - 1))
    /\ UNCHANGED <<wpc, writing, read_buffer, verdict>>

\* while(times--) ends with times at -1.
WriteExhausted ==
    /\ wpc = "loop" /\ times = 0
    /\ times' = -1
    /\ wpc' = "return"
    /\ UNCHANGED <<writing, wire, read_buffer, verdict, clean, faults>>

\* if( 0 == times) it flushes again and returns -1.
WriteReturn ==
    /\ wpc = "return"
    /\ wpc' = "idle"
    /\ \/ times = 0 /\ Flushed(wire)
       \/ times # 0 /\ UNCHANGED <<wire, clean>>
    /\ UNCHANGED <<writing, times, read_buffer, verdict, faults>>

LineLosesByte ==
    /\ "lose" \in Faults /\ faults < MaxFaults
    /\ faults' = faults + 1
    /\ \E i \in DOMAIN wire : wire' = SubSeq(wire, 1, i - 1) \o SubSeq(wire, i + 1, Len(wire))
    /\ clean' = <<>>
    /\ UNCHANGED <<writer, read_buffer, verdict>>

-----------------------------------------------------------------------------
(***************************************************************************)
(* thread_rx.                                                              *)
(***************************************************************************)

\* check_buffer: from the first start character on.
FromStart(s) ==
    IF NoStartIn(s) THEN <<>>
    ELSE LET i == CHOOSE i \in DOMAIN s : s[i] = START /\ NoStartIn(SubSeq(s, 1, i - 1))
         IN  SubSeq(s, i, Len(s))

\* get_data_head failed: read_buffer[0] = 0x00, so that the next search goes on
\* behind it.
WrongRejected(buf) == buf

Rejected(buf) == [buf EXCEPT ![1] = 0]

\* Enough bytes for the length in the header.
WrongHasPacket(buf) == Len(buf) >= buf[3] + HeaderLen - 1

HasPacket(buf) == Len(buf) >= buf[3] + HeaderLen

\* The CRC covers the data, and its length with it, but not the id byte.
Intact(buf) == \E p \in Packets : /\ Len(buf) >= Len(p)
                                  /\ \A i \in 3 .. Len(p) : buf[i] = p[i]

\* What follows the packet in the buffer is forgotten (len = 0); when
\* deal_with_indata returns -1, for a bad CRC or for a fragment nobody waits
\* for, tcflush(TCIFLUSH) also drops what has come in.
HandlePacket(buf, rest) ==
    /\ read_buffer' = <<>>
    /\ wire' \in Suffixes(rest)
    /\ verdict' = IF Intact(buf) THEN "accept" ELSE "nak"

\* The rest of an iteration that has found the bytes s in its buffer.
Process(s, rest) ==
    LET buf == FromStart(s)
        wait(b) == read_buffer' = b /\ wire' = rest /\ verdict' = "none"
    IN  \/ Len(buf) < HeaderLen /\ wait(buf)
        \/ /\ Len(buf) >= HeaderLen
           /\ \/ buf[2] \notin ValidIds /\ wait(Rejected(buf))
              \/ buf[2] \in ValidIds /\ ~HasPacket(buf) /\ wait(buf)
              \/ buf[2] \in ValidIds /\ HasPacket(buf) /\ HandlePacket(buf, rest)

\* A read of n bytes and what it leads to.
Read(n) ==
    /\ verdict # "crash"
    /\ n <= PRO_MAX_BUFFER_SIZE - Len(read_buffer)
    /\ LET s == read_buffer \o SubSeq(wire, 1, n)
       IN  /\ Process(s, SubSeq(wire, n + 1, Len(wire)))
           /\ clean' = IF verdict' = "accept" /\ BeginsWith(FromStart(s), clean) THEN <<>> ELSE clean
    /\ UNCHANGED <<writer, faults>>

\* read() fails and its -1 is added to len: the last byte of the buffer is
\* forgotten, or check_buffer copies (size_t)-1 bytes.
ReadFails ==
    /\ "read" \in Faults /\ faults < MaxFaults
    /\ wire # <<>> /\ verdict # "crash"
    /\ faults' = faults + 1
    /\ IF read_buffer = <<>>
       THEN verdict' = "crash" /\ UNCHANGED <<wire, read_buffer>>
       ELSE Process(SubSeq(read_buffer, 1, Len(read_buffer) - 1), wire)
    /\ clean' = <<>>
    /\ UNCHANGED writer

\* A read of no bytes into a full buffer: select returns at once, for ever.
Wedged == Len(read_buffer) = PRO_MAX_BUFFER_SIZE

Spins == Wedged /\ wire # <<>> /\ UNCHANGED vars

\* The line runs full when the process has died.
Dead == verdict = "crash" /\ UNCHANGED vars

WriteStep == WriteOk \/ WriteExhausted \/ WriteReturn
ReadStep  == \E n \in DOMAIN wire : Read(n)

Next == \/ SendPacket \/ SetLed
        \/ WriteStep \/ WriteShort \/ LineLosesByte
        \/ ReadStep \/ ReadFails \/ Spins \/ Dead

Spec == Init /\ [][Next]_vars

\* Both threads are scheduled.
FairSpec == /\ Spec
            /\ WF_vars(WriteStep) /\ WF_vars(ReadStep)

-----------------------------------------------------------------------------
\* thread_rx can stop for good with a full buffer that holds no packet, but in two
\* ways only: a damaged header announces more than the buffer holds, or a header
\* was rejected when the buffer was full, so that no new byte comes that would
\* start the next search.
WedgedOnlyByHeader ==
    Wedged => \/ read_buffer[1] = 0
              \/ read_buffer[2] \in ValidIds /\ read_buffer[3] + HeaderLen > PRO_MAX_BUFFER_SIZE

\* A packet written when nothing unfinished is before it is the next thing check_buffer
\* finds in what was read and is still to be read, however the reads divide it up,
\* whatever LED commands surround it and whatever follows.  If thread_rx is wedged it
\* stays unread on the line: see WedgedOnlyByHeader.
CleanPacketArrives ==
    clean # <<>> => BeginsWith(FromStart(read_buffer \o wire), clean)

\* However failed writes, lost bytes and failed reads have put the receiver out of
\* step, and although the length of a packet may look like its beginning, it finds
\* packets again as long as they are sent, unless it is wedged or has died.
Resynchronises ==
    []<><<SendPacket>>_vars => []<>(verdict \in {"accept", "crash"} \/ Wedged)
=============================================================================
