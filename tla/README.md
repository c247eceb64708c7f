# The board protocol of `third_party/uart_protocol`, specified

The repository is a collection: exercises, copies of other projects' releases
(PJLIB, iptables, openldap, ppp, wget, hostapd, diffutils, ...), font tables and
build outputs.  The one concurrent system of its own is
`src/third_party/uart_protocol`, the library by which the main board of a telephone
and an extension board with keys, LEDs and displays talk over a serial line.  This
project specifies that library, and the four small programs of
`src/Ensuring_data_reaches_disk` that write files so that they survive a crash: TLA+
modules for the parts, TLC configurations that check them on small instances, and
theorems checked by TLAPS.

Paths below are relative to `src/third_party/uart_protocol`; "link" is
`link/link_proto.c`, "tty" is `tty/tty_proto.c`, "app" is `app/app_proto.c`, "disk" is
`src/Ensuring_data_reaches_disk`.

## 1. Inventory

### How the system works

```
   application threads            thread_tx                       thread_rx              event loop
   link_send ------> list_tx[d] ---> tx_data_info --\       /--- answers, fragments      link_listen
   link_clear_all_list                  ^            \     /          |      |           link_recv
                                        |          write_port  read_port     |              ^
                                        |               \       /            v              |
                                        |             serial line       DataItemList --> list_rx, marks
                                        |                                    |
                                        +--- pkt_info_table[0], signal ------+
```

Both boards run the same code.  A message goes from `link_send` into `list_tx[d]`.
`thread_tx` takes it out, escapes its bytes into packets of at most 240 bytes
(`feed_data_inpacket`), sends the packets `sof`, `tx`, `tx`, ... and a final `eof`
(`tx_data_info`), numbered 1, 2, 3, 1, 2, ..., and waits up to 3 s for an answer
to each one: `ack` and it goes on, `nak`, a wrong number or a timeout and it sends
the packet again (3 times, the eof 20 times), `can` and the message is over.  When
it gives up, everything queued for the device is dropped.  On the other side
`thread_rx` finds packets in the bytes that arrive (`check_buffer`,
`get_data_head`), checks the CRC, leaves answers in `pkt_info_table[0]` and signals
`thread_tx`, and puts fragments together in `DataItemList` (`deal_with_sof_packet`,
`deal_with_tx_packet`); an eof moves the item to `list_rx`, counts it in
`dev_cnt_r` and sets a bit in `mark_r`.  The application's `wait_and_handle_events`
waits for such a bit in `link_listen` and empties `list_rx` with `link_recv`.

On top of the link the two boards run a small session.  The extension board logs in
(`login_to_mainboard`, `handle_login`, at most once in two minutes).  The main board
sends it files in messages of up to 4094 bytes flagged start, continue and end: the
key configuration bcf.xml and the key list blf.xml when asked, blf.xml and a firmware
also unasked from its GUI thread (`handle_req_bcf`, `handle_req_blf`, `app_send_blf`,
`app_send_upgrade`).  The extension board collects them in a file and puts it in
place at the end; a new blf.xml makes it ask for the images it names and has not got,
count them, delete older ones, and start the GUI when all are there.

```
   main board                                        extension board
   GUI thread    app_send_blf, app_send_upgrade  \
                                                   link  -->  app_proto_process
   event thread  handle_req_bcf/blf/image        /              .sw files, rename
        ^                                                       blf_files_num, GUI
        +------- login, requests  <---  link  ------------------+
```

### Components

| component | state | operations | what makes it correct |
|---|---|---|---|
| transfer of a message (link) | position and tries of `tx_data_info`, `pkt_info_table`, `DataItemList`, `PktNum`, packets on the line | send, wait, compare, give up; handlers for sof, tx, eof, answers, damage | nothing twice, nothing out of order, whole messages, success only for what arrived, an end to every message |
| queues and marks (link, app) | `list_tx`, `tx_alive`, `list_rx`, `mutex_rx_list`, `dev_cnt_r`, `mark_*`, `in_listen` | `link_send`, `link_clear_all_list`, fetch, sleep, wake; append, mark; `link_listen`, `link_recv` | no lost wake-up, no message that waits unnoticed, no mutex left locked, order kept |
| escaping and fragmentation (link) | the data domain, bytes fed, bytes unpacked | `feed_data_inpacket`, `pro_unpack_pkg`, append | no overrun, no start character inside, the message comes out as it went in |
| check code (link) | CRC so far | `calcrc_1byte`, `calcrc_bytes`, pack, unpack, compare | damage is seen, undamaged packets pass |
| port and framing (tty, link) | `write_port`'s counter, bytes on the line, `read_buffer` | write with three attempts, read, search, reject, handle | a packet on a quiet line is found next; the receiver gets back into step and does not stop |
| session and dispatch (app) | `clients_login_times`, `clients_fw_version`, login status | login, refusal, answer; the two switches of `app_proto_process` | one login per two minutes, a granted login is known with the right firmware, each message to its handler, a board that tries gets in |
| file transfers (app) | the open transfer of each thread, files and .sw files | start, block, end; collect, unlink, rename | a transfer left alone installs exactly the file, whatever was broken before |
| images (app) | image and .sw files with their times, `blf_files_num`, `files_absence`, `init_flag` | check, touch, request, delete older, collect, count | the count is exact; the GUI starts with all images; nothing needed is deleted |
| durable files (disk) | the file, the directory, what of both is on the disk | open, write, fsync, rename, crash | a reported success survives a crash; a replacement is all or nothing |
| GUI callbacks (app) | none of their own | one call each | not modelled |
| start-up (link, tty) | descriptors, terminal settings | `link_host_init`, `link_ext_init`, `open_port`, `set_port` | initial states only |

The components meet in shared memory and on the line: `thread_rx` and `thread_tx`
share `pkt_info_table[0]` and a condition variable; the application and `thread_tx`
share `list_tx` under `mutex_tx_list`; `thread_rx` and the application share
`list_rx` under `mutex_rx_list` and the marks under `mutex_listen`; both threads and
the LED functions write to one port under `mutex_tx_buf`.

### What is hard here

* the answer table is written without the mutex its reader holds, and read field by
  field;
* packet numbers have two bits and answers name no message, so late and repeated
  answers can be mistaken; a `nak` carries no number at all;
* the eof's number is never compared;
* two wake-ups are flags polled every 50 ms instead of condition variables;
* `link_recv` peeks without the lock and on one path returns with it;
* an 8-bit counter decides when a mark is cleared;
* short writes, lost bytes and reads that cut packets anywhere, with a fixed
  255-byte buffer;
* allocation fails in the middle of a message, a read or write fails or is short;
* two threads send the same file into the same .sw file, and nothing counts blocks;
* files are unlinked before they are renamed, and deleted by whole-second times;
* a counter of missing images is shared by overlapping lists;
* logins, answers and blocks of before a restart arrive after it;
* what is on the disk is not what is in memory until fsync of the file and of its
  directory.

`PROJECT.json` lists these hazards with the line where each one bites and the
properties that cover it.

## 2. Modules

| module | models | checked by | proved in |
|---|---|---|---|
| `LinkTransfer` | two boards, their threads, the line between them | `link_*` | `LinkTransferProofs` |
| `MessageService` | abstract: what the link promises for one-way traffic | refined by `LinkTransfer` in `link_one_way` | refinement in `LinkTransferProofs` |
| `LinkQueues` | the queues of one board and the four kinds of thread on them | `queues` | `LinkQueuesProofs` |
| `PacketCodec` | escaping, cutting and reassembly | `packet` | `PacketCodecProofs` |
| `Crc8` | the check code, on the packets of `PacketCodec` | `packet` | `PacketCodecProofs` |
| `SerialPort` | one direction of the line in bytes | `port` | `SerialPortProofs` |
| `AppSession` | login and dispatch between the two boards | `app_session` | `AppSessionProofs` |
| `AppFiles` | the transfers of bcf.xml, blf.xml and the firmware | `app_files`, `app_bcf` | `AppFilesProofs` |
| `AppImages` | lists, images and their counter | `app_images` | `AppImagesProofs` |
| `AtomicFile` | abstract: what replacing a file promises | refined by `DurableFile` in `durable_file` | refinement in `DurableFileProofs` |
| `DurableFile` | the programs of `Ensuring_data_reaches_disk` and a disk | `durable_file` | `DurableFileProofs` |
| `MC*` | constants for TLC | | |

The modules of the application take the link as the others show it: messages whole and
in order, one dropped after a cancel, all that are queued dropped after an error
(`LinkCancels`, `LinkFails`, `LinkLoses`, `LoseMessages`).

Definitions whose names begin with `Wrong` are plausible mistakes in the code (a
dropped comparison, an off-by-one, a missing reset).  No action uses them; put in
the place of the definition they follow, each makes TLC report the property that
`PROJECT.json` names with it.

### LinkTransfer

A message is a number and a fragment a pair `<<message, index>>`, so that every
fragment has an identity; bytes are in `PacketCodec`.  Each board has

* `thread_tx` (`txpc`, `tx`): `TxFetch` takes a message, `TxSend` writes a packet and
  begins to wait (one step: `tx_sec_wind` is held in between), `TxTimeout` and
  `TxSpuriousWake` end the wait, and four steps `TxCompareNak`, `TxCompareCan`,
  `TxCompareAck`, `TxCompareNum` read the answer, one comparison each, as
  `wait_for_answer` does.  The last `else` of `wait_for_answer` returns 0, that is
  `TRANS_OK`: it is reached when the answer changes between the comparisons.
  `TxSendError` covers `write_port`'s inverted result and the missing `return` of
  `send_data_to_other`.  `TxClear` is the `-1` branch of `thread_tx`.
* `thread_rx` (`rxpc`): an answer is handled in three steps, `memset`, `memcpy` and
  signal, because the first two are outside the mutex; a data packet in one, because
  nothing it touches is read by the other threads before `list_rx` is (that part is in
  `LinkQueues`).  Every handler takes its packet off the line, possibly with any
  number of packets behind it: `thread_rx` sets `len = 0` and forgets them.

`Faults` selects what may go wrong: `loss`, `corrupt` (a CRC mismatch), `header`
(damage to the byte the CRC does not cover), `late` (a timeout may fire while
something is under way; without it only when nothing is), `spurious`, `port`,
`nomem`.

### LinkQueues

Sections under `mutex_tx_list` and `mutex_listen` are single steps; `mutex_rx_list`
is a variable because it is held while the other is taken and because one path of
`link_recv` never releases it.  `tx_data_info` is reduced to its three return values.
`CntRange` is the range of `dev_cnt_r`, 256 in the code.

### PacketCodec, Crc8

`PacketCodec` has one action per iteration of the loops, over bytes, with the domain's
size as parameter; the byte behind the end of a packet, which an escape cut in two
would read, is zero.  `Crc8` adds the check code with the real polynomial as operators
and states its properties of every complete data domain.  `XorByte` is `^` as the sum of
the differing bits; `Loop` is a loop that begins with a CRC of 0 and whose turns are
given as functions, `BitLoop` those of `calcrc_1byte` and `ByteLoop` those of
`calcrc_bytes`.

### SerialPort

`write_port` with its three attempts, flushes and result, the bytes under way, and
the loop of `thread_rx`: read any number of bytes, go to the first start character,
check the header, wait for the length it announces, check, forget the rest
(`Process`).  A failing read takes a byte off the buffer, or ends the process when the
buffer is empty (`ReadFails`).  The CRC is taken as perfect here.  `clean` remembers a
packet that was written when nothing unfinished was before it.

### AppSession

The messages are the numbers of `app_cmd_t` with the bit 0x80, as the functions that
send them build it; `PlainHandler` and `AckHandler` are the two switches with the cases
that run into the next one.  Time is kept relative to the last accepted login, once as
the difference of two `tv_sec` and once as it really is.  A message carries the number
of restarts at its sender as history (`boot`).

### AppFiles

A file's content is the sequence of the blocks that were written, each a pair of
version and number, so that any mixture can be told from the file.  Two threads of the
main board each read and send block by block; `HandleStart`, `HandleContinue`,
`HandleEnd` and `HandleUpgrade` are the branches of the three receivers, `Temp` is
their `swname`.  A history bit (`clean`) follows each transfer: it is cleared when
another transfer of the file runs at the same time, or a message or block is lost.

### AppImages

Files are their modification times in seconds; blf.xml is the set of images it names.
`HandleBlfEnd` is the whole branch: rename, `images_check_and_update` (touch, count,
ask, start the GUI if nothing is missing) and `delete_older_files`.  `lost` counts, as
history, the images that were counted in `blf_files_num` and will not be counted off.

### DurableFile

One action per system call.  `dir` and `data` are what programs see; `dirMay` and
`dataMay` are what a crash may leave, which fsync narrows to what programs see.
Contents may reach the disk in any prefix, directory entries in any order.  `promised`
is the version a program last reported; `AtomicFile` sees only the set of contents a
crash may leave under the name.

## 3. Runs

| run | question | answer |
|---|---|---|
| `link_one_way` | is the transfer, used one way with timely answers, the service users expect? | implements `MessageService`; whole messages; success means delivered |
| `link_async` | what survives late answers, spurious wake-ups, torn reads, failing writes and a receiver out of memory? | no fragment is repeated or out of order, and every message comes to an end under fair scheduling, whether it is sent, fails, or is cleared behind one that fails |
| `link_duplex_whole` | are messages whole in two-way traffic? | **no**, see section 6 |
| `link_resolved` | does a message come to an end when header bytes, which no CRC covers, are changed too? | yes, for a single message of one fragment: changed headers multiply the states, so the longer messages are in `link_async` |
| `queues` | the shared state of the queues in all interleavings; do the polling loops miss anything? | all seven invariants hold, and nothing is missed |
| `packet` | is escaping safe and reversible, and what does the CRC detect? | yes; every change within one byte |
| `port` | short writes, lost bytes, failing reads, LED commands, a start character as length: what stops the receiver, and does it get back into step? | only a length above what the buffer holds or a rejected header in a full buffer stops it for good, and a failing read into an empty buffer ends the process; otherwise it finds packets again as long as they are sent, and a packet on a quiet line is the next one it finds |
| `app_session` | does the main board know a board whose login it has granted, and do messages reach their handlers, across losses and restarts? | yes, as long as neither board has restarted since that login was sent (section 6 has what happens otherwise); the cases that fall through are never taken by a message a board sends, and a lost answer costs two minutes, not the login |
| `app_files` | can broken transfers spoil later ones? | no: one that is left alone installs the file, and blf.xml is current in the end |
| `app_bcf` | does the same hold of bcf.xml? | **no**, see section 6 |
| `app_images` | is the count of missing images right when lists overlap and messages get lost? | it is exact, the GUI is never started without an image the list names, and without a loss it is started |
| `durable_file` | do the programs keep their promise? | yes, with crashes between any two calls |

### Bounds, and why they are enough

* `LinkTransfer`: packet numbers have period 3, so a message of three fragments
  (its eof has the number of the next sof), one of one fragment and one of four (the
  numbers wrap) cover the coincidences of numbers.  The runs with late answers use
  the first two, `link_resolved` one message of one fragment.  Tries are scaled from 3
  and 20 to 1..4: enough for a first, a repeated and a last attempt, and with two kinds
  of limit.  The line is bounded by
  the number of attempts.
* `LinkQueues`: three lists (a first, a middle and a last), two calls of `link_send`,
  three arrivals with a counter of range 2, so that it wraps and counts on.
* `PacketCodec`: six byte values (the three escaped ones, both escape codes and an
  ordinary one), up to five bytes, domains of four: up to three packets, with an
  escape at every position relative to a packet's end.
* `Crc8`: the data domains of the same run, and every change of one byte to any other
  value.  For data domains of any length and content `OneByteIsDetected` proves it.
* `SerialPort`: packets of 6 and 7 bytes, one of them with the start character as its
  length, and an LED command of 4; three faults of any kind, so that all attempts of a
  write can fail; a buffer of 12, smaller than two packets.  Byte values keep the order
  of the real ones where it matters.
* `AppFiles`: two versions of different length, so that a mixture differs from both; a
  request and a push of blf.xml at once, or of the firmware; two faults of seven kinds; two
  messages under way, so that a fault can hit a message behind another.
* `AppImages`: three images of which the main board lacks one, images of three
  messages, two lists (every pair of subsets), a clock of three values and one loss of
  one or of all messages.
* `AppSession`: two minutes are two seconds of two ticks, enough for the rounding of
  `tv_sec` at both ends; two faults; one message of each other kind next to the logins.
* `DurableFile`: versions of two units, three versions (two replacements after a
  creation), two temporary files, two crashes.

### Fairness

`link_async` and `link_resolved` assume that both threads of both boards are scheduled and that
`pthread_cond_timedwait` times out: weak fairness of `TxStep` and `RxStep`, nothing
of the line or of callers of `link_send`.  `queues` assumes weak fairness of the
threads of the process; nobody has to call `link_send`.  `port` assumes weak fairness of
the write and read steps; that packets keep being sent is a premise of `Resynchronises`
itself.  `app_files` and `app_images` assume that the event threads, the link and a GUI
thread that has begun a push go on, and `app_files` that the GUI of the extension board
asks for blf.xml again; `app_session` that time passes and that the GUI repeats the
login until it is told of success (`core_to_gui_login_status`); both GUIs are outside
this repository, so these two are assumptions on the library's user.
Nothing is assumed of faults: they are bounded, not forbidden.

## 4. Proofs

All theorems hold for every value of the constants, from the assumptions that the
modules name where they declare the constants:

| module | assumptions |
|---|---|
| `LinkTransfer` | `BoardsAssumption`, `SizeAssumption`, `TriesAssumption`, `FaultsAssumption` |
| `LinkQueues` | `QueueAssumptions` |
| `PacketCodec` | `DomainAssumption`, `InputsAssumption` |
| `SerialPort` | `PortAssumption`: bytes are numbers, the buffer holds a header, a packet fits into the buffer, has the length its header announces and, escaped as it is, no start character but perhaps as its length |
| `AppSession` | `WindowAssumption`, `SessionBoundsAssumption` |
| `AppFiles` | `FilesAssumption`, `BlocksAssumption`, `FileFaultsAssumption`, `FileBoundsAssumption` |
| `AppImages` | `ImagesAssumption` (finitely many images; no image is named by the empty string), `ChunksAssumption`, `ImageBoundsAssumption` |
| `DurableFile` | `SizeAssumption`, `ProgramsAssumption`, `DiskBoundsAssumption` |

* `LinkTransferProofs!TypeCorrect` (`Spec => []TypeOK`).  `TypeOK` is inductive because
  it says more than types: `thread_tx` outside "idle" is at an existing fragment of an
  existing message (so `Size[b][m]` is never taken of nothing), and `thread_rx` between
  its three steps has an answer at the head of the line (so what it copies is an
  answer, and the lines only grow at the other end meanwhile).
* `LinkTransferProofs!FragmentsOnceInOrder` (`OnceInOrder`), for every set of faults
  without `header`, in both directions at once.  `OrderInv` puts everything that is
  anywhere between two boards into one order, first by message and then by index: what
  has been delivered, what the receiver's item holds, what is on the line, what
  `thread_tx` is sending.  Nothing in the item is ahead of a packet on the line, and
  `PktNum` is the number after the item's last fragment: a packet that arrives is either
  that fragment once more, with a number the receiver refuses, or behind it.  A flipped
  header is excluded because it turns a repeated packet into one with the number the
  receiver expects: the byte with the number is outside the check code.
* `LinkTransferProofs!MessagesAreWhole` (`WholeMessages`), `OkIsDelivered`
  (`OkMeansDelivered`) and `ServiceImplemented` (`ImplementsService`, the refinement of
  `MessageService`), under `OneWayFrom(s)`: only board `s` has messages, and the faults
  are among `loss`, `corrupt` and `nomem`; the last two theorems without `nomem`.  These
  are the conditions of `link_one_way`; with traffic both ways `WholeMessages` is false
  (section 6).  `WayInv` says that at most one packet, or one answer, is under way and
  only while `thread_tx` waits; that the receiver has the fragments up to the one before
  the packet that `thread_tx` is at, or that one too; and that an `ack` on the line or in
  `pkt_info_table` is never given before the latter (`Fits`).  A receiver without memory
  has closed its item instead, and every later packet of the message finds it closed: so
  nothing incomplete is handed over, but an eof that found nothing is acknowledged all the
  same, which is why `nomem` is excluded from the other two.  `StatusInv` ties the
  outcome of each message to the queue and to the place of `thread_tx`.  The refinement
  maps `LinkSend` to `Submit`, `TxFetch` to `Start`, a hand-over in `RxEof` to `Deliver`,
  every return of `tx_data_info` to `Report`, `TxClear` to `Drop`, and everything else to
  a stutter.
* `LinkQueuesProofs!NoLostWakeUp`: `SleepsOnlyWhenEmpty` alone is inductive: the scan
  and the reset of `tx_alive` are one section under `mutex_tx_list`, `link_send` sets
  it under the same mutex, and clearing only shortens lists.
* `LinkQueuesProofs!QueueTypeCorrect`, then on top of it `MutexNeverKept`
  (`MutexReleased`), `NothingStranded` (`NoneStranded`), `WaitingMarked`
  (`WaitingIsMarked`) and `SeenOnceInOrder`.  The strengthening relates the mark to the
  program counter of the event loop: while it is inside its loop for the device, the
  mark may be missing (a wrapped counter clears it too early), and outside the loop list
  and mark agree.  That the loop does not leave a device before `list_rx` is empty is
  what makes the wrap harmless, for every `CntRange`.  `CountsTheWaiting` (`CountsMatch`)
  is a third invariant: the counter is the length of the list modulo its range.
* `PacketCodecProofs!DataDomainSafe` (`FitsDomain`).
* `PacketCodecProofs!RoundTrip`: `Reassembles`.  The inductive invariant keeps, as a
  function, the place in the data domain where the escape of each message byte begins:
  the places are consecutive, so the reader is always at the beginning of an escape and
  what it has produced is the corresponding part of the message.  The usual statement
  "unescape(escape(m)) = m" would need an induction over two recursive functions; the
  loops themselves provide the induction here.
* `PacketCodecProofs!UndamagedIsAccepted` (`UndamagedAccepted`) and `DataAndCrcAreClean`
  (`DataAndCrcClean`): the four forms in which `pro_pack_data` writes a check code are read
  back without confusion, whatever the code is, and neither they nor the escaped data
  contain a start character.
* `PacketCodecProofs!OneByteIsDetected`: `OneByteDetected`.  The library's induction
  rules are out of the provers' reach, but a least counterexample is not: `UpTo` takes
  the least turn of a loop after which a claim fails (`WFMin`), and `Recursion` and
  `LoopFacts` derive from it that `Loop` has a value after each turn.  The arithmetic is
  done bit by bit (`XorBit`, `HalfBit`, `HighBit`, `SameBits`).  `TurnIsShift` is the key:
  what is left of `abyte` may be joined to the CRC before a turn or after it, so
  `calcrc_1byte(abyte)` is eight turns from `abyte` itself with nothing left to take in
  (`EightTurns`).  Such a turn is one-to-one, because the bit it sets at the top tells
  whether the polynomial was applied (`EmptyTurn`); hence so is `calcrc_1byte`
  (`CrcByteFacts`).  In `DamageShows` the CRCs of the sent and of the damaged data agree
  up to the damaged byte, differ after it, and stay different because both `^` and
  `calcrc_1byte` are one-to-one.
* `AppSessionProofs`: `SessionTypeCorrect`, `LoginThrottled` (`OncePerWindow`),
  `RightDispatch` (`RightHandler`) and `BoardsAgree` (`KnownToMain`), all from the
  invariant `SessionInv`.  Its clock part says that `since` in ticks, plus the phase,
  is ahead of the time really passed by the phase at the last login, so less than a
  second: a difference of more than `Window` in `tv_sec` is therefore one in real time.
  Its queue part says that every message carries the number its sender gives it, which
  the switches lead back to the call meant.  For `KnownToMain` it orders the logins in
  the queue by restarts: once one sent since the last restart is accepted, no older one
  is left behind it that could overwrite `clients_fw_version`.

* `SerialPortProofs!WedgedByHeader` (`WedgedOnlyByHeader`) and `CleanPacketFound`
  (`CleanPacketArrives`).  `BufferInv` says what the loop of `thread_rx` leaves behind: a
  rejected header (its first byte cleared) or an accepted one whose packet is not
  complete; a full buffer is then one of the two ways to stop.  `CleanPacketArrives` is
  inductive with it: the packet is the first thing behind a start character in buffer
  and line together, reads move the boundary between the two and nothing else, and what
  is written later is behind it.
* `AppFilesProofs!FilesTypeCorrect` and `CleanTransferIsInstalled`
  (`CleanTransferInstalls`), from `FilesInv`.  It takes the received messages and those
  still to be sent as one queue.  A clean message of a file stands behind the message
  its file has before it, with none of the same file in between, or, if none of the file
  is left before it, what has been collected is exactly the blocks before it
  (`QueueInv`); a clean transfer that is still being read stands in the same way behind
  the end of the queue, and no other thread reads the file (`JobsInv`).  Every loss is
  one operation on the queue (`Cut`): a part of it goes, and what is behind of the files
  concerned is no longer clean up to their next start.  The first message, the one being
  handled, everything queued for the link and everything received are instances of it.
* `AppImagesProofs!ImagesTypeCorrect`, `CountIsExact` (`CountExact`), `CountIsCovering`
  (`CountCovers`) and `ListedAreKept` (`ListedKept`).  `CountExact` compares
  `blf_files_num` with a sum over the three places a request can be in.  `Covered` says
  that without a loss each missing image of blf.xml is in one of them; with one, the
  count stays above 0.  `ListedKept` needs that blf.xml.sw is not younger than now.
* `DurableFileProofs!FileTypeCorrect`, `SuccessDurable` (`SuccessIsDurable`) and
  `ReplacementAtomic` (`ReplacesAtomically`, the refinement of `AtomicFile`).  `FdInv`
  follows how much of a version is written and how much of it is on the disk; `PlaceInv`
  says that the file being written is not under the name in any directory a crash may
  leave, or that the promise has been given up; `PromiseInv` that in each of these
  directories the name leads to exactly what was reported.  The refinement maps each
  system call to a stutter except those that make new contents possible (the rename and
  the writes in place) or settle one (the fsyncs and the crash).

Only model-checked: everything about liveness (`EveryMessageResolved`,
`EveryArrivalSeen`, `EveryQueuedLeaves`, `Resynchronises`, `EventuallyCurrent`,
`EventuallyShown`, `EventuallyLoggedIn`), which is out of the prover's reach.  Every
invariant and every action property of the passing runs is proved.

## 5. What is not modelled, and why

* Opening, configuring and closing the port; the PC-test sockets; the test `main`.
* GUI callbacks, except as the record that they were made.  When the GUI reads a file it
  was told of is not known: `core_to_gui_update_blf` comes before the rename.
* The images of bcf.xml: the end of a bcf.xml transfer never gets there (section 6).
  `app_send_image` leaves the flag 0 and always returns -2.  The loop behind `req_image`
  that removes an image with another number looks at one entry of the directory for each
  missing image, each time the next one, and unlinks it relative to the working directory
  if its name differs; for a name without `_` it clears a byte in front of `image_name`.
* A restart of the extension board in `AppImages`: the counters start from 0 again while
  ends of images asked for before still arrive, and `blf_files_num` becomes negative.
* Memory errors end a process and so a model: the double free in `handle_req_image`
  (app 993-996 and 1027), `strncpy` without a terminator in `write_to_file` (disk,
  `create_new_file_by_myself.c` 18; a failing call in `DurableFile`).
* Descriptors that are not closed after a short write (app 932, 1227): failing opens stand
  for them.
* Device ids other than 1: `get_data_head` rejects them, so the second half of
  `link_recv`'s search is unreachable from the line.
* A packet whose check code looks like the id byte of a header, with data of exactly 170
  bytes: sent over and over to a receiver that has taken the length for a start
  character, it would be missed each time.  `SerialPort`'s packets have no such check
  code, and `thread_tx` gives up after three tries.
* `mark_e` and `mark_w`, which are never cleared: no caller asks for them.
* The branch of `wait_for_answer` for other errors of `pthread_cond_timedwait`.
* Time, except for the login: the 3 s of a wait, `usleep` and `sleep` are only order.
* `list_rx.tail` when the last of several items is removed: with one device the removed
  item is always the first.
* Everything else in the repository.  By far most of its lines are vendored releases
  (`third_party`, `PublicLic`, `wpa_supplicant_hostapd`, `diffutils-3.3`, `unpv`,
  `iniparser-master`, `sl-3.03`, `mozilla-sha1`), generated font tables (`wide_char`) and
  build outputs, which are not this repository's logic; the exercises (sorting, dynamic
  programming, sockets, C++) are sequential programs of a page.  The share of all lines
  that is modelled is therefore small, and would be with everything of its own modelled.

## 6. Findings

* `link_duplex_whole`.  The comment on `rx_data_info` (link 1383) says that an item is
  handed over when it "is received wholely".  `deal_with_eof_packet` does not compare
  numbers, and in two-way traffic thread_tx can go on past a packet that never
  arrived: a message is abandoned with its first fragment in the peer's item; the next
  message's sof is damaged, two `nak`s cross (one for each direction), the second
  overwrites the first while `wait_for_answer` compares it, no branch matches and 0 is
  returned; the eof that follows hands over the first fragment of the abandoned message.
  With late answers one direction is enough, which is why `link_one_way` has none: a
  message is abandoned while its first fragment is still on the way, the acknowledgement
  of that fragment has number 1 like the lost sof of the next message and is taken for
  its answer, and the eof of the next message closes the item of the abandoned one.
* `app_bcf`.  `handle_ack_req_bcf` builds `swname` without the ".sw" of its neighbours
  (app 720), so it collects bcf.xml under its own name and at the end unlinks it before
  it renames it to itself (app 734-735).  Every complete transfer ends with no bcf.xml,
  the images of bcf.xml are never checked, and every login asks for the file again.
* `app_images`.  The comment on `delete_older_files` (app 331-332) says that files are
  deleted "if their modification time is later than the modification time of reference".
  The code deletes those that are older (app 381), which is what the function's name and
  the comments at its uses say (app 507 and 911).  The comment is wrong: `ListedKept`
  holds of the code, and its mutant `WrongKept`, the comment's reading, deletes the
  images that `utime` has just touched.

Not contradicted by any comment, but worth knowing: an answer names neither the login nor
the firmware it belongs to.  An extension board that restarts with a new firmware while
the answer to its last login is under way is told LOGIN_SUCCESS by it, stops trying, and
stays known to the main board with the old firmware; and when the main board restarts, the
extension board goes on believing that it is logged in.  `KnownToMain` excludes both with
`own`, and `EventuallyLoggedIn` is about what the extension board believes.  Likewise a
lost image keeps `blf_files_num` above 0 for good: `CountExact` says so, `EventuallyShown`
is about behaviours without such a loss.

## 7. Plan

Done: the link layer (transfer, queues, codec, check code, port), the application
(session, files, images), the durable files.

Proved: every safety property of the queues, the codec, the port, the session, the
files, the images and the durable files; the order of fragments under every fault but a
flipped header; whole messages, truthful reports and the refinement of `MessageService`
for one-way traffic.

What is left is liveness, which stays with TLC.
