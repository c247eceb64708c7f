---------------------------- MODULE LinkTransfer ----------------------------
(***************************************************************************)
(* The stop-and-wait transfer of link/link_proto.c between the main board  *)
(* and an extension board.  Both boards run the same code: a thread_tx     *)
(* that sends the queued messages fragment by fragment and waits for an    *)
(* answer to each, and a thread_rx that reads packets, hands answers to    *)
(* thread_tx and assembles the peer's fragments into messages.             *)
(*                                                                         *)
(* A message is a number (the i-th one its board queues), a fragment is a  *)
(* pair <<message, index>>; the eof packet is the fragment after the last. *)
(* All traffic carries dev_id 1, the only one get_data_head accepts.       *)
(* Queues under their mutexes, the marks and the application's side are in *)
(* LinkQueues.                                                             *)
(***************************************************************************)
EXTENDS Integers, Sequences

CONSTANTS
    Host, Ext,   \* the main board and the extension board
    Size,        \* Size[b][m]: number of fragments of board b's m-th message
    DataTries,   \* try_time of send_data_out (3)
    EofTries,    \* MAX_TRY_SEND_NUM (20)
    Faults       \* what may go wrong, see FaultKinds

MIN_PACKET_NUM == 1
MAX_PACKET_NUM == 4

Boards == {Host, Ext}
Peer(b) == IF b = Host THEN Ext ELSE Host

(***************************************************************************)
(* loss: the line loses a packet.  corrupt: a packet fails its CRC.        *)
(* header: a flipped cmd/num, which the CRC does not cover.  late: the     *)
(* 3 s timeout may fire while packets or answers are still under way.      *)
(* spurious: pthread_cond_timedwait returns without a signal.  port:       *)
(* write_port loses a packet or misreports its result.  nomem: malloc or   *)
(* realloc returns NULL on the receiving side.                             *)
(***************************************************************************)
FaultKinds == {"loss", "corrupt", "header", "late", "spurious", "port", "nomem"}

ASSUME BoardsAssumption == Host # Ext
ASSUME SizeAssumption   == Size \in [Boards -> Seq(Nat \ {0})]
ASSUME TriesAssumption  == DataTries \in Nat \ {0} /\ EofTries \in Nat \ {0}
ASSUME FaultsAssumption == Faults \subseteq FaultKinds

VARIABLES
    submitted,       \* messages each board has passed to link_send
    list_tx,         \* each board's queue towards the peer
    outcome,         \* what became of each message
    txpc, tx,        \* thread_tx: where it is, and the packet it is sending
    rxpc,            \* thread_rx: where it is
    pkt_info_table,  \* the last answer, shared by the two threads of a board
    DataItemList,    \* the message under assembly
    PktNum,          \* the packet number it expects next
    list_rx,         \* the messages assembled, oldest first
    line             \* line[b]: the packets under way from b to its peer

txVars   == <<submitted, list_tx, outcome, txpc, tx>>
rxVars   == <<DataItemList, PktNum, list_rx>>
vars     == <<submitted, list_tx, outcome, txpc, tx, rxpc, pkt_info_table,
              DataItemList, PktNum, list_rx, line>>

Answers  == {"ack", "nak", "can"}
Commands == Answers \union {"sof", "tx", "eof"}
Messages(b) == 1 .. Len(Size[b])
Fragments   == Nat \X Nat
Packets  == [cmd : Commands, num : 0 .. 3, msg : Nat, frag : Nat]
Statuses == {"new", "queued", "sending", "ok", "failed", "cancelled", "cleared"}

NoItem    == [open |-> FALSE, data |-> <<>>]
OpenItem(data) == [open |-> TRUE, data |-> data]

\* Definitions whose names begin with Wrong are plausible mistakes; no action
\* uses them.  They serve to show that the properties would notice them.
WrongNextNum(n) == IF n + 1 > MAX_PACKET_NUM THEN MIN_PACKET_NUM ELSE n + 1

NextNum(n) == IF n + 1 = MAX_PACKET_NUM THEN MIN_PACKET_NUM ELSE n + 1

-----------------------------------------------------------------------------
(***************************************************************************)
(* The line and the port.                                                  *)
(***************************************************************************)

\* What write_port may leave on a line it appends p to.
Written(s, p) == {Append(s, p)} \union (IF "port" \in Faults THEN {s} ELSE {})

\* thread_rx forgets whatever else the same read brought (len = 0), and a
\* failed packet flushes the input: any number of packets behind go with it.
Remainders(s) == {SubSeq(s, k, Len(s)) : k \in 2 .. Len(s) + 1}

IsEof(b)   == tx[b].frag > Size[b][tx[b].msg]
Limit(b)   == IF IsEof(b) THEN EofTries ELSE DataTries
CmdToSend(b) == IF IsEof(b) THEN "eof" ELSE IF tx[b].frag = 1 THEN "sof" ELSE "tx"
PacketToSend(b) == [cmd |-> CmdToSend(b), num |-> tx[b].num,
                    msg |-> tx[b].msg, frag |-> tx[b].frag]
Answer(cmd, num) == [cmd |-> cmd, num |-> num, msg |-> 0, frag |-> 0]

-----------------------------------------------------------------------------
Init ==
    /\ submitted = [b \in Boards |-> 0]
    /\ list_tx = [b \in Boards |-> <<>>]
    /\ outcome = [b \in Boards |-> [m \in Messages(b) |-> "new"]]
    /\ txpc = [b \in Boards |-> "idle"]
    /\ tx = [b \in Boards |-> [msg |-> 0, frag |-> 0, num |-> 0, tries |-> 0]]
    /\ rxpc = [b \in Boards |-> "read"]
    /\ pkt_info_table = [b \in Boards |-> Answer("ack", 0)]
    /\ DataItemList = [b \in Boards |-> NoItem]
    /\ PktNum = [b \in Boards |-> 0]
    /\ list_rx = [b \in Boards |-> <<>>]
    /\ line = [b \in Boards |-> <<>>]

-----------------------------------------------------------------------------
(***************************************************************************)
(* The sending side: link_send and thread_tx.                              *)
(***************************************************************************)

LinkSend(b) ==
    /\ submitted[b] < Len(Size[b])
    /\ submitted' = [submitted EXCEPT ![b] = @ + 1]
    /\ list_tx' = [list_tx EXCEPT ![b] = Append(@, submitted[b] + 1)]
    /\ outcome' = [outcome EXCEPT ![b][submitted[b] + 1] = "queued"]
    /\ UNCHANGED <<txpc, tx, rxpc, pkt_info_table, rxVars, line>>

\* thread_tx takes the head of its queue and enters tx_data_info, which it
\* runs holding tx_sec_wind (released only inside wait_for_answer).
TxFetch(b) ==
    /\ txpc[b] = "idle"
    /\ list_tx[b] # <<>>
    /\ list_tx' = [list_tx EXCEPT ![b] = Tail(@)]
    /\ outcome' = [outcome EXCEPT ![b][Head(list_tx[b])] = "sending"]
    /\ tx' = [tx EXCEPT ![b] = [msg |-> Head(list_tx[b]), frag |-> 1,
                                num |-> MIN_PACKET_NUM, tries |-> 0]]
    /\ txpc' = [txpc EXCEPT ![b] = "send"]
    /\ UNCHANGED <<submitted, rxpc, pkt_info_table, rxVars, line>>

\* tx_data_info returns: 0 and -2 go back to the queue, -1 clears it first.
Finish(b, status) ==
    /\ outcome' = [outcome EXCEPT ![b][tx[b].msg] = status]
    /\ txpc' = [txpc EXCEPT ![b] = IF status = "failed" THEN "clear" ELSE "idle"]
    /\ UNCHANGED tx

\* A packet is sent again until the limit of its kind is reached.
Retry(b) ==
    /\ tx[b].tries < Limit(b)
    /\ txpc' = [txpc EXCEPT ![b] = "send"]
    /\ UNCHANGED <<tx, outcome>>

GiveUp(b) ==
    /\ tx[b].tries >= Limit(b)
    /\ Finish(b, "failed")

\* The packet was acknowledged: on to the next one, or done after the eof.
Advance(b) ==
    \/ /\ IsEof(b)
       /\ Finish(b, "ok")
    \/ /\ ~IsEof(b)
       /\ tx' = [tx EXCEPT ![b] = [msg |-> @.msg, frag |-> @.frag + 1,
                                   num |-> NextNum(@.num), tries |-> 0]]
       /\ txpc' = [txpc EXCEPT ![b] = "send"]
       /\ UNCHANGED outcome

\* try_time -- and resend++.
WrongCountTry(tries) == tries

CountTry(tries) == tries + 1

\* send_data_to_other and the start of wait_for_answer, one step: tx_sec_wind
\* is held from one to the other, so thread_rx cannot signal in between.
TxSend(b) ==
    /\ txpc[b] = "send"
    /\ tx' = [tx EXCEPT ![b].tries = CountTry(@)]
    /\ \E s \in Written(line[b], PacketToSend(b)) : line' = [line EXCEPT ![b] = s]
    /\ txpc' = [txpc EXCEPT ![b] = "wait"]
    /\ UNCHANGED <<submitted, list_tx, outcome, rxpc, pkt_info_table, rxVars>>

\* The same, reported as a failure: write_port returns -1 when its third
\* attempt succeeds, and send_data_to_other has no return value on success.
TxSendError(b) ==
    /\ txpc[b] = "send"
    /\ "port" \in Faults
    /\ \E s \in Written(line[b], PacketToSend(b)) : line' = [line EXCEPT ![b] = s]
    /\ Finish(b, "failed")
    /\ UNCHANGED <<submitted, list_tx, rxpc, pkt_info_table, rxVars>>

\* Nothing of the current exchange is left anywhere between the boards.
Drained == \A b \in Boards : line[b] = <<>> /\ rxpc[b] = "read"

TxTimeout(b) ==
    /\ txpc[b] = "wait"
    /\ "late" \in Faults \/ Drained
    /\ Retry(b) \/ GiveUp(b)
    /\ UNCHANGED <<submitted, list_tx, rxpc, pkt_info_table, rxVars, line>>

TxSpuriousWake(b) ==
    /\ "spurious" \in Faults
    /\ txpc[b] = "wait"
    /\ txpc' = [txpc EXCEPT ![b] = "woken"]
    /\ UNCHANGED <<submitted, list_tx, outcome, tx, rxpc, pkt_info_table, rxVars, line>>

(***************************************************************************)
(* wait_for_answer after a wake-up.  It reads pkt_info_table[0] once more  *)
(* for every comparison, while thread_rx may write the next answer there:  *)
(* tx_sec_wind does not protect the table.                                 *)
(***************************************************************************)
TxCompareNak(b) ==
    /\ txpc[b] = "woken"
    /\ \/ /\ pkt_info_table[b].cmd = "nak"
          /\ Retry(b) \/ GiveUp(b)
       \/ /\ pkt_info_table[b].cmd # "nak"
          /\ txpc' = [txpc EXCEPT ![b] = "notnak"]
          /\ UNCHANGED <<tx, outcome>>
    /\ UNCHANGED <<submitted, list_tx, rxpc, pkt_info_table, rxVars, line>>

TxCompareCan(b) ==
    /\ txpc[b] = "notnak"
    /\ \/ /\ pkt_info_table[b].cmd = "can"
          /\ Finish(b, "cancelled")
       \/ /\ pkt_info_table[b].cmd # "can"
          /\ txpc' = [txpc EXCEPT ![b] = "notcan"]
          /\ UNCHANGED <<tx, outcome>>
    /\ UNCHANGED <<submitted, list_tx, rxpc, pkt_info_table, rxVars, line>>

\* The last else prints a message and returns 0, which is TRANS_OK.
TxCompareAck(b) ==
    /\ txpc[b] = "notcan"
    /\ \/ /\ pkt_info_table[b].cmd = "ack"
          /\ txpc' = [txpc EXCEPT ![b] = "acked"]
          /\ UNCHANGED <<tx, outcome>>
       \/ /\ pkt_info_table[b].cmd # "ack"
          /\ Advance(b)
    /\ UNCHANGED <<submitted, list_tx, rxpc, pkt_info_table, rxVars, line>>

\* check_packet_info; its other comparison, of dev_id, fails only together with
\* this one, when the table is zeroed.
TxCompareNum(b) ==
    /\ txpc[b] = "acked"
    /\ \/ /\ pkt_info_table[b].num = tx[b].num
          /\ Advance(b)
       \/ /\ pkt_info_table[b].num # tx[b].num
          /\ Retry(b) \/ GiveUp(b)
    /\ UNCHANGED <<submitted, list_tx, rxpc, pkt_info_table, rxVars, line>>

TxAnswered(b) == TxCompareNak(b) \/ TxCompareCan(b) \/ TxCompareAck(b) \/ TxCompareNum(b)

\* The -1 branch of thread_tx: everything queued for the device is dropped,
\* what was queued since tx_data_info returned included.
TxClear(b) ==
    /\ txpc[b] = "clear"
    /\ outcome' = [outcome EXCEPT ![b] =
           [m \in Messages(b) |-> IF @[m] = "queued" THEN "cleared" ELSE @[m]]]
    /\ list_tx' = [list_tx EXCEPT ![b] = <<>>]
    /\ txpc' = [txpc EXCEPT ![b] = "idle"]
    /\ UNCHANGED <<submitted, tx, rxpc, pkt_info_table, rxVars, line>>

-----------------------------------------------------------------------------
(***************************************************************************)
(* The receiving side: thread_rx.                                          *)
(***************************************************************************)

Arrived(b) == Head(line[Peer(b)])

Reading(b, commands) ==
    /\ rxpc[b] = "read"
    /\ line[Peer(b)] # <<>>
    /\ Arrived(b).cmd \in commands

\* The packet is off the line, the handler's answer (if any) is on it.
Consume(b) ==
    \E rest \in Remainders(line[Peer(b)]) :
        line' = [line EXCEPT ![Peer(b)] = rest]
ConsumeAndSend(b, answer) ==
    \E rest \in Remainders(line[Peer(b)]), s \in Written(line[b], answer) :
        line' = [line EXCEPT ![Peer(b)] = rest, ![b] = s]
Reply(b, cmd) == ConsumeAndSend(b, Answer(cmd, Arrived(b).num))

\* send_answer_nack.
WrongNack(b) == Answer("ack", Arrived(b).num)

Nack(b) == Answer("nak", 0)

\* deal_with_indata on a CRC mismatch, whatever the packet was.
RxCorrupt(b) ==
    /\ "corrupt" \in Faults
    /\ Reading(b, Commands)
    /\ ConsumeAndSend(b, Nack(b))
    /\ UNCHANGED <<txVars, rxpc, pkt_info_table, rxVars>>

\* deal_with_indata on an answer, in three steps: the table is zeroed and then
\* filled without tx_sec_wind, and only then is thread_tx signalled under it.
RxAnswerZero(b) ==
    /\ Reading(b, Answers)
    /\ pkt_info_table' = [pkt_info_table EXCEPT ![b] = Answer("ack", 0)]
    /\ rxpc' = [rxpc EXCEPT ![b] = "copy"]
    /\ UNCHANGED <<txVars, rxVars, line>>

RxAnswerCopy(b) ==
    /\ rxpc[b] = "copy"
    /\ pkt_info_table' = [pkt_info_table EXCEPT
           ![b] = Answer(Arrived(b).cmd, Arrived(b).num)]
    /\ rxpc' = [rxpc EXCEPT ![b] = "signal"]
    /\ UNCHANGED <<txVars, rxVars, line>>

\* thread_tx holds tx_sec_wind all through tx_data_info except in its wait.
HoldsWindow(b) == txpc[b] \in {"send", "notnak", "notcan", "acked"}

RxAnswerSignal(b) ==
    /\ rxpc[b] = "signal"
    /\ ~HoldsWindow(b)
    /\ txpc' = [txpc EXCEPT ![b] = IF @ = "wait" THEN "woken" ELSE @]
    /\ rxpc' = [rxpc EXCEPT ![b] = "read"]
    /\ Consume(b)
    /\ UNCHANGED <<submitted, list_tx, outcome, tx, pkt_info_table, rxVars>>

\* deal_with_sof_packet: a fresh item, the old one (if any) forgotten.
RxSof(b) ==
    /\ Reading(b, {"sof"})
    /\ \/ /\ "nomem" \in Faults
          /\ ~DataItemList[b].open
          /\ Reply(b, "can")
          /\ UNCHANGED <<DataItemList, PktNum>>
       \/ /\ "nomem" \in Faults
          /\ Arrived(b).num = MIN_PACKET_NUM
          /\ DataItemList' = [DataItemList EXCEPT ![b] = NoItem]
          /\ PktNum' = [PktNum EXCEPT ![b] = MIN_PACKET_NUM]
          /\ Reply(b, "can")
       \/ /\ Arrived(b).num # MIN_PACKET_NUM
          /\ DataItemList' = [DataItemList EXCEPT ![b] = OpenItem(<<>>)]
          /\ PktNum' = [PktNum EXCEPT ![b] = MIN_PACKET_NUM]
          /\ Reply(b, "ack")
       \/ /\ Arrived(b).num = MIN_PACKET_NUM
          /\ DataItemList' = [DataItemList EXCEPT
                 ![b] = OpenItem(<< <<Arrived(b).msg, Arrived(b).frag>> >>)]
          /\ PktNum' = [PktNum EXCEPT ![b] = NextNum(MIN_PACKET_NUM)]
          /\ Reply(b, "ack")
    /\ UNCHANGED <<txVars, rxpc, pkt_info_table, list_rx>>

\* The number check of deal_with_tx_packet.
WrongExpected(b) == TRUE

Expected(b) == Arrived(b).num = PktNum[b]

\* deal_with_tx_packet: a packet nobody waits for is acknowledged as well.
RxTx(b) ==
    /\ Reading(b, {"tx"})
    /\ \/ /\ ~DataItemList[b].open
          /\ PktNum' = [PktNum EXCEPT ![b] = MIN_PACKET_NUM]
          /\ Reply(b, "ack")
          /\ UNCHANGED DataItemList
       \/ /\ DataItemList[b].open
          /\ ~Expected(b)
          /\ Reply(b, "ack")
          /\ UNCHANGED <<DataItemList, PktNum>>
       \/ /\ "nomem" \in Faults
          /\ DataItemList[b].open
          /\ Expected(b)
          /\ DataItemList' = [DataItemList EXCEPT ![b] = NoItem]
          /\ Reply(b, "can")
          /\ UNCHANGED PktNum
       \/ /\ DataItemList[b].open
          /\ Expected(b)
          /\ DataItemList' = [DataItemList EXCEPT
                 ![b] = OpenItem(Append(@.data, <<Arrived(b).msg, Arrived(b).frag>>))]
          /\ PktNum' = [PktNum EXCEPT ![b] = NextNum(@)]
          /\ Reply(b, "ack")
    /\ UNCHANGED <<txVars, rxpc, pkt_info_table, list_rx>>

\* deal_with_eof_packet puts the item into list_rx and lets go of it.
WrongHandOver(b) ==
    /\ list_rx' = [list_rx EXCEPT ![b] = Append(@, DataItemList[b].data)]
    /\ UNCHANGED DataItemList

HandOver(b) ==
    /\ list_rx' = [list_rx EXCEPT ![b] = Append(@, DataItemList[b].data)]
    /\ DataItemList' = [DataItemList EXCEPT ![b] = NoItem]

EofAnswer == "ack"

\* deal_with_eof_packet: the packet's number is not compared.
RxEof(b) ==
    /\ Reading(b, {"eof"})
    /\ \/ /\ ~DataItemList[b].open
          /\ PktNum' = [PktNum EXCEPT ![b] = MIN_PACKET_NUM]
          /\ UNCHANGED <<DataItemList, list_rx>>
       \/ /\ DataItemList[b].open
          /\ HandOver(b)
          /\ UNCHANGED PktNum
    /\ Reply(b, EofAnswer)
    /\ UNCHANGED <<txVars, rxpc, pkt_info_table>>

-----------------------------------------------------------------------------
(***************************************************************************)
(* The line itself.                                                        *)
(***************************************************************************)

LineLoses(b) ==
    /\ "loss" \in Faults
    /\ line[b] # <<>>
    /\ rxpc[Peer(b)] = "read"
    /\ line' = [line EXCEPT ![b] = Tail(@)]
    /\ UNCHANGED <<txVars, rxpc, pkt_info_table, rxVars>>

\* The flips considered leave an answer an answer and a data packet a data packet.
SameKind(cmd) == IF cmd \in Answers THEN Answers ELSE Commands \ Answers

LineFlipsHeader(b) ==
    /\ "header" \in Faults
    /\ line[b] # <<>>
    /\ rxpc[Peer(b)] = "read"
    /\ \E p \in {[Head(line[b]) EXCEPT !.cmd = c] : c \in SameKind(Head(line[b]).cmd)}
                  \union {[Head(line[b]) EXCEPT !.num = n] : n \in 0 .. 3} :
           line' = [line EXCEPT ![b] = <<p>> \o Tail(@)]
    /\ UNCHANGED <<txVars, rxpc, pkt_info_table, rxVars>>

\* Everything queued was dealt with and both threads of both boards wait.
Quiescent ==
    /\ \A b \in Boards : /\ submitted[b] = Len(Size[b])
                         /\ list_tx[b] = <<>>
                         /\ txpc[b] = "idle"
    /\ Drained
    /\ UNCHANGED vars

TxStep(b) == TxFetch(b) \/ TxSend(b) \/ TxTimeout(b) \/ TxAnswered(b) \/ TxClear(b)
RxStep(b) == RxAnswerZero(b) \/ RxAnswerCopy(b) \/ RxAnswerSignal(b)
                \/ RxSof(b) \/ RxTx(b) \/ RxEof(b)

Next ==
    \/ \E b \in Boards : \/ LinkSend(b) \/ TxFetch(b) \/ TxSend(b) \/ TxSendError(b)
                         \/ TxTimeout(b) \/ TxSpuriousWake(b) \/ TxAnswered(b)
                         \/ TxClear(b) \/ RxCorrupt(b) \/ RxAnswerZero(b)
                         \/ RxAnswerCopy(b) \/ RxAnswerSignal(b) \/ RxSof(b)
                         \/ RxTx(b) \/ RxEof(b) \/ LineLoses(b) \/ LineFlipsHeader(b)
    \/ Quiescent

Spec == Init /\ [][Next]_vars

(***************************************************************************)
(* Fairness: both threads are scheduled, and pthread_cond_timedwait does   *)
(* time out.  Nothing is assumed of the line.                              *)
(***************************************************************************)
FairSpec == /\ Spec
            /\ \A b \in Boards : WF_vars(TxStep(b)) /\ WF_vars(RxStep(b))

-----------------------------------------------------------------------------
(***************************************************************************)
(* Properties.                                                             *)
(***************************************************************************)

QueueTypeOK ==
    /\ submitted \in [Boards -> Nat]
    /\ list_tx \in [Boards -> Seq(Nat)]
    /\ \A b \in Boards : /\ submitted[b] <= Len(Size[b])
                         /\ \A i \in DOMAIN list_tx[b] : list_tx[b][i] \in Messages(b)

OutcomeTypeOK ==
    /\ DOMAIN outcome = Boards
    /\ \A b \in Boards : outcome[b] \in [Messages(b) -> Statuses]

TxPlaces == {"idle", "send", "wait", "woken", "notnak", "notcan", "acked", "clear"}

SenderTypeOK ==
    /\ txpc \in [Boards -> TxPlaces]
    /\ tx \in [Boards -> [msg : Nat, frag : Nat, num : 0 .. 3, tries : Nat]]
    /\ \A b \in Boards : txpc[b] # "idle" =>
           /\ tx[b].msg \in Messages(b)
           /\ tx[b].frag \in 1 .. Size[b][tx[b].msg] + 1

AnswerTypeOK ==
    /\ rxpc \in [Boards -> {"read", "copy", "signal"}]
    /\ pkt_info_table \in [Boards -> [cmd : Answers, num : 0 .. 3, msg : Nat, frag : Nat]]

ItemTypeOK ==
    /\ DataItemList \in [Boards -> [open : BOOLEAN, data : Seq(Fragments)]]
    /\ PktNum \in [Boards -> 0 .. 3]
    /\ list_rx \in [Boards -> Seq(Seq(Fragments))]

LineTypeOK ==
    /\ line \in [Boards -> Seq(Packets)]
    /\ \A b \in Boards : rxpc[b] # "read" =>
           line[Peer(b)] # <<>> /\ Head(line[Peer(b)]).cmd \in Answers

\* Every variable keeps its type; thread_tx works on a message of its own and
\* on a fragment of it, and thread_rx between its three steps on an answer.
TypeOK == /\ QueueTypeOK /\ OutcomeTypeOK /\ SenderTypeOK
          /\ AnswerTypeOK /\ ItemTypeOK /\ LineTypeOK

Before(f, g) == f[1] < g[1] \/ (f[1] = g[1] /\ f[2] < g[2])

\* The order of the fragments of one message and of two messages in list_rx.
\* Whatever the line loses, however late the answers come and however often a
\* packet is repeated, no fragment reaches the application twice and none
\* overtakes another: the numbers 1, 2, 3 that PktNum counts are enough for
\* that, because the line is first-in first-out.
OnceInOrder ==
    \A b \in Boards : \A i, j \in DOMAIN list_rx[b] :
        \A k \in DOMAIN list_rx[b][i], l \in DOMAIN list_rx[b][j] :
            i < j \/ (i = j /\ k < l) => Before(list_rx[b][i][k], list_rx[b][j][l])

WholeMessage(b, m) == [k \in 1 .. Size[b][m] |-> <<m, k>>]

\* deal_with_eof_packet hands over complete messages only, although it does not
\* look at the packet's number: every item in list_rx is all the fragments of
\* one message, in order.  True of one-way traffic with timely answers.
WholeMessages ==
    \A b \in Boards : \A i \in DOMAIN list_rx[b] :
        \E m \in Messages(Peer(b)) : list_rx[b][i] = WholeMessage(Peer(b), m)

\* tx_data_info returns 0 only for a message the peer has put in its list_rx.
OkMeansDelivered ==
    \A b \in Boards : \A m \in Messages(b) :
        outcome[b][m] = "ok" =>
            \E i \in DOMAIN list_rx[Peer(b)] : list_rx[Peer(b)][i] = WholeMessage(b, m)

\* The link layer as its users see it.
Service == INSTANCE MessageService WITH
    status <- outcome, delivered <- [b \in Boards |-> list_rx[Peer(b)]]

\* One-way traffic with timely answers implements MessageService: whole
\* messages, in order, at most once, and success only for what was handed over.
ImplementsService == Service!Spec

\* Every message given to link_send is eventually sent, refused or dropped:
\* the retries are bounded and a lost signal only costs one of them.
EveryMessageResolved ==
    \A b \in Boards : \A m \in Messages(b) :
        outcome[b][m] = "queued" ~>
            outcome[b][m] \in {"ok", "failed", "cancelled", "cleared"}
=============================================================================
