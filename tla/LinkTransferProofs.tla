------------------------- MODULE LinkTransferProofs -------------------------
(***************************************************************************)
(* Theorems about LinkTransfer, for any number and size of messages, any   *)
(* retry limits and any set of faults unless a theorem says otherwise.     *)
(***************************************************************************)
EXTENDS LinkTransfer, SequenceTheorems, TLAPS

\* Each board's peer is the other one.
LEMMA PeerFacts ==
    \A b \in Boards : Peer(b) \in Boards /\ Peer(b) # b /\ Peer(Peer(b)) = b
BY BoardsAssumption DEF Boards, Peer

\* Packet numbers cycle through 1, 2, 3.
LEMMA NextNumType == \A n \in 0 .. 3 : NextNum(n) \in 1 .. 3
BY DEF NextNum, MAX_PACKET_NUM, MIN_PACKET_NUM

\* Dropping the first d elements of a sequence.
LEMMA SuffixFacts ==
    ASSUME NEW S, NEW s \in Seq(S), NEW k \in 2 .. Len(s) + 1
    PROVE  /\ SubSeq(s, k, Len(s)) \in Seq(S)
           /\ Len(SubSeq(s, k, Len(s))) = Len(s) - (k - 1)
           /\ \A i \in 1 .. Len(s) - (k - 1) : SubSeq(s, k, Len(s))[i] = s[i + (k - 1)]
OBVIOUS

\* Adding an element at the end of a sequence.
LEMMA AppendFacts ==
    ASSUME NEW S, NEW s \in Seq(S), NEW e \in S
    PROVE  /\ Append(s, e) \in Seq(S) /\ Append(s, e) # <<>>
           /\ Len(s) \in Nat /\ Len(Append(s, e)) = Len(s) + 1
           /\ DOMAIN s = 1 .. Len(s) /\ DOMAIN Append(s, e) = 1 .. Len(s) + 1
           /\ Append(s, e)[Len(s) + 1] = e
           /\ \A k \in DOMAIN s : Append(s, e)[k] = s[k]
OBVIOUS

\* What is left on a line after a read: the packets behind the d-th, d >= 1.
LEMMA RemaindersFacts ==
    ASSUME NEW S, NEW s \in Seq(S), s # <<>>, NEW r \in Remainders(s)
    PROVE  /\ r \in Seq(S)
           /\ \E d \in 1 .. Len(s) : /\ Len(r) = Len(s) - d
                                     /\ \A i \in 1 .. Len(r) : r[i] = s[i + d]
<1>1. PICK k \in 2 .. Len(s) + 1 : r = SubSeq(s, k, Len(s))
  BY DEF Remainders
<1>2. /\ r \in Seq(S)
      /\ Len(r) = Len(s) - (k - 1)
      /\ \A i \in 1 .. Len(s) - (k - 1) : r[i] = s[i + (k - 1)]
  BY <1>1, SuffixFacts
<1>3. k - 1 \in 1 .. Len(s)
  OBVIOUS
<1> QED
  BY <1>2, <1>3

\* A write to a line changes nothing that is already on it.
LEMMA WrittenFacts ==
    ASSUME NEW s \in Seq(Packets), NEW p \in Packets, NEW w \in Written(s, p)
    PROVE  /\ w \in Seq(Packets)
           /\ s # <<>> => w # <<>> /\ Head(w) = Head(s)
BY DEF Written

\* Answers are packets.
LEMMA AnswerType ==
    ASSUME NEW cmd \in Answers, NEW num \in 0 .. 3
    PROVE  /\ Answer(cmd, num) \in Packets
           /\ Answer(cmd, num) \in [cmd : Answers, num : 0 .. 3, msg : Nat, frag : Nat]
BY DEF Answer, Packets, Commands, Answers

\* The two kinds of DataItemList entry.
LEMMA ItemType ==
    /\ NoItem \in [open : BOOLEAN, data : Seq(Fragments)]
    /\ \A d \in Seq(Fragments) : OpenItem(d) \in [open : BOOLEAN, data : Seq(Fragments)]
BY DEF NoItem, OpenItem

-----------------------------------------------------------------------------
(***************************************************************************)
(* Type correctness.                                                       *)
(***************************************************************************)

\* The packet thread_tx is about to send is a packet.
LEMMA PacketToSendType ==
    ASSUME TypeOK, NEW b \in Boards
    PROVE  PacketToSend(b) \in Packets
BY DEF TypeOK, SenderTypeOK, PacketToSend, CmdToSend, Packets, Commands, Answers

\* The packet thread_rx looks at is a packet.
LEMMA ArrivedType ==
    ASSUME TypeOK, NEW b \in Boards, line[Peer(b)] # <<>>
    PROVE  /\ Arrived(b) \in Packets /\ Arrived(b).num \in 0 .. 3
           /\ <<Arrived(b).msg, Arrived(b).frag>> \in Fragments
           /\ line[Peer(b)] \in Seq(Packets) /\ line[b] \in Seq(Packets)
<1>1. line[Peer(b)] \in Seq(Packets) /\ line[b] \in Seq(Packets)
  BY PeerFacts DEF TypeOK, LineTypeOK
<1>2. Arrived(b) \in Packets
  BY <1>1 DEF Arrived
<1> QED
  BY <1>1, <1>2 DEF Packets, Fragments

\* A handler of thread_rx that takes a packet off the line keeps the lines typed.
LEMMA ReplyType ==
    ASSUME TypeOK, NEW b \in Boards, rxpc[b] = "read", line[Peer(b)] # <<>>,
           NEW cmd \in Answers, NEW num \in 0 .. 3,
           ConsumeAndSend(b, Answer(cmd, num)), UNCHANGED rxpc
    PROVE  LineTypeOK'
<1>1. PICK rest \in Remainders(line[Peer(b)]), w \in Written(line[b], Answer(cmd, num)) :
         line' = [line EXCEPT ![Peer(b)] = rest, ![b] = w]
  BY DEF ConsumeAndSend
<1>2. rest \in Seq(Packets)
  BY ArrivedType, RemaindersFacts
<1>3. w \in Seq(Packets) /\ (line[b] # <<>> => w # <<>> /\ Head(w) = Head(line[b]))
  BY ArrivedType, AnswerType, WrittenFacts
<1>4. line' \in [Boards -> Seq(Packets)]
  BY <1>1, <1>2, <1>3, PeerFacts DEF TypeOK, LineTypeOK
<1>5. ASSUME NEW c \in Boards, rxpc'[c] # "read"
      PROVE  line'[Peer(c)] # <<>> /\ Head(line'[Peer(c)]).cmd \in Answers
  <2>1. c = Peer(b) /\ Peer(c) = b
    BY <1>5, PeerFacts DEF Boards, Peer
  <2>2. line'[b] = w
    BY <1>1, PeerFacts DEF TypeOK, LineTypeOK
  <2> QED
    BY <1>3, <1>5, <2>1, <2>2 DEF TypeOK, LineTypeOK
<1> QED
  BY <1>4, <1>5 DEF LineTypeOK

\* Writing a packet keeps the lines typed.
LEMMA SendType ==
    ASSUME TypeOK, NEW b \in Boards, NEW p \in Packets, UNCHANGED rxpc,
           NEW w \in Written(line[b], p), line' = [line EXCEPT ![b] = w]
    PROVE  LineTypeOK'
<1>1. line[b] \in Seq(Packets)
  BY DEF TypeOK, LineTypeOK
<1>2. w \in Seq(Packets) /\ (line[b] # <<>> => w # <<>> /\ Head(w) = Head(line[b]))
  BY <1>1, WrittenFacts
<1> QED
  BY <1>1, <1>2, PeerFacts DEF TypeOK, LineTypeOK

\* tx_data_info's return keeps the types.
LEMMA FinishType ==
    ASSUME TypeOK, NEW b \in Boards, txpc[b] # "idle",
           NEW status \in {"ok", "failed", "cancelled"}, Finish(b, status)
    PROVE  OutcomeTypeOK' /\ SenderTypeOK'
<1>1. outcome' = [outcome EXCEPT ![b] = [@ EXCEPT ![tx[b].msg] = status]]
  BY DEF Finish
<1>2. OutcomeTypeOK'
  BY <1>1 DEF TypeOK, OutcomeTypeOK, Statuses
<1>3. SenderTypeOK'
  BY DEF TypeOK, SenderTypeOK, TxPlaces, Finish
<1> QED
  BY <1>2, <1>3

\* So does the decision to send again or to give up.
LEMMA AgainType ==
    ASSUME TypeOK, NEW b \in Boards, txpc[b] # "idle", Retry(b) \/ GiveUp(b)
    PROVE  OutcomeTypeOK' /\ SenderTypeOK'
<1>1. CASE Retry(b)
  BY <1>1 DEF TypeOK, OutcomeTypeOK, SenderTypeOK, TxPlaces, Retry
<1>2. CASE GiveUp(b)
  BY <1>2, FinishType DEF GiveUp
<1> QED
  BY <1>1, <1>2

\* And the step to the next fragment.
LEMMA AdvanceType ==
    ASSUME TypeOK, NEW b \in Boards, txpc[b] # "idle", Advance(b)
    PROVE  OutcomeTypeOK' /\ SenderTypeOK'
<1>1. CASE IsEof(b)
  BY <1>1, FinishType DEF Advance
<1>2. CASE ~IsEof(b)
  <2> DEFINE next == [msg |-> tx[b].msg, frag |-> tx[b].frag + 1,
                      num |-> NextNum(tx[b].num), tries |-> 0]
  <2>1. tx' = [tx EXCEPT ![b] = next] /\ txpc' = [txpc EXCEPT ![b] = "send"] /\ UNCHANGED outcome
    BY <1>2 DEF Advance
  <2>2. next \in [msg : Nat, frag : Nat, num : 0 .. 3, tries : Nat]
    BY NextNumType DEF TypeOK, SenderTypeOK
  <2>3. tx[b].msg \in Messages(b) /\ tx[b].frag \in 1 .. Size[b][tx[b].msg] + 1
    BY DEF TypeOK, SenderTypeOK
  <2>4. Size[b][tx[b].msg] \in Nat
    BY <2>3, SizeAssumption DEF Messages
  <2>5. tx[b].frag + 1 \in 1 .. Size[b][tx[b].msg] + 1
    BY <1>2, <2>3, <2>4 DEF IsEof
  <2>6. SenderTypeOK'
    <3> HIDE DEF next
    <3>1. tx' \in [Boards -> [msg : Nat, frag : Nat, num : 0 .. 3, tries : Nat]]
      BY <2>1, <2>2 DEF TypeOK, SenderTypeOK
    <3>2. txpc' \in [Boards -> TxPlaces]
      BY <2>1 DEF TypeOK, SenderTypeOK, TxPlaces
    <3>3. next.msg = tx[b].msg /\ next.frag = tx[b].frag + 1
      BY DEF next
    <3> QED
      BY <2>1, <2>3, <2>5, <3>1, <3>2, <3>3 DEF TypeOK, SenderTypeOK
  <2> QED
    BY <2>1, <2>6 DEF TypeOK, OutcomeTypeOK
<1> QED
  BY <1>1, <1>2

LEMMA TypeInit == Init => TypeOK
<1> SUFFICES ASSUME Init PROVE TypeOK
  OBVIOUS
<1>1. QueueTypeOK /\ OutcomeTypeOK
  BY SizeAssumption DEF Init, QueueTypeOK, OutcomeTypeOK, Messages, Statuses
<1>2. SenderTypeOK /\ ItemTypeOK /\ LineTypeOK
  BY DEF Init, SenderTypeOK, TxPlaces, ItemTypeOK, LineTypeOK, NoItem
<1>3. AnswerTypeOK
  BY AnswerType DEF Init, AnswerTypeOK, Answers
<1> QED
  BY <1>1, <1>2, <1>3 DEF TypeOK

\* Every step of either board and of the line keeps the types.
LEMMA TypeStep == TypeOK /\ [Next]_vars => TypeOK'
<1> SUFFICES ASSUME TypeOK, [Next]_vars PROVE TypeOK'
  OBVIOUS
<1> USE DEF txVars, rxVars, TxPlaces
<1>1. ASSUME NEW b \in Boards, LinkSend(b) PROVE TypeOK'
  <2>1. SenderTypeOK' /\ AnswerTypeOK' /\ ItemTypeOK' /\ LineTypeOK'
    BY <1>1 DEF LinkSend, TypeOK, SenderTypeOK, AnswerTypeOK, ItemTypeOK, LineTypeOK
  <2>2. QueueTypeOK'
    BY <1>1, SizeAssumption, SMTT(60) DEF LinkSend, TypeOK, QueueTypeOK, Messages
  <2>3. OutcomeTypeOK'
    BY <1>1, SizeAssumption DEF LinkSend, TypeOK, OutcomeTypeOK, Messages, Statuses
  <2> QED
    BY <2>1, <2>2, <2>3 DEF TypeOK
<1>2. ASSUME NEW b \in Boards, TxFetch(b) PROVE TypeOK'
  <2>1. AnswerTypeOK' /\ ItemTypeOK' /\ LineTypeOK'
    BY <1>2 DEF TxFetch, TypeOK, AnswerTypeOK, ItemTypeOK, LineTypeOK
  <2>2. QueueTypeOK'
    BY <1>2 DEF TxFetch, TypeOK, QueueTypeOK
  <2>3. OutcomeTypeOK'
    BY <1>2 DEF TxFetch, TypeOK, OutcomeTypeOK, QueueTypeOK, Statuses
  <2>4. SenderTypeOK'
    <3> DEFINE first == [msg |-> Head(list_tx[b]), frag |-> 1, num |-> MIN_PACKET_NUM, tries |-> 0]
    <3>1. tx' = [tx EXCEPT ![b] = first] /\ txpc' = [txpc EXCEPT ![b] = "send"]
      BY <1>2 DEF TxFetch
    <3>2. Head(list_tx[b]) \in Messages(b) /\ Head(list_tx[b]) \in Nat
      BY <1>2 DEF TxFetch, TypeOK, QueueTypeOK
    <3>3. Size[b][Head(list_tx[b])] \in Nat
      BY <3>2, SizeAssumption DEF Messages
    <3>4. first \in [msg : Nat, frag : Nat, num : 0 .. 3, tries : Nat]
      BY <3>2 DEF MIN_PACKET_NUM
    <3>5. first.msg \in Messages(b) /\ first.frag \in 1 .. Size[b][first.msg] + 1
      BY <3>2, <3>3
    <3> HIDE DEF first
    <3> QED
      BY <3>1, <3>4, <3>5 DEF TypeOK, SenderTypeOK
  <2> QED
    BY <2>1, <2>2, <2>3, <2>4 DEF TypeOK
<1>3. ASSUME NEW b \in Boards, TxSend(b) PROVE TypeOK'
  <2>1. QueueTypeOK' /\ OutcomeTypeOK' /\ AnswerTypeOK' /\ ItemTypeOK'
    BY <1>3 DEF TxSend, TypeOK, QueueTypeOK, OutcomeTypeOK, AnswerTypeOK, ItemTypeOK
  <2>2. SenderTypeOK'
    BY <1>3 DEF TxSend, TypeOK, SenderTypeOK, CountTry
  <2>3. LineTypeOK'
    BY <1>3, SendType, PacketToSendType DEF TxSend, TypeOK, LineTypeOK, AnswerTypeOK
  <2> QED
    BY <2>1, <2>2, <2>3 DEF TypeOK
<1>4. ASSUME NEW b \in Boards, TxSendError(b) PROVE TypeOK'
  <2>1. QueueTypeOK' /\ AnswerTypeOK' /\ ItemTypeOK'
    BY <1>4 DEF TxSendError, TypeOK, QueueTypeOK, AnswerTypeOK, ItemTypeOK
  <2>2. OutcomeTypeOK' /\ SenderTypeOK'
    BY <1>4, FinishType DEF TxSendError, TypeOK, OutcomeTypeOK, SenderTypeOK
  <2>3. LineTypeOK'
    BY <1>4, SendType, PacketToSendType DEF TxSendError, TypeOK, LineTypeOK
  <2> QED
    BY <2>1, <2>2, <2>3 DEF TypeOK
<1>5. ASSUME NEW b \in Boards, TxTimeout(b) PROVE TypeOK'
  <2>1. QueueTypeOK' /\ AnswerTypeOK' /\ ItemTypeOK' /\ LineTypeOK'
    BY <1>5 DEF TxTimeout, TypeOK, QueueTypeOK, AnswerTypeOK, ItemTypeOK, LineTypeOK
  <2>2. OutcomeTypeOK' /\ SenderTypeOK'
    BY <1>5, AgainType DEF TxTimeout, TypeOK, OutcomeTypeOK, SenderTypeOK
  <2> QED
    BY <2>1, <2>2 DEF TypeOK
<1>6. ASSUME NEW b \in Boards, TxSpuriousWake(b) PROVE TypeOK'
  <2>1. QueueTypeOK' /\ OutcomeTypeOK' /\ AnswerTypeOK' /\ ItemTypeOK' /\ LineTypeOK'
    BY <1>6 DEF TxSpuriousWake, TypeOK, QueueTypeOK, OutcomeTypeOK, AnswerTypeOK, ItemTypeOK, LineTypeOK
  <2>2. SenderTypeOK'
    BY <1>6 DEF TxSpuriousWake, TypeOK, SenderTypeOK
  <2> QED
    BY <2>1, <2>2 DEF TypeOK
<1>7. ASSUME NEW b \in Boards, TxAnswered(b) PROVE TypeOK'
  <2>1. QueueTypeOK' /\ AnswerTypeOK' /\ ItemTypeOK' /\ LineTypeOK'
    BY <1>7 DEF TxAnswered, TxCompareNak, TxCompareCan, TxCompareAck, TxCompareNum,
                TypeOK, QueueTypeOK, AnswerTypeOK, ItemTypeOK, LineTypeOK
  <2>2. CASE TxCompareNak(b)
    BY <2>1, <2>2, AgainType DEF TxCompareNak, TypeOK, OutcomeTypeOK, SenderTypeOK
  <2>3. CASE TxCompareCan(b)
    BY <2>1, <2>3, FinishType DEF TxCompareCan, TypeOK, OutcomeTypeOK, SenderTypeOK
  <2>4. CASE TxCompareAck(b)
    BY <2>1, <2>4, AdvanceType DEF TxCompareAck, TypeOK, OutcomeTypeOK, SenderTypeOK
  <2>5. CASE TxCompareNum(b)
    BY <2>1, <2>5, AgainType, AdvanceType DEF TxCompareNum, TypeOK
  <2> QED
    BY <1>7, <2>2, <2>3, <2>4, <2>5 DEF TxAnswered
<1>8. ASSUME NEW b \in Boards, TxClear(b) PROVE TypeOK'
  <2>1. AnswerTypeOK' /\ ItemTypeOK' /\ LineTypeOK'
    BY <1>8 DEF TxClear, TypeOK, AnswerTypeOK, ItemTypeOK, LineTypeOK
  <2>2. QueueTypeOK'
    BY <1>8 DEF TxClear, TypeOK, QueueTypeOK
  <2>3. OutcomeTypeOK'
    BY <1>8 DEF TxClear, TypeOK, OutcomeTypeOK, Statuses
  <2>4. SenderTypeOK'
    BY <1>8 DEF TxClear, TypeOK, SenderTypeOK
  <2> QED
    BY <2>1, <2>2, <2>3, <2>4 DEF TypeOK
<1>9. ASSUME NEW b \in Boards, RxCorrupt(b) PROVE TypeOK'
  <2>1. QueueTypeOK' /\ OutcomeTypeOK' /\ SenderTypeOK' /\ AnswerTypeOK' /\ ItemTypeOK'
    BY <1>9 DEF RxCorrupt, TypeOK, QueueTypeOK, OutcomeTypeOK, SenderTypeOK, AnswerTypeOK, ItemTypeOK
  <2>2. LineTypeOK'
    BY <1>9, ReplyType DEF RxCorrupt, Nack, TypeOK, LineTypeOK, Reading, Answers
  <2> QED
    BY <2>1, <2>2 DEF TypeOK
<1>10. ASSUME NEW b \in Boards, RxAnswerZero(b) PROVE TypeOK'
  <2>1. QueueTypeOK' /\ OutcomeTypeOK' /\ SenderTypeOK' /\ ItemTypeOK'
    BY <1>10 DEF RxAnswerZero, TypeOK, QueueTypeOK, OutcomeTypeOK, SenderTypeOK, ItemTypeOK
  <2>2. AnswerTypeOK'
    BY <1>10, AnswerType DEF RxAnswerZero, TypeOK, AnswerTypeOK, Answers
  <2>3. LineTypeOK'
    BY <1>10, PeerFacts DEF RxAnswerZero, TypeOK, LineTypeOK, Reading, Arrived, AnswerTypeOK
  <2> QED
    BY <2>1, <2>2, <2>3 DEF TypeOK
<1>11. ASSUME NEW b \in Boards, RxAnswerCopy(b) PROVE TypeOK'
  <2>1. QueueTypeOK' /\ OutcomeTypeOK' /\ SenderTypeOK' /\ ItemTypeOK'
    BY <1>11 DEF RxAnswerCopy, TypeOK, QueueTypeOK, OutcomeTypeOK, SenderTypeOK, ItemTypeOK
  <2>2. AnswerTypeOK'
    BY <1>11, AnswerType, ArrivedType DEF RxAnswerCopy, TypeOK, AnswerTypeOK, LineTypeOK, Arrived
  <2>3. LineTypeOK'
    BY <1>11, PeerFacts DEF RxAnswerCopy, TypeOK, LineTypeOK, AnswerTypeOK
  <2> QED
    BY <2>1, <2>2, <2>3 DEF TypeOK
<1>12. ASSUME NEW b \in Boards, RxAnswerSignal(b) PROVE TypeOK'
  <2>1. QueueTypeOK' /\ OutcomeTypeOK' /\ ItemTypeOK'
    BY <1>12 DEF RxAnswerSignal, TypeOK, QueueTypeOK, OutcomeTypeOK, ItemTypeOK
  <2>2. SenderTypeOK'
    BY <1>12 DEF RxAnswerSignal, TypeOK, SenderTypeOK
  <2>3. AnswerTypeOK'
    BY <1>12 DEF RxAnswerSignal, TypeOK, AnswerTypeOK
  <2>4. LineTypeOK'
    BY <1>12, PeerFacts, ArrivedType, RemaindersFacts DEF RxAnswerSignal, TypeOK, LineTypeOK, Consume, AnswerTypeOK
  <2> QED
    BY <2>1, <2>2, <2>3, <2>4 DEF TypeOK
<1>13. ASSUME NEW b \in Boards, RxSof(b) PROVE TypeOK'
  <2>1. QueueTypeOK' /\ OutcomeTypeOK' /\ SenderTypeOK' /\ AnswerTypeOK'
    BY <1>13 DEF RxSof, TypeOK, QueueTypeOK, OutcomeTypeOK, SenderTypeOK, AnswerTypeOK
  <2>2. ItemTypeOK'
    <3>1. Arrived(b).num \in 0 .. 3 /\ << <<Arrived(b).msg, Arrived(b).frag>> >> \in Seq(Fragments)
      BY <1>13, ArrivedType DEF RxSof, Reading
    <3>2. \/ UNCHANGED PktNum
          \/ \E n \in 0 .. 3 : PktNum' = [PktNum EXCEPT ![b] = n]
      BY <1>13, NextNumType DEF RxSof, MIN_PACKET_NUM
    <3>3. \/ UNCHANGED DataItemList
          \/ DataItemList' = [DataItemList EXCEPT ![b] = NoItem]
          \/ \E d \in Seq(Fragments) : DataItemList' = [DataItemList EXCEPT ![b] = OpenItem(d)]
      <4> DEFINE first == << <<Arrived(b).msg, Arrived(b).frag>> >>
      <4>1. \/ UNCHANGED DataItemList
            \/ DataItemList' = [DataItemList EXCEPT ![b] = NoItem]
            \/ DataItemList' = [DataItemList EXCEPT ![b] = OpenItem(<<>>)]
            \/ DataItemList' = [DataItemList EXCEPT ![b] = OpenItem(first)]
        BY <1>13 DEF RxSof
      <4>2. first \in Seq(Fragments) /\ <<>> \in Seq(Fragments)
        BY <3>1
      <4> HIDE DEF first
      <4> QED
        BY <4>1, <4>2
    <3>4. UNCHANGED list_rx
      BY <1>13 DEF RxSof
    <3> QED
      BY <3>2, <3>3, <3>4, ItemType DEF TypeOK, ItemTypeOK
  <2>3. LineTypeOK'
    BY <1>13, ReplyType, ArrivedType DEF RxSof, TypeOK, LineTypeOK, Reading, Reply, Answers
  <2> QED
    BY <2>1, <2>2, <2>3 DEF TypeOK
<1>14. ASSUME NEW b \in Boards, RxTx(b) PROVE TypeOK'
  <2>1. QueueTypeOK' /\ OutcomeTypeOK' /\ SenderTypeOK' /\ AnswerTypeOK'
    BY <1>14 DEF RxTx, TypeOK, QueueTypeOK, OutcomeTypeOK, SenderTypeOK, AnswerTypeOK
  <2>2. ItemTypeOK'
    <3>1. Append(DataItemList[b].data, <<Arrived(b).msg, Arrived(b).frag>>) \in Seq(Fragments)
      BY <1>14, ArrivedType DEF RxTx, Reading, TypeOK, ItemTypeOK
    <3>2. PktNum[b] \in 0 .. 3
      BY DEF TypeOK, ItemTypeOK
    <3>3. \/ UNCHANGED PktNum
          \/ \E n \in 0 .. 3 : PktNum' = [PktNum EXCEPT ![b] = n]
      BY <1>14, <3>2, NextNumType DEF RxTx, MIN_PACKET_NUM
    <3>4. \/ UNCHANGED DataItemList
          \/ DataItemList' = [DataItemList EXCEPT ![b] = NoItem]
          \/ \E d \in Seq(Fragments) : DataItemList' = [DataItemList EXCEPT ![b] = OpenItem(d)]
      BY <1>14, <3>1 DEF RxTx
    <3>5. UNCHANGED list_rx
      BY <1>14 DEF RxTx
    <3> QED
      BY <3>3, <3>4, <3>5, ItemType DEF TypeOK, ItemTypeOK
  <2>3. LineTypeOK'
    BY <1>14, ReplyType, ArrivedType DEF RxTx, TypeOK, LineTypeOK, Reading, Reply, Answers
  <2> QED
    BY <2>1, <2>2, <2>3 DEF TypeOK
<1>15. ASSUME NEW b \in Boards, RxEof(b) PROVE TypeOK'
  <2>1. QueueTypeOK' /\ OutcomeTypeOK' /\ SenderTypeOK' /\ AnswerTypeOK'
    BY <1>15 DEF RxEof, TypeOK, QueueTypeOK, OutcomeTypeOK, SenderTypeOK, AnswerTypeOK
  <2>2. ItemTypeOK'
    <3>1. \/ UNCHANGED PktNum
          \/ \E n \in 0 .. 3 : PktNum' = [PktNum EXCEPT ![b] = n]
      BY <1>15 DEF RxEof, MIN_PACKET_NUM
    <3>2. \/ UNCHANGED DataItemList
          \/ DataItemList' = [DataItemList EXCEPT ![b] = NoItem]
      BY <1>15 DEF RxEof, HandOver
    <3>3. Append(list_rx[b], DataItemList[b].data) \in Seq(Seq(Fragments))
      BY DEF TypeOK, ItemTypeOK
    <3>4. list_rx' \in [Boards -> Seq(Seq(Fragments))]
      BY <1>15, <3>3 DEF RxEof, HandOver, TypeOK, ItemTypeOK
    <3>5. PktNum' \in [Boards -> 0 .. 3]
      BY <3>1 DEF TypeOK, ItemTypeOK
    <3>6. DataItemList' \in [Boards -> [open : BOOLEAN, data : Seq(Fragments)]]
      BY <3>2, ItemType DEF TypeOK, ItemTypeOK
    <3> QED
      BY <3>4, <3>5, <3>6 DEF ItemTypeOK
  <2>3. LineTypeOK'
    BY <1>15, ReplyType, ArrivedType DEF RxEof, EofAnswer, TypeOK, LineTypeOK, Reading, Reply, Answers
  <2> QED
    BY <2>1, <2>2, <2>3 DEF TypeOK
<1>16. ASSUME NEW b \in Boards, LineLoses(b) PROVE TypeOK'
  <2>1. QueueTypeOK' /\ OutcomeTypeOK' /\ SenderTypeOK' /\ AnswerTypeOK' /\ ItemTypeOK'
    BY <1>16 DEF LineLoses, TypeOK, QueueTypeOK, OutcomeTypeOK, SenderTypeOK, AnswerTypeOK, ItemTypeOK
  <2>2. LineTypeOK'
    BY <1>16, PeerFacts DEF LineLoses, TypeOK, LineTypeOK
  <2> QED
    BY <2>1, <2>2 DEF TypeOK
<1>17. ASSUME NEW b \in Boards, LineFlipsHeader(b) PROVE TypeOK'
  <2>1. QueueTypeOK' /\ OutcomeTypeOK' /\ SenderTypeOK' /\ AnswerTypeOK' /\ ItemTypeOK'
    BY <1>17 DEF LineFlipsHeader, TypeOK, QueueTypeOK, OutcomeTypeOK, SenderTypeOK, AnswerTypeOK, ItemTypeOK
  <2>2. LineTypeOK'
    <3>1. line[b] \in Seq(Packets) /\ line[b] # <<>> /\ Head(line[b]) \in Packets
      BY <1>17 DEF LineFlipsHeader, TypeOK, LineTypeOK
    <3>2. PICK p : /\ \/ \E c \in Commands : p = [Head(line[b]) EXCEPT !.cmd = c]
                      \/ \E n \in 0 .. 3 : p = [Head(line[b]) EXCEPT !.num = n]
                   /\ line' = [line EXCEPT ![b] = <<p>> \o Tail(@)]
      BY <1>17, <3>1 DEF LineFlipsHeader, SameKind, Commands, Answers
    <3>3. p \in Packets
      BY <3>1, <3>2 DEF Packets
    <3>4. <<p>> \o Tail(line[b]) \in Seq(Packets)
      BY <3>1, <3>3
    <3> QED
      BY <1>17, <3>2, <3>4, PeerFacts DEF LineFlipsHeader, TypeOK, LineTypeOK
  <2> QED
    BY <2>1, <2>2 DEF TypeOK
<1>18. ASSUME UNCHANGED vars PROVE TypeOK'
  BY <1>18 DEF vars, TypeOK, QueueTypeOK, OutcomeTypeOK, SenderTypeOK, AnswerTypeOK, ItemTypeOK, LineTypeOK
<1> QED
  BY <1>1, <1>2, <1>3, <1>4, <1>5, <1>6, <1>7, <1>8, <1>9, <1>10, <1>11, <1>12, <1>13, <1>14, <1>15, <1>16, <1>17, <1>18 DEF Next, Quiescent

\* Every variable of both boards and of the line keeps its type.
THEOREM TypeCorrect == Spec => []TypeOK
BY TypeInit, TypeStep, PTL DEF Spec

-----------------------------------------------------------------------------
(***************************************************************************)
(* Order.  As long as no header is flipped, the number of a data packet    *)
(* follows from its fragment, the data packets of a board are on the line  *)
(* in the order thread_tx sent them, and what the peer holds is not ahead  *)
(* of the line.  A repeated packet then never has the number PktNum waits  *)
(* for, which is all that keeps a fragment from being taken twice.         *)
(***************************************************************************)

\* The fragment a packet carries and the one thread_tx is at; the eof packet
\* comes after the last fragment.
Frag(p) == <<p.msg, p.frag>>
AtFrag(b) == <<tx[b].msg, tx[b].frag>>
AtEof(b, f) == f[2] > Size[b][f[1]]
Upto(f, g) == f = g \/ Before(f, g)

\* The number of the k-th packet of a message.
NumOf(k) == ((k - 1) % 3) + 1

\* The data packets on the line from b, and what its peer makes of them.
IsData(p) == p.cmd \notin Answers
OnLine(b) == {line[b][i] : i \in {j \in DOMAIN line[b] : IsData(line[b][j])}}
Item(b)  == DataItemList[Peer(b)]
Taken(b) == list_rx[Peer(b)]

\* thread_tx takes the messages in the order of link_send, each one once.
QueueOrder(b) ==
    /\ tx[b].msg <= submitted[b]
    /\ \A i \in DOMAIN list_tx[b] : tx[b].msg < list_tx[b][i] /\ list_tx[b][i] <= submitted[b]
    /\ \A i, j \in DOMAIN list_tx[b] : i < j => list_tx[b][i] < list_tx[b][j]

SenderNum(b) == txpc[b] # "idle" => tx[b].frag >= 1 /\ tx[b].num = NumOf(tx[b].frag)

\* A data packet is as thread_tx makes it, and not ahead of thread_tx.
Sent(b, p) == /\ p.frag >= 1 /\ p.num = NumOf(p.frag)
              /\ p.cmd = "sof" => p.num = MIN_PACKET_NUM
              /\ p.cmd = "eof" <=> AtEof(b, Frag(p))
              /\ Upto(Frag(p), AtFrag(b))

LineSent(b) == \A p \in OnLine(b) : Sent(b, p)

LineOrder(b) ==
    \A i, j \in DOMAIN line[b] :
        i < j /\ IsData(line[b][i]) /\ IsData(line[b][j]) => Upto(Frag(line[b][i]), Frag(line[b][j]))

\* The fragments under assembly are in order, PktNum is the number after the
\* last one, and none of them is ahead of thread_tx or of the line.
Assembled(b, f) == /\ f[2] >= 1 /\ ~AtEof(b, f)
                   /\ Upto(f, AtFrag(b))
                   /\ \A p \in OnLine(b) : Upto(f, Frag(p))

ItemOrder(b) ==
    Item(b).open =>
        /\ Item(b).data # <<>>
        /\ PktNum[Peer(b)] = NumOf(Item(b).data[Len(Item(b).data)][2] + 1)
        /\ \A k, l \in DOMAIN Item(b).data : k < l => Before(Item(b).data[k], Item(b).data[l])
        /\ \A k \in DOMAIN Item(b).data : Assembled(b, Item(b).data[k])

\* What the application was given is behind everything else, and in order.
Behind(b, f) == /\ Before(f, AtFrag(b))
                /\ \A p \in OnLine(b) : Before(f, Frag(p))
                /\ Item(b).open => \A l \in DOMAIN Item(b).data : Before(f, Item(b).data[l])

TakenBehind(b) == \A i \in DOMAIN Taken(b) : \A k \in DOMAIN Taken(b)[i] : Behind(b, Taken(b)[i][k])

TakenOrder(b) ==
    \A i, j \in DOMAIN Taken(b) : \A k \in DOMAIN Taken(b)[i], l \in DOMAIN Taken(b)[j] :
        i < j \/ (i = j /\ k < l) => Before(Taken(b)[i][k], Taken(b)[j][l])

\* The traffic from b to its peer.
SendOrder(b) == QueueOrder(b) /\ SenderNum(b)
Order(b) == SendOrder(b) /\ LineSent(b) /\ LineOrder(b)
              /\ ItemOrder(b) /\ TakenBehind(b) /\ TakenOrder(b)

OrderInv == \A b \in Boards : Order(b)


\* The order of the fragments, lexicographic on pairs of numbers.
LEMMA UptoFacts ==
    \A f, g, h \in Fragments :
        /\ Upto(f, g) /\ Upto(g, h) => Upto(f, h)
        /\ Before(f, g) /\ Upto(g, h) => Before(f, h)
        /\ Upto(f, g) /\ Before(g, h) => Before(f, h)
        /\ Upto(f, g) /\ f # g => Before(f, g)
BY DEF Upto, Before, Fragments

\* Neighbouring packets of a message have different numbers.
LEMMA NumFacts ==
    /\ NumOf(1) = MIN_PACKET_NUM
    /\ \A k \in Nat \ {0} : /\ NextNum(NumOf(k)) = NumOf(k + 1)
                            /\ NumOf(k + 1) # NumOf(k)
BY DEF NumOf, NextNum, MIN_PACKET_NUM, MAX_PACKET_NUM

\* Everything that is compared is a fragment.
LEMMA FragmentTypes ==
    ASSUME TypeOK, NEW b \in Boards
    PROVE  /\ AtFrag(b) \in Fragments
           /\ \A p \in OnLine(b) : p \in Packets /\ IsData(p) /\ Frag(p) \in Fragments
           /\ Item(b).data \in Seq(Fragments)
           /\ \A k \in DOMAIN Item(b).data : Item(b).data[k] \in Fragments
           /\ Taken(b) \in Seq(Seq(Fragments))
           /\ \A i \in DOMAIN Taken(b) : \A k \in DOMAIN Taken(b)[i] : Taken(b)[i][k] \in Fragments
<1>1. AtFrag(b) \in Fragments
  BY DEF TypeOK, SenderTypeOK, AtFrag, Fragments
<1>2. ASSUME NEW p \in OnLine(b) PROVE p \in Packets /\ IsData(p) /\ Frag(p) \in Fragments
  <2>1. p \in Packets /\ IsData(p)
    BY DEF OnLine, TypeOK, LineTypeOK
  <2> QED BY <2>1 DEF Packets, Frag, Fragments
<1>3. Item(b).data \in Seq(Fragments) /\ Taken(b) \in Seq(Seq(Fragments))
  BY PeerFacts DEF TypeOK, ItemTypeOK, Item, Taken
<1>4. \A k \in DOMAIN Item(b).data : Item(b).data[k] \in Fragments
  BY <1>3
<1>5. \A i \in DOMAIN Taken(b) : \A k \in DOMAIN Taken(b)[i] : Taken(b)[i][k] \in Fragments
  <2>1. \A i \in DOMAIN Taken(b) : Taken(b)[i] \in Seq(Fragments)
    BY <1>3
  <2> QED BY <2>1
<1> QED BY <1>1, <1>2, <1>3, <1>4, <1>5

\* Taking packets off the front of a line keeps the order of the others, and they
\* are not before the first.
LEMMA LineShrinks ==
    ASSUME TypeOK, NEW b \in Boards, LineOrder(b), line[b] # <<>>,
           NEW rest \in Remainders(line[b]), line'[b] = rest
    PROVE  /\ OnLine(b)' \subseteq OnLine(b) /\ LineOrder(b)'
           /\ IsData(Head(line[b])) =>
                  /\ Head(line[b]) \in OnLine(b)
                  /\ \A q \in OnLine(b)' : Upto(Frag(Head(line[b])), Frag(q))
<1>1. line[b] \in Seq(Packets)
  BY DEF TypeOK, LineTypeOK
<1>2. PICK d \in 1 .. Len(line[b]) : /\ Len(rest) = Len(line[b]) - d
                                     /\ \A i \in 1 .. Len(rest) : rest[i] = line[b][i + d]
  BY <1>1, RemaindersFacts
<1>3. rest \in Seq(Packets) /\ DOMAIN rest = 1 .. Len(rest) /\ DOMAIN line[b] = 1 .. Len(line[b])
  BY <1>1, RemaindersFacts
<1>4. \A i \in DOMAIN rest : i + d \in DOMAIN line[b] /\ rest[i] = line[b][i + d] /\ 1 < i + d
  BY <1>1, <1>2, <1>3
<1>5. OnLine(b)' \subseteq OnLine(b)
  BY <1>4 DEF OnLine, IsData
<1>6. LineOrder(b)'
  <2> SUFFICES ASSUME NEW i \in DOMAIN rest, NEW j \in DOMAIN rest, i < j,
                      IsData(rest[i]), IsData(rest[j])
               PROVE  Upto(Frag(rest[i]), Frag(rest[j]))
    BY DEF LineOrder
  <2>1. i + d < j + d
    BY <1>2, <1>3
  <2> QED BY <1>4, <2>1 DEF LineOrder
<1>7. ASSUME IsData(Head(line[b]))
      PROVE  /\ Head(line[b]) \in OnLine(b)
             /\ \A q \in OnLine(b)' : Upto(Frag(Head(line[b])), Frag(q))
  <2>1. 1 \in DOMAIN line[b] /\ Head(line[b]) = line[b][1]
    BY <1>1
  <2>2. Head(line[b]) \in OnLine(b)
    BY <1>7, <2>1 DEF OnLine
  <2>3. ASSUME NEW q \in OnLine(b)' PROVE Upto(Frag(Head(line[b])), Frag(q))
    <3>1. PICK i \in DOMAIN rest : q = rest[i] /\ IsData(rest[i])
      BY <2>3 DEF OnLine
    <3> QED BY <1>4, <1>7, <2>1, <3>1 DEF LineOrder
  <2> QED BY <2>2, <2>3
<1> QED BY <1>5, <1>6, <1>7

\* So does writing a packet that is not before any other.
LEMMA LineGrows ==
    ASSUME TypeOK, NEW b \in Boards, LineOrder(b), NEW p \in Packets,
           NEW w \in Written(line[b], p), line'[b] = w,
           IsData(p) => \A q \in OnLine(b) : Upto(Frag(q), Frag(p))
    PROVE  /\ \A q \in OnLine(b)' : q \in OnLine(b) \/ (IsData(p) /\ q = p)
           /\ LineOrder(b)'
<1>1. line[b] \in Seq(Packets)
  BY DEF TypeOK, LineTypeOK
<1>2. CASE w = line[b]
  BY <1>2 DEF OnLine, LineOrder
<1>3. CASE w = Append(line[b], p)
  <2>1. /\ DOMAIN w = 1 .. Len(line[b]) + 1 /\ DOMAIN line[b] = 1 .. Len(line[b])
        /\ w[Len(line[b]) + 1] = p /\ Len(line[b]) \in Nat
        /\ \A i \in DOMAIN line[b] : w[i] = line[b][i]
    BY <1>1, <1>3
  <2>2. ASSUME NEW i \in DOMAIN w PROVE i \in DOMAIN line[b] \/ i = Len(line[b]) + 1
    BY <2>1
  <2>3. \A q \in OnLine(b)' : q \in OnLine(b) \/ (IsData(p) /\ q = p)
    BY <2>1, <2>2 DEF OnLine
  <2>4. ASSUME NEW i \in DOMAIN w, NEW j \in DOMAIN w, i < j, IsData(w[i]), IsData(w[j])
        PROVE  Upto(Frag(w[i]), Frag(w[j]))
    <3>1. i \in DOMAIN line[b]
      BY <2>1, <2>4
    <3>2. w[i] \in OnLine(b)
      BY <2>1, <2>4, <3>1 DEF OnLine
    <3>3. CASE j \in DOMAIN line[b]
      BY <2>1, <2>4, <3>1, <3>3 DEF LineOrder
    <3>4. CASE j = Len(line[b]) + 1
      BY <2>1, <2>4, <3>2, <3>4
    <3> QED BY <2>2, <3>3, <3>4
  <2>5. LineOrder(b)'
    BY <2>4 DEF LineOrder
  <2> QED BY <2>3, <2>5
<1> QED BY <1>2, <1>3 DEF Written

\* A step that neither adds to the item under assembly nor hands it over.
LEMMA OrderKept ==
    ASSUME TypeOK, TypeOK', NEW b \in Boards, Order(b), SendOrder(b)', LineOrder(b)',
           Upto(AtFrag(b), AtFrag(b)'),
           \A q \in OnLine(b)' : q \in OnLine(b) \/ (Sent(b, q)' /\ Frag(q) = AtFrag(b)),
           \/ ~Item(b)'.open
           \/ Item(b)' = Item(b) /\ PktNum'[Peer(b)] = PktNum[Peer(b)],
           Taken(b)' = Taken(b)
    PROVE  Order(b)'
<1> USE FragmentTypes, UptoFacts
<1>0. AtFrag(b)' \in Fragments /\ AtFrag(b) \in Fragments
  BY DEF TypeOK, SenderTypeOK, AtFrag, Fragments
<1>1. ASSUME NEW q \in OnLine(b)' PROVE Sent(b, q)'
  <2>1. CASE q \in OnLine(b)
    <3>1. Sent(b, q) /\ Frag(q) \in Fragments
      BY <2>1 DEF Order, LineSent
    <3>2. Upto(Frag(q), AtFrag(b)')
      BY <1>0, <3>1 DEF Sent
    <3> QED BY <3>1, <3>2 DEF Sent, AtEof, Frag
  <2> QED BY <1>1, <2>1
<1>2. LineSent(b)'
  BY <1>1 DEF LineSent
<1>3. ASSUME NEW f \in Fragments, Assembled(b, f) PROVE Assembled(b, f)'
  <2>1. Upto(f, AtFrag(b)')
    BY <1>0, <1>3 DEF Assembled
  <2>2. \A q \in OnLine(b)' : Upto(f, Frag(q))
    BY <1>3 DEF Assembled
  <2> QED BY <1>3, <2>1, <2>2 DEF Assembled, AtEof
<1>4. ItemOrder(b)'
  <2>1. CASE ~Item(b)'.open
    BY <2>1 DEF ItemOrder
  <2>2. CASE Item(b)' = Item(b) /\ PktNum'[Peer(b)] = PktNum[Peer(b)]
    BY <1>3, <2>2 DEF Order, ItemOrder
  <2> QED BY <2>1, <2>2
<1>5. ASSUME NEW f \in Fragments, Behind(b, f) PROVE Behind(b, f)'
  <2>1. Before(f, AtFrag(b)')
    BY <1>0, <1>5 DEF Behind
  <2>2. \A q \in OnLine(b)' : Before(f, Frag(q))
    BY <1>5 DEF Behind
  <2> QED BY <1>5, <2>1, <2>2 DEF Behind
<1>6. TakenBehind(b)' /\ TakenOrder(b)'
  BY <1>5 DEF Order, TakenBehind, TakenOrder
<1> QED BY <1>2, <1>4, <1>6 DEF Order

\* What a handler of thread_rx knows of the data packet p it takes off the line
\* from b, and of the packets it leaves there.
LEMMA Arriving ==
    ASSUME TypeOK, NEW b \in Boards, Order(b), line[b] # <<>>,
           NEW p, p = Head(line[b]), IsData(p),
           NEW rest \in Remainders(line[b]), line'[b] = rest
    PROVE  /\ p \in OnLine(b) /\ Sent(b, p) /\ p \in Packets /\ Frag(p) \in Fragments
           /\ p.frag \in Nat \ {0}
           /\ \A q \in OnLine(b)' : q \in OnLine(b) /\ Upto(Frag(p), Frag(q))
           /\ LineOrder(b)'
<1>1. /\ OnLine(b)' \subseteq OnLine(b) /\ LineOrder(b)'
      /\ p \in OnLine(b)
      /\ \A q \in OnLine(b)' : Upto(Frag(p), Frag(q))
  BY LineShrinks DEF Order
<1>2. Sent(b, p) /\ p \in Packets /\ Frag(p) \in Fragments
  BY <1>1, FragmentTypes DEF Order, LineSent
<1> QED BY <1>1, <1>2 DEF Sent, Packets

\* deal_with_sof_packet and deal_with_tx_packet take the fragment of the packet;
\* old is what they keep of the item.
LEMMA OrderTakes ==
    ASSUME TypeOK, TypeOK', NEW b \in Boards, Order(b), line[b] # <<>>,
           NEW p, p = Head(line[b]), IsData(p), p.cmd # "eof",
           NEW rest \in Remainders(line[b]), line'[b] = rest,
           SendOrder(b)', AtFrag(b)' = AtFrag(b), Taken(b)' = Taken(b),
           NEW old \in Seq(Fragments),
           old = <<>> \/ (Item(b).open /\ old = Item(b).data /\ p.num = PktNum[Peer(b)]),
           Item(b)' = OpenItem(Append(old, Frag(p))),
           PktNum'[Peer(b)] = NextNum(p.num)
    PROVE  Order(b)'
<1> USE FragmentTypes, UptoFacts
<1>1. /\ p \in OnLine(b) /\ Sent(b, p) /\ Frag(p) \in Fragments
      /\ \A q \in OnLine(b)' : q \in OnLine(b) /\ Upto(Frag(p), Frag(q))
      /\ LineOrder(b)'
  BY Arriving
<1>2. p.frag \in Nat \ {0} /\ p.num = NumOf(p.frag) /\ ~AtEof(b, Frag(p))
  BY <1>1, Arriving DEF Sent
<1>3. Item(b)'.open /\ Item(b)'.data = Append(old, Frag(p))
  BY DEF OpenItem
<1>4. AtFrag(b) \in Fragments /\ \A k \in DOMAIN old : old[k] \in Fragments
  OBVIOUS
<1>5. ASSUME NEW k \in DOMAIN old
      PROVE  /\ Before(old[k], Frag(p)) /\ Assembled(b, old[k])
             /\ \A l \in DOMAIN old : k < l => Before(old[k], old[l])
  <2>1. Item(b).open /\ old = Item(b).data /\ old # <<>> /\ p.num = PktNum[Peer(b)]
    BY <1>5
  <2>2. PICK last : last = old[Len(old)]
    OBVIOUS
  <2>3. Len(old) \in DOMAIN old /\ last \in Fragments
    BY <1>4, <2>1, <2>2
  <2>4. /\ PktNum[Peer(b)] = NumOf(last[2] + 1)
        /\ Assembled(b, last) /\ Assembled(b, old[k])
        /\ \A l \in DOMAIN old : k < l => Before(old[k], old[l])
    BY <2>1, <2>2, <2>3 DEF Order, ItemOrder
  <2>5. Upto(last, Frag(p)) /\ last[2] >= 1
    BY <1>1, <2>4 DEF Assembled
  <2>6. last # Frag(p)
    <3>1. last[2] \in Nat \ {0} /\ (last = Frag(p) => last[2] = p.frag)
      BY <2>3, <2>5 DEF Fragments, Frag
    <3> QED BY <1>2, <2>1, <2>4, <3>1, NumFacts
  <2>7. Before(last, Frag(p))
    BY <1>1, <2>3, <2>5, <2>6
  <2>8. k = Len(old) \/ k < Len(old)
    BY <1>5
  <2>9. CASE k = Len(old)
    BY <2>2, <2>4, <2>7, <2>9
  <2>10. CASE k < Len(old)
    <3>1. Before(old[k], last) /\ old[k] \in Fragments
      BY <1>4, <2>2, <2>3, <2>4, <2>10
    <3>2. Before(old[k], Frag(p))
      BY <1>1, <2>3, <2>5, <3>1
    <3> QED BY <2>4, <3>2
  <2> QED BY <2>8, <2>9, <2>10
<1>6. LineSent(b)'
  BY <1>1 DEF Order, LineSent, Sent, AtEof, Frag
<1>7. ASSUME NEW f \in Fragments, f[2] >= 1, ~AtEof(b, f), Upto(f, Frag(p))
      PROVE  Assembled(b, f)'
  <2>1. Upto(f, AtFrag(b)')
    BY <1>1, <1>4, <1>7 DEF Sent
  <2>2. \A q \in OnLine(b)' : Upto(f, Frag(q))
    BY <1>1, <1>7
  <2> QED BY <1>7, <2>1, <2>2 DEF Assembled, AtEof
<1>8. Assembled(b, Frag(p))'
  <2>1. Frag(p)[2] >= 1 /\ Upto(Frag(p), Frag(p))
    BY <1>2 DEF Frag, Upto
  <2>2. PICK f : f = Frag(p)
    OBVIOUS
  <2>3. Assembled(b, f)'
    BY <1>1, <1>2, <1>7, <2>1, <2>2
  <2> QED BY <2>2, <2>3
<1>9. ASSUME NEW k \in DOMAIN old PROVE Assembled(b, old[k])'
  <2>1. PICK f : f = old[k]
    OBVIOUS
  <2>2. Assembled(b, f)'
    BY <1>1, <1>4, <1>5, <1>7, <1>9, <2>1 DEF Assembled
  <2> QED BY <2>1, <2>2
<1>10. /\ DOMAIN Append(old, Frag(p)) = 1 .. Len(old) + 1 /\ DOMAIN old = 1 .. Len(old)
       /\ Len(old) \in Nat /\ Len(Append(old, Frag(p))) = Len(old) + 1
       /\ Append(old, Frag(p))[Len(old) + 1] = Frag(p)
       /\ \A k \in DOMAIN old : Append(old, Frag(p))[k] = old[k]
       /\ Append(old, Frag(p)) # <<>>
  BY <1>1, AppendFacts
<1>11. ItemOrder(b)'
  <2> DEFINE new == Append(old, Frag(p))
  <2>1. PktNum'[Peer(b)] = NumOf(new[Len(new)][2] + 1)
    <3>1. new[Len(new)] = Frag(p) /\ Frag(p)[2] = p.frag
      BY <1>10 DEF Frag
    <3>2. NextNum(p.num) = NumOf(p.frag + 1)
      BY <1>2, NumFacts
    <3> QED BY <3>1, <3>2
  <2>2. ASSUME NEW k \in DOMAIN new PROVE k \in DOMAIN old \/ k = Len(old) + 1
    BY <1>10
  <2>3. ASSUME NEW k \in DOMAIN new PROVE Assembled(b, new[k])'
    <3>1. CASE k \in DOMAIN old
      BY <1>9, <1>10, <3>1
    <3>2. CASE k = Len(old) + 1
      BY <1>8, <1>10, <3>2
    <3> QED BY <2>2, <3>1, <3>2
  <2>4. ASSUME NEW k \in DOMAIN new, NEW l \in DOMAIN new, k < l PROVE Before(new[k], new[l])
    <3>1. k \in DOMAIN old
      BY <1>10, <2>4
    <3>2. CASE l \in DOMAIN old
      BY <1>5, <1>10, <2>4, <3>1, <3>2
    <3>3. CASE l = Len(old) + 1
      BY <1>5, <1>10, <3>1, <3>3
    <3> QED BY <2>2, <3>2, <3>3
  <2> HIDE DEF new
  <2>5. Item(b)'.data = new /\ new # <<>>
    BY <1>3, <1>10 DEF new
  <2> QED BY <2>1, <2>3, <2>4, <2>5 DEF ItemOrder
<1>12. TakenBehind(b)'
  <2> SUFFICES ASSUME NEW i \in DOMAIN Taken(b), NEW k \in DOMAIN Taken(b)[i]
               PROVE  Behind(b, Taken(b)[i][k])'
    BY DEF TakenBehind
  <2>1. PICK f : f = Taken(b)[i][k]
    OBVIOUS
  <2>2. Behind(b, f) /\ f \in Fragments
    BY <2>1 DEF Order, TakenBehind
  <2>3. \A l \in DOMAIN Append(old, Frag(p)) : Before(f, Append(old, Frag(p))[l])
    <3>1. \A l \in DOMAIN old : Before(f, old[l])
      BY <2>2 DEF Behind
    <3>2. Before(f, Frag(p))
      BY <1>1, <2>2 DEF Behind
    <3> QED BY <1>10, <3>1, <3>2
  <2>4. Behind(b, f)'
    BY <1>1, <1>3, <2>2, <2>3 DEF Behind
  <2> QED BY <2>1, <2>4
<1>13. TakenOrder(b)'
  BY DEF Order, TakenOrder
<1> QED BY <1>1, <1>6, <1>11, <1>12, <1>13 DEF Order

\* deal_with_eof_packet hands the item over: the eof packet is behind all of it.
LEMMA OrderHandsOver ==
    ASSUME TypeOK, TypeOK', NEW b \in Boards, Order(b), line[b] # <<>>,
           NEW p, p = Head(line[b]), p.cmd = "eof",
           NEW rest \in Remainders(line[b]), line'[b] = rest,
           SendOrder(b)', AtFrag(b)' = AtFrag(b),
           Item(b).open, ~Item(b)'.open, Taken(b)' = Append(Taken(b), Item(b).data)
    PROVE  Order(b)'
<1> USE FragmentTypes, UptoFacts
<1>1. /\ p \in OnLine(b) /\ Sent(b, p) /\ Frag(p) \in Fragments
      /\ \A q \in OnLine(b)' : q \in OnLine(b) /\ Upto(Frag(p), Frag(q))
      /\ LineOrder(b)'
  BY Arriving DEF IsData, Answers
<1>2. AtEof(b, Frag(p))
  BY <1>1 DEF Sent
<1>3. LineSent(b)'
  BY <1>1, ZenonT(60) DEF Order, LineSent, Sent, AtEof, Frag
<1>4. PICK item : item = Item(b).data
  OBVIOUS
<1>5. PICK old : old = Taken(b)
  OBVIOUS
<1>6. /\ item \in Seq(Fragments) /\ old \in Seq(Seq(Fragments))
      /\ \A k \in DOMAIN item : item[k] \in Fragments
      /\ \A i \in DOMAIN old : \A k \in DOMAIN old[i] : old[i][k] \in Fragments
  BY <1>4, <1>5
<1>7. /\ Taken(b)' = Append(old, item) /\ DOMAIN Append(old, item) = 1 .. Len(old) + 1
      /\ DOMAIN old = 1 .. Len(old) /\ Len(old) \in Nat
      /\ Append(old, item)[Len(old) + 1] = item
      /\ \A i \in DOMAIN old : Append(old, item)[i] = old[i]
  BY <1>4, <1>5, <1>6
<1>8. ASSUME NEW i \in DOMAIN Append(old, item) PROVE i \in DOMAIN old \/ i = Len(old) + 1
  BY <1>7
<1>9. ASSUME NEW f \in Fragments, Before(f, Frag(p)) PROVE Behind(b, f)'
  <2>1. Before(f, AtFrag(b)') /\ \A q \in OnLine(b)' : Before(f, Frag(q))
    BY <1>1, <1>9 DEF Sent
  <2> QED BY <2>1 DEF Behind
<1>10. ASSUME NEW k \in DOMAIN item PROVE Before(item[k], Frag(p))
  <2>1. Upto(item[k], Frag(p)) /\ ~AtEof(b, item[k])
    BY <1>1, <1>4 DEF Order, ItemOrder, Assembled
  <2>2. item[k] # Frag(p)
    BY <1>2, <2>1
  <2> QED BY <1>1, <1>6, <2>1, <2>2
<1>11. ASSUME NEW i \in DOMAIN old, NEW k \in DOMAIN old[i]
       PROVE  Before(old[i][k], Frag(p)) /\ \A l \in DOMAIN item : Before(old[i][k], item[l])
  BY <1>1, <1>4, <1>5 DEF Order, TakenBehind, Behind
<1>12. TakenBehind(b)'
  <2> SUFFICES ASSUME NEW i \in DOMAIN Append(old, item), NEW k \in DOMAIN Append(old, item)[i]
               PROVE  Behind(b, Append(old, item)[i][k])'
    BY <1>7 DEF TakenBehind
  <2>1. PICK f : f = Append(old, item)[i][k]
    OBVIOUS
  <2>2. f \in Fragments /\ Before(f, Frag(p))
    <3>1. CASE i \in DOMAIN old
      BY <1>6, <1>7, <1>11, <2>1, <3>1
    <3>2. CASE i = Len(old) + 1
      BY <1>6, <1>7, <1>10, <2>1, <3>2
    <3> QED BY <1>8, <3>1, <3>2
  <2>3. Behind(b, f)'
    BY <1>9, <2>2
  <2> QED BY <2>1, <2>3
<1>13. TakenOrder(b)'
  <2> DEFINE new == Append(old, item)
  <2> SUFFICES ASSUME NEW i \in DOMAIN new, NEW j \in DOMAIN new,
                      NEW k \in DOMAIN new[i], NEW l \in DOMAIN new[j],
                      i < j \/ (i = j /\ k < l)
               PROVE  Before(new[i][k], new[j][l])
    BY <1>7 DEF TakenOrder
  <2>1. CASE j \in DOMAIN old
    <3>1. i \in DOMAIN old
      BY <1>7, <2>1
    <3> QED BY <1>5, <1>7, <2>1, <3>1 DEF Order, TakenOrder
  <2>2. CASE j = Len(old) + 1 /\ i \in DOMAIN old
    BY <1>7, <1>11, <2>2
  <2>3. CASE j = Len(old) + 1 /\ i = Len(old) + 1
    <3>1. k < l
      BY <1>7, <2>3
    <3> QED BY <1>4, <1>7, <2>3, <3>1 DEF Order, ItemOrder
  <2> QED BY <1>8, <2>1, <2>2, <2>3
<1>14. ItemOrder(b)'
  BY DEF ItemOrder
<1> QED BY <1>1, <1>3, <1>12, <1>13, <1>14 DEF Order

\* The traffic from b is a matter of these parts of the state.
LEMMA OrderSame ==
    ASSUME NEW b \in Boards, Order(b),
           submitted'[b] = submitted[b], list_tx'[b] = list_tx[b], txpc'[b] = txpc[b],
           tx'[b] = tx[b], line'[b] = line[b], DataItemList'[Peer(b)] = DataItemList[Peer(b)],
           PktNum'[Peer(b)] = PktNum[Peer(b)], list_rx'[Peer(b)] = list_rx[Peer(b)]
    PROVE  Order(b)'
BY DEF Order, SendOrder, QueueOrder, SenderNum, LineSent, LineOrder, ItemOrder, TakenBehind,
   TakenOrder, Sent, Assembled, Behind, AtEof, AtFrag, Frag, OnLine, Item, Taken

\* A step of thread_tx that sends nothing.
LEMMA OrderMoves ==
    ASSUME TypeOK, TypeOK', NEW b \in Boards, Order(b), SendOrder(b)',
           Upto(AtFrag(b), AtFrag(b)'), line'[b] = line[b], UNCHANGED rxVars
    PROVE  Order(b)'
<1>1. OnLine(b)' = OnLine(b)
  BY DEF OnLine
<1>2. LineOrder(b)'
  BY DEF Order, LineOrder
<1>3. /\ Item(b)' = Item(b) /\ PktNum'[Peer(b)] = PktNum[Peer(b)]
      /\ Taken(b)' = Taken(b)
  BY DEF rxVars, Item, Taken
<1>4. \A q \in OnLine(b)' : q \in OnLine(b)
  BY <1>1
<1> QED BY <1>2, <1>3, <1>4, OrderKept

\* tx_data_info goes on with the next fragment, with the same one, or returns.
LEMMA SenderMoves ==
    ASSUME TypeOK, NEW b \in Boards, SendOrder(b), txpc[b] # "idle",
           Advance(b) \/ Retry(b) \/ GiveUp(b) \/ \E status \in Statuses : Finish(b, status),
           UNCHANGED <<submitted, list_tx>>
    PROVE  /\ SendOrder(b)' /\ Upto(AtFrag(b), AtFrag(b)')
           /\ txpc'[Peer(b)] = txpc[Peer(b)] /\ tx'[Peer(b)] = tx[Peer(b)]
<1>1. CASE UNCHANGED tx /\ \E place \in TxPlaces : txpc' = [txpc EXCEPT ![b] = place]
  BY <1>1, PeerFacts DEF SendOrder, QueueOrder, SenderNum, AtFrag, Upto
<1>2. ASSUME NEW status, Finish(b, status)
      PROVE  UNCHANGED tx /\ \E place \in TxPlaces : txpc' = [txpc EXCEPT ![b] = place]
  BY <1>2 DEF Finish, TxPlaces
<1>3. CASE GiveUp(b) \/ \E status \in Statuses : Finish(b, status)
  BY <1>1, <1>2, <1>3 DEF GiveUp
<1>4. CASE Retry(b)
  BY <1>1, <1>4 DEF Retry, TxPlaces
<1>5. CASE Advance(b)
  <2>1. CASE IsEof(b)
    BY <1>1, <1>2, <1>5, <2>1 DEF Advance
  <2>2. CASE ~IsEof(b)
    <3> DEFINE next == [msg |-> tx[b].msg, frag |-> tx[b].frag + 1,
                        num |-> NextNum(tx[b].num), tries |-> 0]
    <3>1. tx' = [tx EXCEPT ![b] = next] /\ txpc' = [txpc EXCEPT ![b] = "send"]
      BY <1>5, <2>2 DEF Advance
    <3>2. tx[b].frag \in Nat \ {0} /\ tx[b].num = NumOf(tx[b].frag) /\ tx[b].msg \in Nat
      BY DEF TypeOK, SenderTypeOK, SendOrder, SenderNum
    <3>3. next.msg = tx[b].msg /\ next.frag = tx[b].frag + 1 /\ next.num = NumOf(tx[b].frag + 1)
      BY <3>2, NumFacts
    <3> HIDE DEF next
    <3>4. tx'[b] = next /\ tx'[Peer(b)] = tx[Peer(b)] /\ txpc'[Peer(b)] = txpc[Peer(b)]
      BY <3>1, PeerFacts DEF TypeOK, SenderTypeOK
    <3>5. SenderNum(b)'
      BY <3>2, <3>3, <3>4 DEF SenderNum
    <3>6. QueueOrder(b)'
      BY <3>3, <3>4 DEF SendOrder, QueueOrder
    <3>7. Upto(AtFrag(b), AtFrag(b)')
      BY <3>2, <3>3, <3>4 DEF AtFrag, Upto, Before
    <3> QED BY <3>4, <3>5, <3>6, <3>7 DEF SendOrder
  <2> QED BY <2>1, <2>2
<1> QED BY <1>3, <1>4, <1>5

\* link_send appends a number larger than all before.
LEMMA OrderLinkSend ==
    ASSUME TypeOK, TypeOK', OrderInv, NEW b \in Boards, LinkSend(b) PROVE OrderInv'
<1>1. Order(b) /\ Order(Peer(b))
  BY PeerFacts DEF OrderInv
<1> DEFINE n == submitted[b] + 1
<1>2. /\ list_tx[b] \in Seq(Nat) /\ submitted[b] \in Nat /\ tx[b].msg \in Nat
      /\ n \in Nat
      /\ \A i \in DOMAIN list_tx[b] : list_tx[b][i] \in Nat
  BY DEF TypeOK, QueueTypeOK, SenderTypeOK
<1>3. /\ submitted'[b] = n /\ list_tx'[b] = Append(list_tx[b], n)
      /\ submitted'[Peer(b)] = submitted[Peer(b)] /\ list_tx'[Peer(b)] = list_tx[Peer(b)]
      /\ UNCHANGED <<txpc, tx, rxVars, line>>
  BY PeerFacts DEF LinkSend, TypeOK, QueueTypeOK
<1>4. QueueOrder(b)'
  <2>1. /\ DOMAIN list_tx[b] = 1 .. Len(list_tx[b]) /\ Len(list_tx[b]) \in Nat
        /\ DOMAIN list_tx'[b] = 1 .. Len(list_tx[b]) + 1
        /\ list_tx'[b][Len(list_tx[b]) + 1] = n
        /\ \A i \in DOMAIN list_tx[b] : list_tx'[b][i] = list_tx[b][i]
    BY <1>2, <1>3, AppendFacts
  <2>2. \A i \in DOMAIN list_tx'[b] : i \in DOMAIN list_tx[b] \/ i = Len(list_tx[b]) + 1
    BY <2>1
  <2>3. \A i \in DOMAIN list_tx[b] : tx[b].msg < list_tx[b][i] /\ list_tx[b][i] < n
    BY <1>1, <1>2 DEF Order, SendOrder, QueueOrder
  <2>4. tx'[b].msg <= submitted'[b] /\ tx[b].msg < n
    BY <1>1, <1>2, <1>3 DEF Order, SendOrder, QueueOrder
  <2> HIDE DEF n
  <2>5. \A i \in DOMAIN list_tx'[b] : tx'[b].msg < list_tx'[b][i] /\ list_tx'[b][i] <= submitted'[b]
    BY <1>2, <1>3, <2>1, <2>2, <2>3, <2>4
  <2>6. ASSUME NEW i \in DOMAIN list_tx'[b], NEW j \in DOMAIN list_tx'[b], i < j
        PROVE  list_tx'[b][i] < list_tx'[b][j]
    <3>1. i \in DOMAIN list_tx[b]
      BY <2>1, <2>6
    <3>2. CASE j \in DOMAIN list_tx[b]
      BY <1>1, <2>1, <2>6, <3>1, <3>2 DEF Order, SendOrder, QueueOrder
    <3>3. CASE j = Len(list_tx[b]) + 1
      BY <2>1, <2>3, <3>1, <3>3
    <3> QED BY <2>2, <3>2, <3>3
  <2> QED BY <2>4, <2>5, <2>6 DEF QueueOrder
<1>5. SenderNum(b)' /\ AtFrag(b)' = AtFrag(b)
  BY <1>1, <1>3 DEF Order, SendOrder, SenderNum, AtFrag
<1>6. Order(b)'
  BY <1>1, <1>3, <1>4, <1>5, OrderMoves DEF SendOrder, Upto
<1>7. Order(Peer(b))'
  BY <1>1, <1>3, PeerFacts, OrderSame DEF rxVars
<1> QED BY <1>6, <1>7, PeerFacts DEF OrderInv, Boards, Peer

\* thread_tx takes the next message, which is a later one.
LEMMA OrderTxFetch ==
    ASSUME TypeOK, TypeOK', OrderInv, NEW b \in Boards, TxFetch(b) PROVE OrderInv'
<1>1. Order(b) /\ Order(Peer(b))
  BY PeerFacts DEF OrderInv
<1> DEFINE first == [msg |-> Head(list_tx[b]), frag |-> 1, num |-> MIN_PACKET_NUM, tries |-> 0]
<1>2. list_tx[b] \in Seq(Nat) /\ list_tx[b] # <<>> /\ tx[b].msg \in Nat /\ Head(list_tx[b]) \in Nat
  BY DEF TxFetch, TypeOK, QueueTypeOK, SenderTypeOK
<1>3. /\ tx'[b] = first /\ list_tx'[b] = Tail(list_tx[b])
      /\ tx'[Peer(b)] = tx[Peer(b)] /\ list_tx'[Peer(b)] = list_tx[Peer(b)]
      /\ txpc'[Peer(b)] = txpc[Peer(b)]
      /\ UNCHANGED <<submitted, rxVars, line>>
  BY PeerFacts DEF TxFetch, TypeOK, QueueTypeOK, SenderTypeOK
<1>4. first.msg = Head(list_tx[b]) /\ first.frag = 1 /\ first.num = NumOf(1)
  BY NumFacts
<1> HIDE DEF first
<1>5. /\ 1 \in DOMAIN list_tx[b] /\ Head(list_tx[b]) = list_tx[b][1]
      /\ \A i \in DOMAIN Tail(list_tx[b]) : /\ i + 1 \in DOMAIN list_tx[b] /\ 1 < i + 1
                                            /\ Tail(list_tx[b])[i] = list_tx[b][i + 1]
      /\ \A i, j \in DOMAIN Tail(list_tx[b]) : i < j => i + 1 < j + 1
  BY <1>2
<1>6. QueueOrder(b)'
  BY <1>1, <1>3, <1>4, <1>5 DEF Order, SendOrder, QueueOrder
<1>7. SenderNum(b)'
  BY <1>3, <1>4 DEF SenderNum
<1>8. Upto(AtFrag(b), AtFrag(b)')
  <2>1. tx[b].msg < first.msg
    BY <1>1, <1>4, <1>5 DEF Order, SendOrder, QueueOrder
  <2> QED BY <1>3, <2>1 DEF AtFrag, Upto, Before
<1>9. Order(b)'
  BY <1>1, <1>3, <1>6, <1>7, <1>8, OrderMoves DEF SendOrder
<1>10. Order(Peer(b))'
  BY <1>1, <1>3, PeerFacts, OrderSame DEF rxVars
<1> QED BY <1>9, <1>10, PeerFacts DEF OrderInv, Boards, Peer

\* The packet thread_tx sends is the latest, or the same as the latest, on the line.
LEMMA OrderTxSend ==
    ASSUME TypeOK, TypeOK', OrderInv, NEW b \in Boards, TxSend(b) \/ TxSendError(b)
    PROVE  OrderInv'
<1>1. Order(b) /\ Order(Peer(b))
  BY PeerFacts DEF OrderInv
<1>2. txpc[b] = "send" /\ UNCHANGED <<submitted, list_tx, rxVars>>
  BY DEF TxSend, TxSendError
<1>3. PICK p : p = PacketToSend(b)
  OBVIOUS
<1>4. PICK w \in Written(line[b], p) : line' = [line EXCEPT ![b] = w]
  BY <1>3 DEF TxSend, TxSendError
<1>5. line'[b] = w /\ line'[Peer(b)] = line[Peer(b)] /\ p \in Packets
  BY <1>3, <1>4, PeerFacts, PacketToSendType DEF TypeOK, LineTypeOK
<1>6. /\ tx'[Peer(b)] = tx[Peer(b)] /\ txpc'[Peer(b)] = txpc[Peer(b)]
      /\ tx'[b].msg = tx[b].msg /\ tx'[b].frag = tx[b].frag /\ tx'[b].num = tx[b].num
  BY PeerFacts DEF TxSend, TxSendError, Finish, TypeOK, SenderTypeOK
<1>7. AtFrag(b)' = AtFrag(b) /\ SendOrder(b)'
  BY <1>1, <1>2, <1>6 DEF Order, SendOrder, QueueOrder, SenderNum, AtFrag
<1>8. /\ p.frag = tx[b].frag /\ p.msg = tx[b].msg /\ p.num = tx[b].num
      /\ p.cmd = IF IsEof(b) THEN "eof" ELSE IF tx[b].frag = 1 THEN "sof" ELSE "tx"
      /\ IsData(p) /\ Frag(p) = AtFrag(b)
  BY <1>3 DEF PacketToSend, CmdToSend, IsData, Answers, Frag, AtFrag
<1>9. Sent(b, p)'
  <2>1. tx[b].frag >= 1 /\ tx[b].num = NumOf(tx[b].frag)
    BY <1>1, <1>2 DEF Order, SendOrder, SenderNum
  <2>2. p.cmd = "sof" => p.num = MIN_PACKET_NUM
    BY <1>8, <2>1, NumFacts
  <2>3. p.cmd = "eof" <=> AtEof(b, Frag(p))
    BY <1>8 DEF IsEof, AtEof, Frag
  <2> QED BY <1>7, <1>8, <2>1, <2>2, <2>3 DEF Sent, AtEof, Frag, Upto
<1>10. /\ \A q \in OnLine(b)' : q \in OnLine(b) \/ q = p
       /\ LineOrder(b)'
  <2>1. \A q \in OnLine(b) : Upto(Frag(q), Frag(p))
    BY <1>1, <1>8 DEF Order, LineSent, Sent
  <2> QED BY <1>1, <1>5, <2>1, LineGrows DEF Order
<1>11. /\ Item(b)' = Item(b) /\ PktNum'[Peer(b)] = PktNum[Peer(b)]
       /\ Taken(b)' = Taken(b)
  BY <1>2 DEF rxVars, Item, Taken
<1>12. Order(b)'
  BY <1>1, <1>7, <1>8, <1>9, <1>10, <1>11, OrderKept DEF Upto
<1>13. Order(Peer(b))'
  BY <1>1, <1>2, <1>5, <1>6, PeerFacts, OrderSame DEF rxVars
<1> QED BY <1>12, <1>13, PeerFacts DEF OrderInv, Boards, Peer

\* thread_tx waits, wakes up, compares the answer or clears its queue.
LEMMA OrderTxWaits ==
    ASSUME TypeOK, TypeOK', OrderInv, NEW b \in Boards,
           TxTimeout(b) \/ TxSpuriousWake(b) \/ TxAnswered(b) \/ TxClear(b)
    PROVE  OrderInv'
<1>1. Order(b) /\ Order(Peer(b))
  BY PeerFacts DEF OrderInv
<1>2. UNCHANGED <<submitted, rxVars, line>> /\ list_tx'[Peer(b)] = list_tx[Peer(b)]
  BY PeerFacts DEF TxTimeout, TxSpuriousWake, TxAnswered, TxCompareNak, TxCompareCan, TxCompareAck,
     TxCompareNum, TxClear, TypeOK, QueueTypeOK
<1>3. /\ SendOrder(b)' /\ Upto(AtFrag(b), AtFrag(b)')
      /\ txpc'[Peer(b)] = txpc[Peer(b)] /\ tx'[Peer(b)] = tx[Peer(b)]
  <2>1. CASE ~TxClear(b) /\ (Advance(b) \/ Retry(b) \/ GiveUp(b) \/ Finish(b, "cancelled"))
    <3>1. txpc[b] # "idle" /\ UNCHANGED list_tx
      BY <2>1 DEF TxTimeout, TxSpuriousWake, TxAnswered, TxCompareNak, TxCompareCan, TxCompareAck,
         TxCompareNum
    <3> QED BY <1>1, <1>2, <2>1, <3>1, SenderMoves DEF Order, Statuses
  <2>2. CASE /\ UNCHANGED <<tx, list_tx>> /\ txpc[b] # "idle"
             /\ \E place \in TxPlaces : txpc' = [txpc EXCEPT ![b] = place]
    BY <1>1, <1>2, <2>2, PeerFacts
       DEF Order, SendOrder, QueueOrder, SenderNum, AtFrag, Upto, TypeOK, SenderTypeOK
  <2>3. CASE TxClear(b)
    <3>1. /\ list_tx'[b] = <<>> /\ UNCHANGED <<submitted, tx>> /\ txpc'[b] = "idle"
          /\ txpc'[Peer(b)] = txpc[Peer(b)]
      BY <2>3, PeerFacts DEF TxClear, TypeOK, QueueTypeOK, SenderTypeOK
    <3> QED BY <1>1, <3>1 DEF Order, SendOrder, QueueOrder, SenderNum, AtFrag, Upto
  <2> QED BY <2>1, <2>2, <2>3 DEF TxTimeout, TxSpuriousWake, TxAnswered, TxCompareNak, TxCompareCan,
             TxCompareAck, TxCompareNum, TxPlaces
<1>4. Order(b)'
  BY <1>1, <1>2, <1>3, OrderMoves
<1>5. Order(Peer(b))'
  BY <1>1, <1>2, <1>3, PeerFacts, OrderSame DEF rxVars
<1> QED BY <1>4, <1>5, PeerFacts DEF OrderInv, Boards, Peer

\* A line that only loses packets at its front.
LEMMA OrderShrinks ==
    ASSUME TypeOK, TypeOK', NEW b \in Boards, Order(b), line[b] # <<>>, SendOrder(b)',
           AtFrag(b)' = AtFrag(b), NEW rest \in Remainders(line[b]), line'[b] = rest,
           \/ ~Item(b)'.open
           \/ Item(b)' = Item(b) /\ PktNum'[Peer(b)] = PktNum[Peer(b)],
           Taken(b)' = Taken(b)
    PROVE  Order(b)'
<1>1. OnLine(b)' \subseteq OnLine(b) /\ LineOrder(b)'
  BY LineShrinks DEF Order
<1>2. \A q \in OnLine(b)' : q \in OnLine(b)
  BY <1>1
<1>3. Upto(AtFrag(b), AtFrag(b)')
  BY DEF Upto
<1> QED BY <1>1, <1>2, <1>3, OrderKept

\* A handler of thread_rx takes a packet of the peer and answers: the traffic in
\* the direction of the answer is as ordered as before.
LEMMA OrderReplies ==
    ASSUME TypeOK, TypeOK', OrderInv, NEW b \in Boards, line[b] # <<>>,
           NEW cmd \in Answers, NEW num \in 0 .. 3, ConsumeAndSend(Peer(b), Answer(cmd, num)),
           UNCHANGED txVars, DataItemList'[b] = DataItemList[b], PktNum'[b] = PktNum[b],
           list_rx'[b] = list_rx[b]
    PROVE  /\ Order(b) /\ Order(Peer(b))' /\ SendOrder(b)' /\ AtFrag(b)' = AtFrag(b)
           /\ \E rest \in Remainders(line[b]) : line'[b] = rest
<1>1. Order(b) /\ Order(Peer(b)) /\ Peer(b) \in Boards /\ Peer(Peer(b)) = b /\ Peer(b) # b
  BY PeerFacts DEF OrderInv
<1>2. PICK a : a = Answer(cmd, num)
  OBVIOUS
<1>3. PICK rest \in Remainders(line[b]), w \in Written(line[Peer(b)], a) :
         line' = [line EXCEPT ![b] = rest, ![Peer(b)] = w]
  BY <1>1, <1>2 DEF ConsumeAndSend
<1>4. line'[b] = rest /\ line'[Peer(b)] = w
  BY <1>1, <1>3 DEF TypeOK, LineTypeOK
<1>5. a \in Packets /\ ~IsData(a)
  BY <1>2, AnswerType DEF Answer, IsData
<1>6. \A c \in Boards : SendOrder(c)' = SendOrder(c) /\ AtFrag(c)' = AtFrag(c)
  BY DEF txVars, SendOrder, QueueOrder, SenderNum, AtFrag
<1>7. (\A q \in OnLine(Peer(b))' : q \in OnLine(Peer(b))) /\ LineOrder(Peer(b))'
  BY <1>1, <1>4, <1>5, LineGrows DEF Order
<1>8. /\ Item(Peer(b))' = Item(Peer(b)) /\ Taken(Peer(b))' = Taken(Peer(b))
      /\ PktNum'[Peer(Peer(b))] = PktNum[Peer(Peer(b))]
  BY <1>1 DEF Item, Taken
<1>9. SendOrder(Peer(b))' /\ Upto(AtFrag(Peer(b)), AtFrag(Peer(b))')
  BY <1>1, <1>6 DEF Order, Upto
<1>10. Order(Peer(b))'
  BY <1>1, <1>7, <1>8, <1>9, OrderKept
<1> QED BY <1>1, <1>4, <1>6, <1>10 DEF Order

\* The handlers of thread_rx, seen from the board b whose packet is handled.
LEMMA OrderCorrupt ==
    ASSUME TypeOK, TypeOK', OrderInv, NEW b \in Boards, RxCorrupt(Peer(b)) PROVE OrderInv'
<1>1. line[b] # <<>> /\ ConsumeAndSend(Peer(b), Answer("nak", 0)) /\ UNCHANGED <<txVars, rxVars>>
  BY PeerFacts DEF RxCorrupt, Reading, Nack
<1>2. /\ Order(b) /\ Order(Peer(b))' /\ SendOrder(b)' /\ AtFrag(b)' = AtFrag(b)
      /\ \E rest \in Remainders(line[b]) : line'[b] = rest
  BY <1>1, OrderReplies DEF Answers, rxVars
<1>3. Order(b)'
  BY <1>1, <1>2, OrderShrinks DEF rxVars, Item, Taken
<1> QED BY <1>2, <1>3, PeerFacts DEF OrderInv, Boards, Peer

\* Every sof packet has the first number, so that its fragment is always taken.
LEMMA OrderSof ==
    ASSUME TypeOK, TypeOK', OrderInv, NEW b \in Boards, RxSof(Peer(b)) PROVE OrderInv'
<1>1. /\ Peer(b) \in Boards /\ Peer(Peer(b)) = b /\ Peer(b) # b
      /\ line[b] # <<>> /\ UNCHANGED <<txVars, list_rx>>
  BY PeerFacts DEF RxSof, Reading
<1>2. PICK p : p = Head(line[b])
  OBVIOUS
<1>3. p = Arrived(Peer(b)) /\ p.cmd = "sof" /\ IsData(p) /\ p.num \in 0 .. 3
  BY <1>1, <1>2, ArrivedType DEF RxSof, Reading, Arrived, IsData, Answers
<1>4. PICK cmd \in Answers : ConsumeAndSend(Peer(b), Answer(cmd, p.num))
  BY <1>3 DEF RxSof, Reply, Answers
<1>5. DataItemList'[b] = DataItemList[b] /\ PktNum'[b] = PktNum[b]
  BY <1>1 DEF RxSof, TypeOK, ItemTypeOK
<1>6. /\ Order(b) /\ Order(Peer(b))' /\ SendOrder(b)' /\ AtFrag(b)' = AtFrag(b)
      /\ \E rest \in Remainders(line[b]) : line'[b] = rest
  BY <1>1, <1>3, <1>4, <1>5, OrderReplies
<1>7. PICK rest \in Remainders(line[b]) : line'[b] = rest
  BY <1>6
<1>8. p.num = MIN_PACKET_NUM
  BY <1>1, <1>2, <1>3, <1>6, <1>7, Arriving DEF Sent
<1>9. Taken(b)' = Taken(b)
  BY <1>1 DEF Taken
<1>10. CASE UNCHANGED <<DataItemList, PktNum>> \/ ~DataItemList'[Peer(b)].open
  <2>1. \/ ~Item(b)'.open
        \/ Item(b)' = Item(b) /\ PktNum'[Peer(b)] = PktNum[Peer(b)]
    BY <1>10 DEF Item
  <2> QED BY <1>1, <1>6, <1>7, <1>9, <2>1, OrderShrinks, PeerFacts DEF OrderInv, Boards, Peer
<1>11. CASE /\ DataItemList' = [DataItemList EXCEPT ![Peer(b)] = OpenItem(<<Frag(p)>>)]
            /\ PktNum' = [PktNum EXCEPT ![Peer(b)] = NextNum(MIN_PACKET_NUM)]
  <2>1. <<Frag(p)>> = Append(<<>>, Frag(p)) /\ <<>> \in Seq(Fragments)
    OBVIOUS
  <2>2. /\ Item(b)' = OpenItem(Append(<<>>, Frag(p)))
        /\ PktNum'[Peer(b)] = NextNum(p.num)
    BY <1>1, <1>8, <1>11, <2>1 DEF Item, TypeOK, ItemTypeOK
  <2>3. Order(b)'
    BY <1>1, <1>2, <1>3, <1>6, <1>7, <1>9, <2>1, <2>2, OrderTakes
  <2> QED BY <1>6, <2>3, PeerFacts DEF OrderInv, Boards, Peer
<1> QED
  <2>1. DataItemList' = [DataItemList EXCEPT ![Peer(b)] = NoItem] => ~DataItemList'[Peer(b)].open
    BY <1>1 DEF NoItem, TypeOK, ItemTypeOK
  <2> QED BY <1>3, <1>8, <1>10, <1>11, <2>1 DEF RxSof, Frag

\* A tx packet is taken only with the number PktNum waits for.
LEMMA OrderTx ==
    ASSUME TypeOK, TypeOK', OrderInv, NEW b \in Boards, RxTx(Peer(b)) PROVE OrderInv'
<1>1. /\ Peer(b) \in Boards /\ Peer(Peer(b)) = b /\ Peer(b) # b
      /\ line[b] # <<>> /\ UNCHANGED <<txVars, list_rx>>
  BY PeerFacts DEF RxTx, Reading
<1>2. PICK p : p = Head(line[b])
  OBVIOUS
<1>3. p = Arrived(Peer(b)) /\ p.cmd = "tx" /\ IsData(p) /\ p.num \in 0 .. 3
  BY <1>1, <1>2, ArrivedType DEF RxTx, Reading, Arrived, IsData, Answers
<1>4. PICK cmd \in Answers : ConsumeAndSend(Peer(b), Answer(cmd, p.num))
  BY <1>3 DEF RxTx, Reply, Answers
<1>5. DataItemList'[b] = DataItemList[b] /\ PktNum'[b] = PktNum[b]
  BY <1>1 DEF RxTx, TypeOK, ItemTypeOK
<1>6. /\ Order(b) /\ Order(Peer(b))' /\ SendOrder(b)' /\ AtFrag(b)' = AtFrag(b)
      /\ \E rest \in Remainders(line[b]) : line'[b] = rest
  BY <1>1, <1>3, <1>4, <1>5, OrderReplies
<1>7. PICK rest \in Remainders(line[b]) : line'[b] = rest
  BY <1>6
<1>8. Taken(b)' = Taken(b)
  BY <1>1 DEF Taken
<1>9. CASE UNCHANGED <<DataItemList, PktNum>> \/ ~DataItemList'[Peer(b)].open
  <2>1. \/ ~Item(b)'.open
        \/ Item(b)' = Item(b) /\ PktNum'[Peer(b)] = PktNum[Peer(b)]
    BY <1>9 DEF Item
  <2> QED BY <1>1, <1>6, <1>7, <1>8, <2>1, OrderShrinks, PeerFacts DEF OrderInv, Boards, Peer
<1>10. CASE /\ DataItemList[Peer(b)].open /\ Expected(Peer(b))
            /\ DataItemList' = [DataItemList EXCEPT
                   ![Peer(b)] = OpenItem(Append(DataItemList[Peer(b)].data, Frag(p)))]
            /\ PktNum' = [PktNum EXCEPT ![Peer(b)] = NextNum(PktNum[Peer(b)])]
  <2>1. PICK old : old = Item(b).data
    OBVIOUS
  <2>2. old \in Seq(Fragments)
    BY <2>1, FragmentTypes
  <2>3. /\ Item(b).open /\ p.num = PktNum[Peer(b)]
        /\ Item(b)' = OpenItem(Append(old, Frag(p)))
        /\ PktNum'[Peer(b)] = NextNum(p.num)
    BY <1>1, <1>3, <1>10, <2>1 DEF Expected, Item, TypeOK, ItemTypeOK
  <2>4. Order(b)'
    BY <1>1, <1>2, <1>3, <1>6, <1>7, <1>8, <2>1, <2>2, <2>3, OrderTakes
  <2> QED BY <1>6, <2>4, PeerFacts DEF OrderInv, Boards, Peer
<1> QED
  <2>1. DataItemList' = [DataItemList EXCEPT ![Peer(b)] = NoItem] => ~DataItemList'[Peer(b)].open
    BY <1>1 DEF NoItem, TypeOK, ItemTypeOK
  <2> QED BY <1>3, <1>9, <1>10, <2>1 DEF RxTx, Frag

\* An eof packet hands over whatever is under assembly.
LEMMA OrderEof ==
    ASSUME TypeOK, TypeOK', OrderInv, NEW b \in Boards, RxEof(Peer(b)) PROVE OrderInv'
<1>1. /\ Peer(b) \in Boards /\ Peer(Peer(b)) = b /\ Peer(b) # b
      /\ line[b] # <<>> /\ UNCHANGED txVars
  BY PeerFacts DEF RxEof, Reading
<1>2. PICK p : p = Head(line[b])
  OBVIOUS
<1>3. p = Arrived(Peer(b)) /\ p.cmd = "eof" /\ p.num \in 0 .. 3
  BY <1>1, <1>2, ArrivedType DEF RxEof, Reading, Arrived
<1>4. ConsumeAndSend(Peer(b), Answer("ack", p.num))
  BY <1>3 DEF RxEof, Reply, EofAnswer
<1>5. DataItemList'[b] = DataItemList[b] /\ PktNum'[b] = PktNum[b] /\ list_rx'[b] = list_rx[b]
  BY <1>1 DEF RxEof, HandOver, TypeOK, ItemTypeOK
<1>6. /\ Order(b) /\ Order(Peer(b))' /\ SendOrder(b)' /\ AtFrag(b)' = AtFrag(b)
      /\ \E rest \in Remainders(line[b]) : line'[b] = rest
  BY <1>1, <1>3, <1>4, <1>5, OrderReplies DEF Answers
<1>7. PICK rest \in Remainders(line[b]) : line'[b] = rest
  BY <1>6
<1>8. CASE ~DataItemList[Peer(b)].open
  <2>1. ~Item(b)'.open /\ Taken(b)' = Taken(b)
    BY <1>8 DEF RxEof, Item, Taken
  <2> QED BY <1>1, <1>6, <1>7, <2>1, OrderShrinks, PeerFacts DEF OrderInv, Boards, Peer
<1>9. CASE DataItemList[Peer(b)].open
  <2>1. Item(b).open /\ ~Item(b)'.open /\ Taken(b)' = Append(Taken(b), Item(b).data)
    BY <1>1, <1>9 DEF RxEof, HandOver, NoItem, Item, Taken, TypeOK, ItemTypeOK
  <2>2. Order(b)'
    BY <1>1, <1>2, <1>3, <1>6, <1>7, <2>1, OrderHandsOver
  <2> QED BY <1>6, <2>2, PeerFacts DEF OrderInv, Boards, Peer
<1> QED BY <1>8, <1>9

\* Answers change nothing for the data packets behind them.
LEMMA OrderAnswers ==
    ASSUME TypeOK, TypeOK', OrderInv, NEW b \in Boards,
           RxAnswerZero(Peer(b)) \/ RxAnswerCopy(Peer(b)) \/ RxAnswerSignal(Peer(b)) \/ LineLoses(b)
    PROVE  OrderInv'
<1>1. /\ Peer(b) \in Boards /\ Peer(Peer(b)) = b /\ Peer(b) # b
      /\ Order(b) /\ Order(Peer(b))
  BY PeerFacts DEF OrderInv
<1>2. CASE RxAnswerZero(Peer(b)) \/ RxAnswerCopy(Peer(b))
  <2>1. UNCHANGED <<txVars, rxVars, line>>
    BY <1>2 DEF RxAnswerZero, RxAnswerCopy
  <2>2. \A c \in Boards : Order(c)'
    BY <2>1, OrderSame DEF OrderInv, txVars, rxVars
  <2> QED BY <2>2 DEF OrderInv
<1>3. CASE RxAnswerSignal(Peer(b)) \/ LineLoses(b)
  <2>1. UNCHANGED <<submitted, list_tx, tx, rxVars>> /\ line[b] # <<>>
    BY <1>1, <1>3 DEF RxAnswerSignal, LineLoses, txVars, TypeOK, LineTypeOK
  <2>2. \A c \in Boards : txpc'[c] = "idle" <=> txpc[c] = "idle"
    BY <1>1, <1>3 DEF RxAnswerSignal, LineLoses, txVars, TypeOK, SenderTypeOK
  <2>3. \A c \in Boards : SendOrder(c)' /\ AtFrag(c)' = AtFrag(c)
    BY <2>1, <2>2 DEF OrderInv, Order, SendOrder, QueueOrder, SenderNum, AtFrag
  <2>4. PICK rest \in Remainders(line[b]) : line' = [line EXCEPT ![b] = rest]
    <3>1. CASE RxAnswerSignal(Peer(b))
      BY <1>1, <3>1 DEF RxAnswerSignal, Consume
    <3>2. CASE LineLoses(b)
      <4>1. line[b] \in Seq(Packets) /\ line[b] # <<>>
        BY <2>1 DEF TypeOK, LineTypeOK
      <4>2. Tail(line[b]) = SubSeq(line[b], 2, Len(line[b])) /\ 2 \in 2 .. Len(line[b]) + 1
        BY <4>1
      <4> QED BY <3>2, <4>2 DEF LineLoses, Remainders
    <3> QED BY <1>3, <3>1, <3>2
  <2>5. line'[b] = rest /\ line'[Peer(b)] = line[Peer(b)]
    BY <1>1, <2>4 DEF TypeOK, LineTypeOK
  <2>6. Order(b)'
    BY <1>1, <2>1, <2>3, <2>5, OrderShrinks DEF rxVars, Item, Taken
  <2>7. Order(Peer(b))'
    <3>1. SendOrder(Peer(b))' /\ Upto(AtFrag(Peer(b)), AtFrag(Peer(b))')
      BY <1>1, <2>3 DEF Upto
    <3> QED BY <1>1, <2>1, <2>5, <3>1, OrderMoves
  <2> QED BY <2>6, <2>7, PeerFacts DEF OrderInv, Boards, Peer
<1> QED BY <1>2, <1>3

\* Nothing was sent.
LEMMA OrderInit == Init => OrderInv
<1> SUFFICES ASSUME Init, NEW b \in Boards PROVE Order(b)
  BY DEF OrderInv
<1>1. /\ Peer(b) \in Boards /\ line[b] = <<>> /\ Taken(b) = <<>> /\ ~Item(b).open
      /\ list_tx[b] = <<>> /\ tx[b].msg = 0 /\ submitted[b] = 0 /\ txpc[b] = "idle"
  BY PeerFacts DEF Init, Taken, Item, NoItem
<1>2. OnLine(b) = {}
  BY <1>1 DEF OnLine
<1> QED BY <1>1, <1>2 DEF Order, SendOrder, QueueOrder, SenderNum, LineSent, LineOrder, ItemOrder,
           TakenBehind, TakenOrder

\* Every step but the flip of a header keeps the order.
LEMMA OrderStep ==
    ASSUME "header" \notin Faults
    PROVE  TypeOK /\ TypeOK' /\ OrderInv /\ [Next]_vars => OrderInv'
<1> SUFFICES ASSUME TypeOK, TypeOK', OrderInv, [Next]_vars PROVE OrderInv'
  OBVIOUS
<1>1. ASSUME NEW b \in Boards,
             \/ LinkSend(b) \/ TxFetch(b) \/ TxSend(b) \/ TxSendError(b)
             \/ TxTimeout(b) \/ TxSpuriousWake(b) \/ TxAnswered(b) \/ TxClear(b) \/ LineLoses(b)
      PROVE  OrderInv'
  BY <1>1, OrderLinkSend, OrderTxFetch, OrderTxSend, OrderTxWaits, OrderAnswers
<1>2. ASSUME NEW b \in Boards,
             \/ RxCorrupt(b) \/ RxAnswerZero(b) \/ RxAnswerCopy(b) \/ RxAnswerSignal(b)
             \/ RxSof(b) \/ RxTx(b) \/ RxEof(b)
      PROVE  OrderInv'
  <2>1. PICK c \in Boards : b = Peer(c)
    BY PeerFacts
  <2> QED BY <1>2, <2>1, OrderCorrupt, OrderAnswers, OrderSof, OrderTx, OrderEof
<1>3. CASE UNCHANGED vars
  <2>1. \A b \in Boards : Order(b)'
    BY <1>3, OrderSame DEF OrderInv, vars
  <2> QED BY <2>1 DEF OrderInv
<1>4. \A b \in Boards : ~LineFlipsHeader(b)
  BY DEF LineFlipsHeader
<1> QED BY <1>1, <1>2, <1>3, <1>4 DEF Next, Quiescent

\* Unless a header is flipped, no fragment reaches the application twice and none
\* overtakes another: for every number and size of messages, in both directions at
\* once, with lost and damaged packets, late and repeated answers, failing writes
\* and allocations.
THEOREM FragmentsOnceInOrder ==
    ASSUME "header" \notin Faults
    PROVE  Spec => []OnceInOrder
<1>1. OrderInv => OnceInOrder
  <2> SUFFICES ASSUME OrderInv, NEW b \in Boards
               PROVE  \A i, j \in DOMAIN list_rx[b] :
                          \A k \in DOMAIN list_rx[b][i], l \in DOMAIN list_rx[b][j] :
                              i < j \/ (i = j /\ k < l) => Before(list_rx[b][i][k], list_rx[b][j][l])
    BY DEF OnceInOrder
  <2>1. TakenOrder(Peer(b)) /\ Taken(Peer(b)) = list_rx[b]
    BY PeerFacts DEF OrderInv, Order, Taken
  <2> QED BY <2>1 DEF TakenOrder
<1>2. TypeOK /\ OrderInv /\ [Next]_vars => OrderInv'
  BY TypeStep, OrderStep
<1> QED BY <1>1, <1>2, TypeInit, TypeStep, OrderInit, PTL DEF Spec

-----------------------------------------------------------------------------
(***************************************************************************)
(* One-way traffic with timely answers.  If the peer of s sends nothing of *)
(* its own and the timeout fires only when nothing is under way, there is  *)
(* at most one packet between the boards, and what the receiver holds is   *)
(* what thread_tx has sent up to the packet it is at, without or with that *)
(* one.  A receiver that runs out of memory has closed its item instead.   *)
(***************************************************************************)

OneWayFrom(s) == /\ s \in Boards /\ Size[Peer(s)] = <<>>
                 /\ Faults \subseteq {"loss", "corrupt", "nomem"}

Active(s) == txpc[s] \notin {"idle", "clear"}
FirstFragments(m, n) == [k \in 1 .. n |-> <<m, k>>]

\* The receiver has the first n fragments of the message and no others.
Holds(s, n) ==
    /\ Item(s).open \/ "nomem" \in Faults
    /\ Item(s).open => /\ Item(s).data = FirstFragments(tx[s].msg, n)
                       /\ PktNum[Peer(s)] = NumOf(n + 1)

Handed(s, m) == \E i \in DOMAIN Taken(s) : Taken(s)[i] = WholeMessage(s, m)

\* The receiver has dealt with the packet that thread_tx is at.
Received(s) == /\ IsEof(s) => ~Item(s).open /\ (Handed(s, tx[s].msg) \/ "nomem" \in Faults)
               /\ ~IsEof(s) => Holds(s, tx[s].frag)

Progress(s) == Active(s) => tx[s].frag = 1 \/ Holds(s, tx[s].frag - 1) \/ Received(s)

\* An answer that says no more than what is true.
Fits(s, a) == \/ a = Answer("nak", 0)
              \/ a = Answer("can", tx[s].num) /\ "nomem" \in Faults
              \/ a = Answer("ack", tx[s].num) /\ Received(s)

UnderWay(s) ==
    /\ line[s] # <<>> \/ line[Peer(s)] # <<>> => txpc[s] = "wait"
    /\ line[s] = <<>> \/ line[Peer(s)] = <<>>
    /\ line[s] # <<>> => line[s] = <<PacketToSend(s)>> \/ line[s] = <<Answer("nak", 0)>>
    /\ line[Peer(s)] # <<>> => \E a : line[Peer(s)] = <<a>> /\ Fits(s, a)

Heard(s) ==
    /\ rxpc[s] = "signal" => line[Peer(s)] = <<pkt_info_table[s]>>
    /\ txpc[s] \in {"woken", "notnak", "notcan", "acked"} => Fits(s, pkt_info_table[s])
    /\ txpc[s] \in {"notnak", "notcan", "acked"} => pkt_info_table[s].cmd # "nak"
    /\ txpc[s] \in {"notcan", "acked"} => pkt_info_table[s].cmd # "can"

\* What was handed over: whole messages, and not the one that is being sent unless
\* its eof has been handled.
Entries(s) ==
    /\ list_rx[s] = <<>>
    /\ \A i \in DOMAIN Taken(s) : \E m \in Messages(s) :
           /\ Taken(s)[i] = WholeMessage(s, m)
           /\ m <= tx[s].msg
           /\ Active(s) /\ (Item(s).open \/ ~IsEof(s)) => m < tx[s].msg

WayInv(s) == Progress(s) /\ UnderWay(s) /\ Heard(s) /\ Entries(s)

\* The peer has nothing to send.
LEMMA SilentPeer ==
    ASSUME TypeOK, NEW s, OneWayFrom(s)
    PROVE  /\ Messages(Peer(s)) = {} /\ txpc[Peer(s)] = "idle" /\ list_tx[Peer(s)] = <<>>
           /\ submitted[Peer(s)] = 0 /\ Len(Size[Peer(s)]) = 0
<1>1. s \in Boards /\ Peer(s) \in Boards /\ Len(Size[Peer(s)]) = 0
  BY PeerFacts DEF OneWayFrom
<1>2. Messages(Peer(s)) = {}
  BY <1>1 DEF Messages
<1>3. txpc[Peer(s)] = "idle"
  BY <1>1, <1>2 DEF TypeOK, SenderTypeOK
<1>4. list_tx[Peer(s)] = <<>>
  <2>1. list_tx[Peer(s)] \in Seq(Nat) /\ \A i \in DOMAIN list_tx[Peer(s)] : FALSE
    BY <1>1, <1>2 DEF TypeOK, QueueTypeOK
  <2>2. \A l \in Seq(Nat) : l # <<>> => 1 \in DOMAIN l
    OBVIOUS
  <2> QED BY <2>1, <2>2
<1>5. submitted[Peer(s)] = 0
  BY <1>1 DEF TypeOK, QueueTypeOK
<1> QED BY <1>1, <1>2, <1>3, <1>4, <1>5

LEMMA WayFaults ==
    ASSUME NEW s, OneWayFrom(s)
    PROVE  "port" \notin Faults /\ "late" \notin Faults /\ "spurious" \notin Faults /\ "header" \notin Faults
BY DEF OneWayFrom

LEMMA WayBoards ==
    ASSUME NEW s, OneWayFrom(s)
    PROVE  /\ s \in Boards /\ Peer(s) \in Boards /\ Peer(s) # s /\ Peer(Peer(s)) = s
           /\ Boards = {s, Peer(s)}
BY PeerFacts DEF OneWayFrom, Boards, Peer

\* A line with one packet that is taken off.
LEMMA OnlyOne == ASSUME NEW p \in Packets, NEW rest \in Remainders(<<p>>) PROVE rest = <<>>
<1>1. <<p>> \in Seq(Packets) /\ Len(<<p>>) = 1 /\ <<p>> # <<>>
  OBVIOUS
<1>2. rest \in Seq(Packets) /\ \E d \in 1 .. 1 : Len(rest) = 1 - d
  BY <1>1, RemaindersFacts
<1> QED BY <1>2

LEMMA WayReply ==
    ASSUME TypeOK, NEW b \in Boards, NEW p, line[Peer(b)] = <<p>>, line[b] = <<>>,
           "port" \notin Faults, NEW a, ConsumeAndSend(b, a)
    PROVE  line'[Peer(b)] = <<>> /\ line'[b] = <<a>>
<1>1. Peer(b) \in Boards /\ Peer(b) # b /\ p \in Packets
  <2>1. Peer(b) \in Boards /\ Peer(b) # b /\ <<p>> \in Seq(Packets)
    BY PeerFacts DEF TypeOK, LineTypeOK
  <2> QED BY <2>1
<1>2. PICK rest \in Remainders(<<p>>), w \in Written(<<>>, a) :
          line' = [line EXCEPT ![Peer(b)] = rest, ![b] = w]
  BY DEF ConsumeAndSend
<1>3. rest = <<>> /\ w = <<a>>
  BY <1>1, OnlyOne DEF Written
<1> QED BY <1>1, <1>2, <1>3 DEF TypeOK, LineTypeOK

LEMMA WayConsume ==
    ASSUME TypeOK, NEW b \in Boards, NEW p, line[b] = <<p>>,
           NEW rest, rest \in Remainders(line[b]) \/ rest = Tail(line[b]),
           line' = [line EXCEPT ![b] = rest]
    PROVE  line'[b] = <<>> /\ line'[Peer(b)] = line[Peer(b)]
<1>1. Peer(b) \in Boards /\ Peer(b) # b /\ p \in Packets
  <2>1. Peer(b) \in Boards /\ Peer(b) # b /\ <<p>> \in Seq(Packets)
    BY PeerFacts DEF TypeOK, LineTypeOK
  <2> QED BY <2>1
<1>2. rest = <<>>
  <2>1. Tail(<<p>>) = <<>>
    OBVIOUS
  <2> QED BY <1>1, <2>1, OnlyOne
<1> QED BY <1>1, <1>2 DEF TypeOK, LineTypeOK

\* What the receiver has does not depend on the tries.
LEMMA SameReceived ==
    ASSUME NEW s, tx'[s].msg = tx[s].msg, tx'[s].frag = tx[s].frag, tx'[s].num = tx[s].num,
           Item(s)' = Item(s), PktNum'[Peer(s)] = PktNum[Peer(s)], Taken(s)' = Taken(s)
    PROVE  /\ \A n : Holds(s, n)' <=> Holds(s, n)
           /\ Received(s)' <=> Received(s)
           /\ \A a : Fits(s, a)' <=> Fits(s, a)
           /\ IsEof(s)' <=> IsEof(s)
           /\ PacketToSend(s)' = PacketToSend(s)
<1>1. \A n : Holds(s, n)' <=> Holds(s, n)
  BY DEF Holds
<1>2. IsEof(s)' <=> IsEof(s)
  BY DEF IsEof
<1>3. Received(s)' <=> Received(s)
  BY <1>1, <1>2 DEF Received, Handed
<1>4. PacketToSend(s)' = PacketToSend(s)
  BY <1>2 DEF PacketToSend, CmdToSend
<1>5. \A a : Fits(s, a)' <=> Fits(s, a)
  BY <1>3 DEF Fits
<1> QED BY <1>1, <1>2, <1>3, <1>4, <1>5

\* thread_tx or a packet moves, and the receiver keeps what it has.
LEMMA WayMoves ==
    ASSUME NEW s, WayInv(s), tx'[s].msg = tx[s].msg, tx'[s].frag = tx[s].frag,
           tx'[s].num = tx[s].num, UNCHANGED rxVars, Active(s)' => Active(s),
           UnderWay(s)', Heard(s)'
    PROVE  WayInv(s)'
<1>1. Item(s)' = Item(s) /\ PktNum'[Peer(s)] = PktNum[Peer(s)] /\ Taken(s)' = Taken(s)
      /\ list_rx'[s] = list_rx[s]
  BY DEF rxVars, Item, Taken
<1>2. /\ \A n : Holds(s, n)' <=> Holds(s, n)
      /\ Received(s)' <=> Received(s)
      /\ IsEof(s)' <=> IsEof(s)
  BY <1>1, SameReceived
<1>3. Progress(s)'
  BY <1>2 DEF WayInv, Progress
<1>4. Entries(s)'
  <2>1. \A i \in DOMAIN Taken(s)' : \E m \in Messages(s) :
           /\ Taken(s)'[i] = WholeMessage(s, m)
           /\ m <= tx'[s].msg
           /\ Active(s)' /\ (Item(s)'.open \/ ~IsEof(s)') => m < tx'[s].msg
    BY <1>1, <1>2 DEF WayInv, Entries
  <2> QED BY <1>1, <2>1 DEF WayInv, Entries
<1> QED BY <1>3, <1>4 DEF WayInv

\* thread_tx is not waiting: nothing is under way.
LEMMA WayQuiet ==
    ASSUME TypeOK, NEW s, OneWayFrom(s), UnderWay(s), txpc[s] # "wait"
    PROVE  line[s] = <<>> /\ line[Peer(s)] = <<>> /\ rxpc[s] = "read" /\ rxpc[Peer(s)] = "read"
<1>1. line[s] = <<>> /\ line[Peer(s)] = <<>>
  BY DEF UnderWay
<1> QED BY <1>1, WayBoards DEF TypeOK, LineTypeOK, AnswerTypeOK

\* thread_tx moves while nothing is under way.
LEMMA WaySender ==
    ASSUME NEW s, WayInv(s), tx'[s].msg = tx[s].msg, tx'[s].frag = tx[s].frag,
           tx'[s].num = tx[s].num, UNCHANGED <<rxVars, rxpc, line, pkt_info_table>>,
           line[s] = <<>>, line[Peer(s)] = <<>>, rxpc[s] = "read",
           txpc'[s] \in {"send", "idle", "clear"}, Active(s)' => Active(s)
    PROVE  WayInv(s)'
<1>1. UnderWay(s)'
  BY DEF UnderWay
<1>2. Heard(s)'
  BY DEF Heard
<1> QED BY <1>1, <1>2, WayMoves

LEMMA WaySame ==
    ASSUME NEW s, WayInv(s), tx'[s] = tx[s], txpc'[s] = txpc[s],
           UNCHANGED <<rxVars, rxpc, line, pkt_info_table>>
    PROVE  WayInv(s)'
<1>1. Item(s)' = Item(s) /\ PktNum'[Peer(s)] = PktNum[Peer(s)] /\ Taken(s)' = Taken(s)
  BY DEF rxVars, Item, Taken
<1>2. /\ \A a : Fits(s, a)' <=> Fits(s, a)
      /\ PacketToSend(s)' = PacketToSend(s)
  BY <1>1, SameReceived
<1>3. UnderWay(s)'
  BY <1>2 DEF WayInv, UnderWay
<1>4. Heard(s)'
  BY <1>2 DEF WayInv, Heard
<1> QED BY <1>3, <1>4, WayMoves DEF Active

LEMMA WayLinkSend == ASSUME NEW s, WayInv(s), LinkSend(s) PROVE WayInv(s)'
BY WaySame DEF LinkSend

\* A later message than all before it.
LEMMA WayTxFetch ==
    ASSUME TypeOK, NEW s, OneWayFrom(s), OrderInv, WayInv(s), TxFetch(s) PROVE WayInv(s)'
<1>1. s \in Boards /\ Peer(s) \in Boards
  BY WayBoards
<1>2. /\ txpc[s] = "idle" /\ list_tx[s] # <<>> /\ txpc' = [txpc EXCEPT ![s] = "send"]
      /\ tx' = [tx EXCEPT ![s] = [msg |-> Head(list_tx[s]), frag |-> 1,
                                  num |-> MIN_PACKET_NUM, tries |-> 0]]
      /\ UNCHANGED <<rxVars, rxpc, line, pkt_info_table>>
  BY DEF TxFetch
<1>3. line[s] = <<>> /\ line[Peer(s)] = <<>> /\ rxpc[s] = "read"
  BY <1>2, WayQuiet DEF WayInv
<1>4. txpc'[s] = "send" /\ tx'[s].frag = 1 /\ tx'[s].msg = Head(list_tx[s])
  BY <1>1, <1>2 DEF TypeOK, SenderTypeOK
<1>5. tx[s].msg < tx'[s].msg /\ tx[s].msg \in Nat /\ tx'[s].msg \in Nat
  <2>1. list_tx[s] \in Seq(Nat) /\ tx[s].msg \in Nat
    BY <1>1 DEF TypeOK, QueueTypeOK, SenderTypeOK
  <2>2. 1 \in DOMAIN list_tx[s] /\ Head(list_tx[s]) = list_tx[s][1] /\ list_tx[s][1] \in Nat
    BY <1>2, <2>1
  <2> QED BY <1>1, <1>4, <2>1, <2>2 DEF OrderInv, Order, SendOrder, QueueOrder
<1>6. UnderWay(s)' /\ Heard(s)'
  BY <1>2, <1>3, <1>4 DEF UnderWay, Heard
<1>7. Progress(s)'
  BY <1>4 DEF Progress
<1>8. Entries(s)'
  <2>1. Taken(s)' = Taken(s) /\ list_rx' = list_rx
    BY <1>2 DEF rxVars, Taken
  <2>2. \A m \in Messages(s) : m <= tx[s].msg => m < tx'[s].msg /\ m <= tx'[s].msg
    BY <1>5 DEF Messages
  <2>3. \A i \in DOMAIN Taken(s) : \E m \in Messages(s) : Taken(s)[i] = WholeMessage(s, m) /\ m <= tx[s].msg
    BY DEF WayInv, Entries
  <2>4. list_rx'[s] = <<>>
    BY <2>1 DEF WayInv, Entries
  <2> QED BY <2>1, <2>2, <2>3, <2>4 DEF Entries
<1> QED BY <1>6, <1>7, <1>8 DEF WayInv

LEMMA WayTxSend ==
    ASSUME TypeOK, NEW s, OneWayFrom(s), WayInv(s), TxSend(s) PROVE WayInv(s)'
<1>1. s \in Boards /\ Peer(s) \in Boards /\ Peer(s) # s /\ "port" \notin Faults
  BY WayBoards, WayFaults
<1>2. /\ txpc[s] = "send" /\ txpc' = [txpc EXCEPT ![s] = "wait"]
      /\ tx' = [tx EXCEPT ![s].tries = CountTry(@)]
      /\ UNCHANGED <<rxVars, rxpc, pkt_info_table>>
  BY DEF TxSend
<1>3. line[s] = <<>> /\ line[Peer(s)] = <<>> /\ rxpc[s] = "read"
  BY <1>2, WayQuiet DEF WayInv
<1>4. line'[s] = <<PacketToSend(s)>> /\ line'[Peer(s)] = <<>>
  <2>1. line' = [line EXCEPT ![s] = Append(line[s], PacketToSend(s))]
    BY <1>1 DEF TxSend, Written
  <2>2. Append(<<>>, PacketToSend(s)) = <<PacketToSend(s)>>
    OBVIOUS
  <2> QED BY <1>1, <1>3, <2>1, <2>2 DEF TypeOK, LineTypeOK
<1>5. /\ txpc'[s] = "wait" /\ tx'[s].msg = tx[s].msg /\ tx'[s].frag = tx[s].frag
      /\ tx'[s].num = tx[s].num
  BY <1>1, <1>2 DEF TypeOK, SenderTypeOK
<1>6. PacketToSend(s)' = PacketToSend(s)
  <2>1. Item(s)' = Item(s) /\ PktNum'[Peer(s)] = PktNum[Peer(s)] /\ Taken(s)' = Taken(s)
    BY <1>2 DEF rxVars, Item, Taken
  <2> QED BY <1>5, <2>1, SameReceived
<1>7. UnderWay(s)'
  BY <1>4, <1>5, <1>6 DEF UnderWay
<1>8. Heard(s)'
  BY <1>2, <1>3, <1>5 DEF Heard
<1>9. Active(s)
  BY <1>2 DEF Active
<1> QED BY <1>2, <1>5, <1>7, <1>8, <1>9, WayMoves

\* thread_tx tries again or ends the message.
LEMMA WayAgain ==
    ASSUME TypeOK, NEW s, OneWayFrom(s), WayInv(s), Active(s),
           line[s] = <<>>, line[Peer(s)] = <<>>, rxpc[s] = "read",
           UNCHANGED <<rxVars, rxpc, line, pkt_info_table>>,
           Retry(s) \/ GiveUp(s) \/ \E status : Finish(s, status)
    PROVE  WayInv(s)'
<1>1. UNCHANGED tx /\ txpc'[s] \in {"send", "idle", "clear"}
  BY WayBoards DEF Retry, GiveUp, Finish, TypeOK, SenderTypeOK
<1> QED BY <1>1, WaySender

\* The receiver has the packet: on to the next one.
LEMMA WayAdvance ==
    ASSUME TypeOK, NEW s, OneWayFrom(s), WayInv(s), Active(s), Received(s),
           line[s] = <<>>, line[Peer(s)] = <<>>, rxpc[s] = "read",
           UNCHANGED <<rxVars, rxpc, line, pkt_info_table>>, Advance(s)
    PROVE  WayInv(s)'
<1>1. CASE IsEof(s)
  BY <1>1, WayAgain DEF Advance
<1>2. CASE ~IsEof(s)
  <2>1. s \in Boards /\ Active(s) /\ tx[s].frag \in Nat /\ tx[s].msg \in Nat
    BY WayBoards DEF TypeOK, SenderTypeOK
  <2>2. /\ tx' = [tx EXCEPT ![s] = [msg |-> tx[s].msg, frag |-> tx[s].frag + 1,
                                    num |-> NextNum(tx[s].num), tries |-> 0]]
        /\ txpc' = [txpc EXCEPT ![s] = "send"]
    BY <1>2 DEF Advance
  <2>3. txpc'[s] = "send" /\ tx'[s].frag = tx[s].frag + 1 /\ tx'[s].msg = tx[s].msg
    BY <2>1, <2>2 DEF TypeOK, SenderTypeOK
  <2>4. UnderWay(s)' /\ Heard(s)'
    BY <2>3 DEF UnderWay, Heard
  <2>5. Item(s)' = Item(s) /\ PktNum' = PktNum /\ Taken(s)' = Taken(s) /\ list_rx' = list_rx
    BY DEF rxVars, Item, Taken
  <2>6. Progress(s)'
    <3>1. PICK n : n = tx[s].frag
      OBVIOUS
    <3>2. Holds(s, n)
      BY <1>2, <3>1 DEF Received
    <3>3. Holds(s, n)'
      BY <2>3, <2>5, <3>2 DEF Holds
    <3>4. tx'[s].frag - 1 = n
      BY <2>1, <2>3, <3>1
    <3> QED BY <3>3, <3>4 DEF Progress, Holds
  <2>7. Entries(s)'
    <3>1. \A i \in DOMAIN Taken(s) : \E m \in Messages(s) :
              Taken(s)[i] = WholeMessage(s, m) /\ m <= tx[s].msg /\ m < tx[s].msg
      BY <1>2, <2>1 DEF WayInv, Entries
    <3>2. list_rx'[s] = <<>>
      BY <2>5 DEF WayInv, Entries
    <3> QED BY <2>3, <2>5, <3>1, <3>2 DEF Entries
  <2> QED BY <2>4, <2>6, <2>7 DEF WayInv
<1> QED BY <1>1, <1>2

LEMMA WayTxTimeout ==
    ASSUME TypeOK, NEW s, OneWayFrom(s), WayInv(s), TxTimeout(s) PROVE WayInv(s)'
<1>1. /\ Active(s) /\ Drained
      /\ Retry(s) \/ GiveUp(s)
      /\ UNCHANGED <<rxVars, rxpc, line, pkt_info_table>>
  BY WayFaults DEF TxTimeout, Active
<1>2. line[s] = <<>> /\ line[Peer(s)] = <<>> /\ rxpc[s] = "read"
  BY <1>1, WayBoards DEF Drained
<1> QED BY <1>1, <1>2, WayAgain

LEMMA WayTxClear ==
    ASSUME TypeOK, NEW s, OneWayFrom(s), WayInv(s), TxClear(s) PROVE WayInv(s)'
<1>1. /\ txpc[s] = "clear" /\ txpc'[s] = "idle" /\ UNCHANGED tx
      /\ UNCHANGED <<rxVars, rxpc, line, pkt_info_table>>
  BY WayBoards DEF TxClear, TypeOK, SenderTypeOK
<1>2. line[s] = <<>> /\ line[Peer(s)] = <<>> /\ rxpc[s] = "read"
  BY <1>1, WayQuiet DEF WayInv
<1> QED BY <1>1, <1>2, WaySender DEF Active

\* wait_for_answer goes on to its next comparison.
LEMMA WayCompares ==
    ASSUME TypeOK, NEW s, OneWayFrom(s), WayInv(s), UNCHANGED tx,
           line[s] = <<>>, line[Peer(s)] = <<>>, rxpc[s] = "read",
           UNCHANGED <<rxVars, rxpc, line, pkt_info_table>>,
           txpc[s] \in {"woken", "notnak", "notcan"},
           \/ txpc'[s] = "notnak" /\ pkt_info_table[s].cmd # "nak"
           \/ txpc[s] = "notnak" /\ txpc'[s] = "notcan" /\ pkt_info_table[s].cmd # "can"
           \/ txpc[s] = "notcan" /\ txpc'[s] = "acked"
    PROVE  WayInv(s)'
<1>1. \A a : Fits(s, a)' <=> Fits(s, a)
  BY SameReceived DEF rxVars, Item, Taken
<1>2. UnderWay(s)'
  BY DEF UnderWay
<1>3. Fits(s, pkt_info_table[s])'
  <2>1. PICK a : a = pkt_info_table[s]
    OBVIOUS
  <2>2. Fits(s, a)'
    BY <1>1, <2>1 DEF WayInv, Heard
  <2> QED BY <2>1, <2>2
<1>4. Heard(s)'
  BY <1>3 DEF Heard, WayInv
<1>5. Active(s)
  BY DEF Active
<1> QED BY <1>2, <1>4, <1>5, WayMoves

\* In a comparison nothing is under way, and an acknowledgement is true.
LEMMA WayTxAnswered ==
    ASSUME TypeOK, NEW s, OneWayFrom(s), WayInv(s), TxAnswered(s) PROVE WayInv(s)'
<1>1. s \in Boards /\ txpc \in [Boards -> TxPlaces]
  BY WayBoards DEF TypeOK, SenderTypeOK
<1>2. /\ txpc[s] \in {"woken", "notnak", "notcan", "acked"} /\ Active(s)
      /\ UNCHANGED <<rxVars, rxpc, line, pkt_info_table>>
  BY DEF TxAnswered, TxCompareNak, TxCompareCan, TxCompareAck, TxCompareNum, Active
<1>3. line[s] = <<>> /\ line[Peer(s)] = <<>> /\ rxpc[s] = "read"
  BY <1>2, WayQuiet DEF WayInv
<1>4. CASE TxCompareNak(s)
  <2>1. CASE Retry(s) \/ GiveUp(s)
    BY <1>2, <1>3, <2>1, WayAgain
  <2>2. CASE pkt_info_table[s].cmd # "nak" /\ txpc' = [txpc EXCEPT ![s] = "notnak"] /\ UNCHANGED tx
    <3>1. txpc'[s] = "notnak" /\ txpc[s] = "woken"
      BY <1>1, <1>4, <2>2 DEF TxCompareNak
    <3> QED BY <1>2, <1>3, <2>2, <3>1, WayCompares
  <2> QED BY <1>4, <2>1, <2>2 DEF TxCompareNak
<1>5. CASE TxCompareCan(s)
  <2>1. CASE Finish(s, "cancelled")
    BY <1>2, <1>3, <2>1, WayAgain
  <2>2. CASE pkt_info_table[s].cmd # "can" /\ txpc' = [txpc EXCEPT ![s] = "notcan"] /\ UNCHANGED tx
    <3>1. txpc'[s] = "notcan" /\ txpc[s] = "notnak"
      BY <1>1, <1>5, <2>2 DEF TxCompareCan
    <3> QED BY <1>2, <1>3, <2>2, <3>1, WayCompares
  <2> QED BY <1>5, <2>1, <2>2 DEF TxCompareCan
<1>6. txpc[s] \in {"notcan", "acked"} => pkt_info_table[s].cmd = "ack" /\ Received(s)
  BY DEF WayInv, Heard, Fits, Answer
<1>7. CASE TxCompareAck(s)
  <2>1. txpc[s] = "notcan" /\ txpc' = [txpc EXCEPT ![s] = "acked"] /\ UNCHANGED tx
    BY <1>6, <1>7 DEF TxCompareAck
  <2>2. txpc'[s] = "acked"
    BY <1>1, <2>1
  <2> QED BY <1>2, <1>3, <2>1, <2>2, WayCompares
<1>8. CASE TxCompareNum(s)
  <2>1. Received(s)
    BY <1>6, <1>8 DEF TxCompareNum
  <2>2. Advance(s) \/ Retry(s) \/ GiveUp(s)
    BY <1>8 DEF TxCompareNum
  <2> QED BY <1>2, <1>3, <2>1, <2>2, WayAdvance, WayAgain
<1> QED BY <1>4, <1>5, <1>7, <1>8 DEF TxAnswered

-----------------------------------------------------------------------------
\* A packet that is under way, and that thread_tx is waiting.
LEMMA WayPacket ==
    ASSUME TypeOK, NEW s, OneWayFrom(s), WayInv(s), line[s] # <<>>
    PROVE  /\ txpc[s] = "wait" /\ Active(s) /\ line[Peer(s)] = <<>> /\ rxpc[s] = "read"
           /\ line[s] = <<Head(line[s])>>
           /\ Head(line[s]) = PacketToSend(s) \/ Head(line[s]) = Answer("nak", 0)
           /\ Arrived(Peer(s)) = Head(line[s])
<1>1. /\ txpc[s] = "wait" /\ line[Peer(s)] = <<>>
      /\ line[s] = <<PacketToSend(s)>> \/ line[s] = <<Answer("nak", 0)>>
  BY DEF WayInv, UnderWay
<1>2. \A p : Head(<<p>>) = p
  OBVIOUS
<1>3. /\ line[s] = <<Head(line[s])>>
      /\ Head(line[s]) = PacketToSend(s) \/ Head(line[s]) = Answer("nak", 0)
  BY <1>1, <1>2
<1>4. rxpc[s] = "read"
  BY <1>1, WayBoards DEF TypeOK, LineTypeOK, AnswerTypeOK
<1>5. Arrived(Peer(s)) = Head(line[s])
  BY WayBoards DEF Arrived
<1> QED BY <1>1, <1>3, <1>4, <1>5 DEF Active

LEMMA WayAnswer ==
    ASSUME TypeOK, NEW s, OneWayFrom(s), WayInv(s), line[Peer(s)] # <<>>
    PROVE  /\ txpc[s] = "wait" /\ Active(s) /\ line[s] = <<>> /\ rxpc[Peer(s)] = "read"
           /\ line[Peer(s)] = <<Head(line[Peer(s)])>> /\ Fits(s, Head(line[Peer(s)]))
           /\ Head(line[Peer(s)]).cmd \in Answers
           /\ Answer(Head(line[Peer(s)]).cmd, Head(line[Peer(s)]).num) = Head(line[Peer(s)])
           /\ Arrived(s) = Head(line[Peer(s)])
<1>1. txpc[s] = "wait" /\ line[s] = <<>> /\ \E a : line[Peer(s)] = <<a>> /\ Fits(s, a)
  BY DEF WayInv, UnderWay
<1>2. PICK a : line[Peer(s)] = <<a>> /\ Fits(s, a)
  BY <1>1
<1>3. Head(line[Peer(s)]) = a
  BY <1>2
<1>4. a.cmd \in Answers /\ Answer(a.cmd, a.num) = a
  BY <1>2 DEF Fits, Answer, Answers
<1>5. rxpc[Peer(s)] = "read"
  BY <1>1, WayBoards DEF TypeOK, LineTypeOK, AnswerTypeOK
<1> QED BY <1>1, <1>2, <1>3, <1>4, <1>5 DEF Active, Arrived

\* The line or thread_rx takes a packet away or damages it; the receiver keeps what
\* it has, and thread_tx waits.
LEMMA WayTransit ==
    ASSUME NEW s, WayInv(s), UNCHANGED <<tx, txpc, rxVars>>, txpc[s] = "wait",
           rxpc'[s] # "signal",
           \/ line'[s] = <<>> /\ line'[Peer(s)] = <<>>
           \/ line'[s] = <<Answer("nak", 0)>> /\ line'[Peer(s)] = <<>>
           \/ line'[s] = <<>> /\ line'[Peer(s)] = <<Answer("nak", 0)>>
           \/ line'[s] = line[s] /\ line'[Peer(s)] = line[Peer(s)]
    PROVE  WayInv(s)'
<1>1. Item(s)' = Item(s) /\ PktNum'[Peer(s)] = PktNum[Peer(s)] /\ Taken(s)' = Taken(s)
  BY DEF rxVars, Item, Taken
<1>2. /\ \A a : Fits(s, a)' <=> Fits(s, a)
      /\ PacketToSend(s)' = PacketToSend(s)
  BY <1>1, SameReceived
<1>3. Fits(s, Answer("nak", 0))
  BY DEF Fits
<1>4. Heard(s)'
  BY DEF Heard
<1>5. UnderWay(s)'
  <2>1. CASE line'[s] = line[s] /\ line'[Peer(s)] = line[Peer(s)]
    BY <1>2, <2>1 DEF WayInv, UnderWay
  <2>2. CASE line'[s] = <<>> /\ line'[Peer(s)] = <<>>
    BY <2>2 DEF UnderWay
  <2>3. CASE line'[s] = <<Answer("nak", 0)>> /\ line'[Peer(s)] = <<>>
    BY <2>3 DEF UnderWay, Answer
  <2>4. CASE line'[s] = <<>> /\ line'[Peer(s)] = <<Answer("nak", 0)>>
    <3>1. PICK a : a = Answer("nak", 0)
      OBVIOUS
    <3>2. Fits(s, a)' /\ line'[Peer(s)] = <<a>>
      BY <1>2, <1>3, <2>4, <3>1
    <3> QED BY <2>4, <3>2 DEF UnderWay
  <2> QED BY <2>1, <2>2, <2>3, <2>4
<1> QED BY <1>4, <1>5, WayMoves DEF Active

LEMMA WayLineLoses ==
    ASSUME TypeOK, NEW s, OneWayFrom(s), WayInv(s), NEW b \in Boards, LineLoses(b)
    PROVE  WayInv(s)'
<1>1. /\ line[b] # <<>> /\ rxpc[Peer(b)] = "read" /\ line' = [line EXCEPT ![b] = Tail(line[b])]
      /\ UNCHANGED <<tx, txpc, rxVars, rxpc>>
  BY DEF LineLoses, txVars
<1>2. CASE b = s
  <2>1. txpc[s] = "wait" /\ line[s] = <<Head(line[s])>> /\ line[Peer(s)] = <<>> /\ rxpc[s] = "read"
    BY <1>1, <1>2, WayPacket
  <2>2. line'[s] = <<>> /\ line'[Peer(s)] = <<>>
    BY <1>1, <1>2, <2>1, WayConsume
  <2> QED BY <1>1, <2>1, <2>2, WayTransit
<1>3. CASE b = Peer(s)
  <2>1. txpc[s] = "wait" /\ line[b] = <<Head(line[b])>> /\ line[s] = <<>>
    BY <1>1, <1>3, WayAnswer
  <2>2. Peer(b) = s
    BY <1>3, WayBoards
  <2>3. line'[b] = <<>> /\ line'[s] = line[s]
    BY <1>1, <2>1, <2>2, WayConsume
  <2> QED BY <1>1, <1>3, <2>1, <2>2, <2>3, WayTransit
<1> QED BY <1>2, <1>3, WayBoards

LEMMA WayRxCorrupt ==
    ASSUME TypeOK, NEW s, OneWayFrom(s), WayInv(s), NEW b \in Boards, RxCorrupt(b)
    PROVE  WayInv(s)'
<1>1. /\ rxpc[b] = "read" /\ line[Peer(b)] # <<>> /\ ConsumeAndSend(b, Answer("nak", 0))
      /\ UNCHANGED <<tx, txpc, rxVars, rxpc>> /\ "port" \notin Faults
  BY WayFaults DEF RxCorrupt, Reading, txVars, Nack
<1>2. CASE b = s
  <2>1. txpc[s] = "wait" /\ line[Peer(s)] = <<Head(line[Peer(s)])>> /\ line[s] = <<>>
    BY <1>1, <1>2, WayAnswer
  <2>2. line'[Peer(s)] = <<>> /\ line'[s] = <<Answer("nak", 0)>>
    BY <1>1, <1>2, <2>1, WayReply
  <2> QED BY <1>1, <1>2, <2>1, <2>2, WayTransit
<1>3. CASE b = Peer(s)
  <2>1. Peer(b) = s
    BY <1>3, WayBoards
  <2>2. txpc[s] = "wait" /\ line[s] = <<Head(line[s])>> /\ line[b] = <<>> /\ rxpc[s] = "read"
    BY <1>1, <1>3, <2>1, WayPacket
  <2>3. line'[s] = <<>> /\ line'[b] = <<Answer("nak", 0)>>
    BY <1>1, <2>1, <2>2, WayReply
  <2> QED BY <1>1, <1>3, <2>2, <2>3, WayTransit
<1> QED BY <1>2, <1>3, WayBoards

\* thread_rx of s with an answer: zeroed, copied and signalled.
LEMMA WayRxAnswer ==
    ASSUME TypeOK, NEW s, OneWayFrom(s), WayInv(s),
           RxAnswerZero(s) \/ RxAnswerCopy(s) \/ RxAnswerSignal(s)
    PROVE  WayInv(s)'
<1>1. /\ s \in Boards /\ Peer(s) \in Boards /\ Peer(s) # s
      /\ rxpc \in [Boards -> {"read", "copy", "signal"}]
      /\ DOMAIN pkt_info_table = Boards
  BY WayBoards DEF TypeOK, AnswerTypeOK
<1>2. line[Peer(s)] # <<>>
  BY <1>1 DEF RxAnswerZero, RxAnswerCopy, RxAnswerSignal, Reading, TypeOK, LineTypeOK
<1>3. PICK a : a = Head(line[Peer(s)])
  OBVIOUS
<1>4. /\ txpc[s] = "wait" /\ Active(s) /\ line[s] = <<>> /\ line[Peer(s)] = <<a>> /\ Fits(s, a)
      /\ Answer(a.cmd, a.num) = a /\ Arrived(s) = a
  BY <1>2, <1>3, WayAnswer
<1>5. CASE RxAnswerZero(s)
  <2>1. UNCHANGED <<tx, txpc, rxVars, line>> /\ rxpc'[s] = "copy"
    BY <1>1, <1>5 DEF RxAnswerZero, txVars
  <2> QED BY <1>4, <2>1, WayTransit
<1>6. SUFFICES ASSUME tx' = tx, UNCHANGED rxVars, UnderWay(s)', Heard(s)'
               PROVE  WayInv(s)'
  <2>1. /\ \A c : Fits(s, c)' <=> Fits(s, c)
        /\ PacketToSend(s)' = PacketToSend(s)
    <3>1. tx' = tx /\ UNCHANGED rxVars
      BY <1>5 DEF RxAnswerZero, RxAnswerCopy, RxAnswerSignal, txVars
    <3> QED BY <3>1, SameReceived DEF rxVars, Item, Taken
  <2>2. CASE RxAnswerCopy(s)
    <3>1. /\ UNCHANGED <<tx, txpc, rxVars, line>> /\ rxpc'[s] = "signal"
          /\ pkt_info_table'[s] = a
      BY <1>1, <1>4, <2>2 DEF RxAnswerCopy, txVars
    <3>2. UnderWay(s)'
      BY <2>1, <3>1 DEF WayInv, UnderWay
    <3>3. Heard(s)'
      BY <1>4, <3>1 DEF Heard
    <3> QED BY <1>6, <3>1, <3>2, <3>3
  <2>3. CASE RxAnswerSignal(s)
    <3>1. /\ rxpc[s] = "signal" /\ Consume(s) /\ UNCHANGED <<tx, rxVars, pkt_info_table>>
          /\ rxpc'[s] = "read" /\ txpc'[s] = "woken"
      BY <1>1, <1>4, <2>3 DEF RxAnswerSignal, TypeOK, SenderTypeOK
    <3>2. line'[s] = <<>> /\ line'[Peer(s)] = <<>>
      <4>1. PICK rest \in Remainders(line[Peer(s)]) : line' = [line EXCEPT ![Peer(s)] = rest]
        BY <3>1 DEF Consume
      <4>2. Peer(Peer(s)) = s
        BY WayBoards
      <4> QED BY <1>1, <1>4, <4>1, <4>2, WayConsume
    <3>3. pkt_info_table[s] = a
      <4>1. line[Peer(s)] = <<pkt_info_table[s]>>
        BY <3>1 DEF WayInv, Heard
      <4> QED BY <1>3, <4>1
    <3>4. UnderWay(s)'
      BY <3>2 DEF UnderWay
    <3>5. Fits(s, pkt_info_table[s])'
      <4>1. Fits(s, a)' /\ pkt_info_table'[s] = a
        BY <1>4, <2>1, <3>1, <3>3
      <4> QED BY <4>1
    <3>6. Heard(s)'
      BY <3>1, <3>5 DEF Heard
    <3> QED BY <1>6, <3>1, <3>4, <3>6
  <2> QED BY <1>5, <2>2, <2>3
<1> QED BY <1>4, <1>6, WayMoves

\* thread_rx of the receiver with a nak that nobody there waits for.
LEMMA WayRxNak ==
    ASSUME TypeOK, NEW s, OneWayFrom(s), WayInv(s),
           RxAnswerZero(Peer(s)) \/ RxAnswerCopy(Peer(s)) \/ RxAnswerSignal(Peer(s))
    PROVE  WayInv(s)'
<1>1. s \in Boards /\ Peer(s) \in Boards /\ Peer(s) # s /\ Peer(Peer(s)) = s
  BY WayBoards
<1>2. line[s] # <<>>
  BY <1>1 DEF RxAnswerZero, RxAnswerCopy, RxAnswerSignal, Reading, TypeOK, LineTypeOK
<1>3. /\ txpc[s] = "wait" /\ line[Peer(s)] = <<>> /\ rxpc[s] = "read"
      /\ line[s] = <<Head(line[s])>>
  BY <1>2, WayPacket
<1>4. UNCHANGED <<tx, rxVars>> /\ rxpc'[s] = "read"
  BY <1>1, <1>3 DEF RxAnswerZero, RxAnswerCopy, RxAnswerSignal, txVars, TypeOK, AnswerTypeOK
<1>5. UNCHANGED txpc
  <2>1. txpc[Peer(s)] = "idle" /\ txpc \in [Boards -> TxPlaces]
    BY SilentPeer DEF TypeOK, SenderTypeOK
  <2>2. CASE RxAnswerSignal(Peer(s))
    <3>1. txpc' = [txpc EXCEPT ![Peer(s)] = "idle"]
      BY <1>1, <2>1, <2>2 DEF RxAnswerSignal
    <3> QED BY <1>1, <2>1, <3>1
  <2> QED BY <2>2 DEF RxAnswerZero, RxAnswerCopy, txVars
<1>6. \/ line' = line
      \/ line'[s] = <<>> /\ line'[Peer(s)] = line[Peer(s)]
  <2>1. CASE RxAnswerSignal(Peer(s))
    <3>1. PICK rest \in Remainders(line[s]) : line' = [line EXCEPT ![s] = rest]
      BY <1>1, <2>1 DEF RxAnswerSignal, Consume
    <3> QED BY <1>1, <1>3, <3>1, WayConsume
  <2> QED BY <2>1 DEF RxAnswerZero, RxAnswerCopy
<1> QED BY <1>3, <1>4, <1>5, <1>6, WayTransit

\* The receiver has dealt with the packet thread_tx waits for, and answers.
LEMMA WayHandles ==
    ASSUME TypeOK, NEW s, OneWayFrom(s), WayInv(s), line[s] # <<>>,
           NEW cmd, Reply(Peer(s), cmd), Arrived(Peer(s)) = PacketToSend(s),
           UNCHANGED <<tx, txpc, rxpc, pkt_info_table>>,
           (cmd = "can" /\ "nomem" \in Faults) \/ (cmd = "ack" /\ Received(s)'),
           Progress(s)', Entries(s)'
    PROVE  WayInv(s)'
<1>1. s \in Boards /\ Peer(s) \in Boards /\ Peer(Peer(s)) = s /\ "port" \notin Faults
  BY WayBoards, WayFaults
<1>2. /\ txpc[s] = "wait" /\ line[Peer(s)] = <<>> /\ rxpc[s] = "read"
      /\ line[s] = <<Head(line[s])>>
  BY WayPacket
<1>3. PICK a : a = Answer(cmd, tx[s].num)
  OBVIOUS
<1>4. ConsumeAndSend(Peer(s), a)
  BY <1>3 DEF Reply, PacketToSend
<1>5. line'[s] = <<>> /\ line'[Peer(s)] = <<a>>
  BY <1>1, <1>2, <1>4, WayReply
<1>6. Fits(s, a)'
  BY <1>3 DEF Fits
<1>7. UnderWay(s)'
  BY <1>2, <1>5, <1>6 DEF UnderWay
<1>8. Heard(s)'
  BY <1>2 DEF Heard
<1> QED BY <1>7, <1>8 DEF WayInv

\* A data packet that arrives is the one thread_tx is at.
LEMMA WayArrives ==
    ASSUME TypeOK, NEW s, OneWayFrom(s), WayInv(s), OrderInv,
           Reading(Peer(s), {"sof", "tx", "eof"})
    PROVE  /\ line[s] # <<>> /\ Active(s) /\ Arrived(Peer(s)) = PacketToSend(s)
           /\ tx[s].msg \in Messages(s) /\ Size[s][tx[s].msg] \in Nat
           /\ tx[s].frag \in 1 .. Size[s][tx[s].msg] + 1
           /\ tx[s].num = NumOf(tx[s].frag)
           /\ Arrived(Peer(s)).cmd = "sof" <=> ~IsEof(s) /\ tx[s].frag = 1
           /\ Arrived(Peer(s)).cmd = "tx" <=> ~IsEof(s) /\ tx[s].frag # 1
           /\ Arrived(Peer(s)).cmd = "eof" <=> IsEof(s)
<1>1. s \in Boards /\ line[s] # <<>> /\ Arrived(Peer(s)).cmd \in {"sof", "tx", "eof"}
  BY WayBoards DEF Reading
<1>2. /\ Active(s) /\ txpc[s] = "wait"
      /\ Arrived(Peer(s)) = PacketToSend(s) \/ Arrived(Peer(s)) = Answer("nak", 0)
  BY <1>1, WayPacket
<1>3. Arrived(Peer(s)) = PacketToSend(s)
  BY <1>1, <1>2 DEF Answer
<1>4. tx[s].msg \in Messages(s) /\ tx[s].frag \in 1 .. Size[s][tx[s].msg] + 1
  BY <1>1, <1>2 DEF TypeOK, SenderTypeOK
<1>5. Size[s][tx[s].msg] \in Nat
  BY <1>1, <1>4, SizeAssumption DEF Messages
<1>6. tx[s].num = NumOf(tx[s].frag)
  BY <1>1, <1>2 DEF OrderInv, Order, SendOrder, SenderNum
<1>7. Arrived(Peer(s)).cmd = CmdToSend(s)
  BY <1>3 DEF PacketToSend
<1> QED BY <1>1, <1>2, <1>3, <1>4, <1>5, <1>6, <1>7 DEF CmdToSend

LEMMA FirstFacts ==
    /\ \A m : FirstFragments(m, 1) = << <<m, 1>> >>
    /\ \A m : \A n \in Nat : Append(FirstFragments(m, n), <<m, n + 1>>) = FirstFragments(m, n + 1)
<1>1. ASSUME NEW m PROVE FirstFragments(m, 1) = << <<m, 1>> >>
  BY DEF FirstFragments
<1>2. ASSUME NEW m, NEW n \in Nat
      PROVE  Append(FirstFragments(m, n), <<m, n + 1>>) = FirstFragments(m, n + 1)
  <2>1. PICK S : S = {<<m, k>> : k \in 1 .. n + 1}
    OBVIOUS
  <2>2. PICK x : x = FirstFragments(m, n)
    OBVIOUS
  <2>3. PICK y : y = FirstFragments(m, n + 1)
    OBVIOUS
  <2>4. PICK e : e = <<m, n + 1>>
    OBVIOUS
  <2>5. \A k \in 1 .. n + 1 : <<m, k>> \in S
    BY <2>1
  <2>6. /\ x = [k \in 1 .. n |-> <<m, k>>] /\ y = [k \in 1 .. n + 1 |-> <<m, k>>] /\ e \in S
    BY <2>2, <2>3, <2>4, <2>5 DEF FirstFragments
  <2>7. x \in Seq(S) /\ y \in Seq(S) /\ Len(x) = n /\ Len(y) = n + 1
    BY <2>5, <2>6
  <2>8. PICK z : z = Append(x, e)
    OBVIOUS
  <2>9. /\ z \in Seq(S) /\ Len(z) = n + 1 /\ z[n + 1] = e /\ \A k \in 1 .. n : z[k] = x[k]
    BY <2>6, <2>7, <2>8, AppendFacts
  <2>10. \A k \in 1 .. n + 1 : z[k] = y[k]
    <3>1. \A k \in 1 .. n : x[k] = <<m, k>> /\ y[k] = <<m, k>>
      BY <2>6
    <3>2. y[n + 1] = e
      BY <2>4, <2>6
    <3>3. \A k \in 1 .. n + 1 : k = n + 1 \/ k \in 1 .. n
      OBVIOUS
    <3> QED BY <2>9, <3>1, <3>2, <3>3
  <2>11. z = y
    BY <2>7, <2>9, <2>10, SeqEqual
  <2> QED BY <2>2, <2>3, <2>4, <2>8, <2>11
<1> QED BY <1>1, <1>2

\* deal_with_sof_packet begins the item with the first fragment.
LEMMA WayRxSof ==
    ASSUME TypeOK, NEW s, OneWayFrom(s), WayInv(s), OrderInv, RxSof(Peer(s))
    PROVE  WayInv(s)'
<1>1. /\ Reading(Peer(s), {"sof"}) /\ UNCHANGED <<tx, txpc, rxpc, pkt_info_table, list_rx>>
  BY DEF RxSof, txVars
<1>2. /\ line[s] # <<>> /\ Active(s) /\ Arrived(Peer(s)) = PacketToSend(s)
      /\ ~IsEof(s) /\ tx[s].frag = 1 /\ tx[s].num = MIN_PACKET_NUM
  BY <1>1, WayArrives, NumFacts DEF Reading
<1>3. Progress(s)'
  BY <1>1, <1>2 DEF Progress
<1>4. IsEof(s)' <=> IsEof(s)
  BY <1>1 DEF IsEof
<1>5. Entries(s)'
  BY <1>1, <1>2, <1>4 DEF WayInv, Entries, Taken, Active
<1>6. CASE Reply(Peer(s), "can") /\ "nomem" \in Faults
  BY <1>1, <1>2, <1>3, <1>5, <1>6, WayHandles
<1>7. CASE /\ Arrived(Peer(s)).num = MIN_PACKET_NUM
           /\ DataItemList' = [DataItemList EXCEPT ![Peer(s)] =
                  OpenItem(<< <<Arrived(Peer(s)).msg, Arrived(Peer(s)).frag>> >>)]
           /\ PktNum' = [PktNum EXCEPT ![Peer(s)] = NextNum(MIN_PACKET_NUM)]
           /\ Reply(Peer(s), "ack")
  <2>1. PICK d : d = << <<tx[s].msg, 1>> >>
    OBVIOUS
  <2>2. Item(s)' = OpenItem(d) /\ PktNum'[Peer(s)] = NumOf(2)
    <3>1. Peer(s) \in Boards /\ DOMAIN DataItemList = Boards /\ DOMAIN PktNum = Boards
      BY WayBoards DEF TypeOK, ItemTypeOK
    <3>2. Arrived(Peer(s)).msg = tx[s].msg /\ Arrived(Peer(s)).frag = 1
      BY <1>2 DEF PacketToSend
    <3>3. NextNum(MIN_PACKET_NUM) = NumOf(2)
      BY DEF NextNum, MIN_PACKET_NUM, MAX_PACKET_NUM, NumOf
    <3> QED BY <1>7, <2>1, <3>1, <3>2, <3>3 DEF Item
  <2>3. d = FirstFragments(tx[s].msg, 1)
    BY <2>1, FirstFacts
  <2>4. Holds(s, 1)'
    <3>1. 1 + 1 = 2
      OBVIOUS
    <3> QED BY <1>1, <2>2, <2>3, <3>1 DEF Holds, OpenItem
  <2>5. Received(s)'
    BY <1>1, <1>2, <1>4, <2>4 DEF Received, Holds
  <2> QED BY <1>1, <1>2, <1>3, <1>5, <1>7, <2>5, WayHandles
<1> QED BY <1>2, <1>6, <1>7 DEF RxSof, PacketToSend

\* deal_with_tx_packet takes the next fragment and only acknowledges one that it has.
LEMMA WayRxTx ==
    ASSUME TypeOK, NEW s, OneWayFrom(s), WayInv(s), OrderInv, RxTx(Peer(s))
    PROVE  WayInv(s)'
<1>1. /\ Reading(Peer(s), {"tx"}) /\ UNCHANGED <<tx, txpc, rxpc, pkt_info_table, list_rx>>
  BY DEF RxTx, txVars
<1>2. PICK f : f = tx[s].frag
  OBVIOUS
<1>3. /\ line[s] # <<>> /\ Active(s) /\ Arrived(Peer(s)) = PacketToSend(s)
      /\ ~IsEof(s) /\ f \in Nat /\ f >= 2 /\ tx[s].num = NumOf(f)
  BY <1>1, <1>2, WayArrives DEF Reading
<1>4. Holds(s, f - 1) \/ Holds(s, f)
  BY <1>2, <1>3 DEF WayInv, Progress, Received
<1>5. /\ Peer(s) \in Boards /\ DOMAIN DataItemList = Boards /\ DOMAIN PktNum = Boards
      /\ Item(s) = DataItemList[Peer(s)]
  BY WayBoards DEF TypeOK, ItemTypeOK, Item
<1>6. f - 1 \in Nat \ {0} /\ (f - 1) + 1 = f
  BY <1>3
<1>7. IsEof(s)' <=> IsEof(s)
  BY <1>1 DEF IsEof
<1>8. Entries(s)'
  BY <1>1, <1>3, <1>7 DEF WayInv, Entries, Taken, Active
<1>9. ASSUME Holds(s, f)', NEW cmd, Reply(Peer(s), cmd),
             (cmd = "can" /\ "nomem" \in Faults) \/ cmd = "ack"
      PROVE  WayInv(s)'
  <2>1. Received(s)'
    BY <1>1, <1>2, <1>3, <1>7, <1>9 DEF Received, Holds
  <2>2. Progress(s)'
    BY <2>1 DEF Progress
  <2> QED BY <1>1, <1>3, <1>8, <1>9, <2>1, <2>2, WayHandles
<1>10. CASE /\ ~DataItemList[Peer(s)].open /\ Reply(Peer(s), "ack") /\ UNCHANGED DataItemList
  <2>1. Holds(s, f)'
    BY <1>4, <1>5, <1>10 DEF Holds, Item
  <2> QED BY <1>9, <1>10, <2>1
<1>11. CASE /\ DataItemList[Peer(s)].open /\ ~Expected(Peer(s)) /\ Reply(Peer(s), "ack")
            /\ UNCHANGED <<DataItemList, PktNum>>
  <2>1. PktNum[Peer(s)] # NumOf(f)
    BY <1>3, <1>11 DEF Expected, PacketToSend
  <2>2. Holds(s, f)
    BY <1>4, <1>5, <1>6, <1>11, <2>1 DEF Holds
  <2>3. Holds(s, f)'
    BY <1>1, <1>11, <2>2 DEF Holds, Item
  <2> QED BY <1>9, <1>11, <2>3
<1>12. CASE /\ "nomem" \in Faults /\ DataItemList' = [DataItemList EXCEPT ![Peer(s)] = NoItem]
            /\ Reply(Peer(s), "can")
  <2>1. ~Item(s)'.open
    BY <1>5, <1>12 DEF Item, NoItem
  <2>2. Holds(s, f)'
    BY <1>12, <2>1 DEF Holds
  <2> QED BY <1>9, <1>12, <2>2
<1>13. CASE /\ DataItemList[Peer(s)].open /\ Expected(Peer(s))
            /\ DataItemList' = [DataItemList EXCEPT ![Peer(s)] =
                   OpenItem(Append(@.data, <<Arrived(Peer(s)).msg, Arrived(Peer(s)).frag>>))]
            /\ PktNum' = [PktNum EXCEPT ![Peer(s)] = NextNum(@)]
            /\ Reply(Peer(s), "ack")
  <2>1. PktNum[Peer(s)] = NumOf(f)
    BY <1>3, <1>13 DEF Expected, PacketToSend
  <2>2. NumOf(f + 1) # NumOf(f) /\ NextNum(NumOf(f)) = NumOf(f + 1)
    BY <1>3, NumFacts
  <2>3. Item(s).data = FirstFragments(tx[s].msg, f - 1)
    BY <1>4, <1>5, <1>13, <2>1, <2>2 DEF Holds
  <2>4. Arrived(Peer(s)).msg = tx[s].msg /\ Arrived(Peer(s)).frag = f
    BY <1>2, <1>3 DEF PacketToSend
  <2>5. PICK d : d = Append(Item(s).data, <<tx[s].msg, f>>)
    OBVIOUS
  <2>6. Item(s)' = OpenItem(d) /\ PktNum'[Peer(s)] = NumOf(f + 1)
    BY <1>5, <1>13, <2>1, <2>2, <2>4, <2>5 DEF Item
  <2>7. d = FirstFragments(tx[s].msg, f)
    BY <1>6, <2>3, <2>5, FirstFacts
  <2>8. Holds(s, f)'
    BY <1>1, <2>6, <2>7 DEF Holds, OpenItem
  <2> QED BY <1>9, <1>13, <2>8
<1> QED BY <1>10, <1>11, <1>12, <1>13 DEF RxTx

\* What deal_with_eof_packet hands over is the whole message that thread_tx is at, for
\* the first time.
LEMMA WayHandsOver ==
    ASSUME TypeOK, NEW s, OneWayFrom(s), WayInv(s), OrderInv,
           Reading(Peer(s), {"eof"}), Item(s).open
    PROVE  /\ Item(s).data = WholeMessage(s, tx[s].msg) /\ tx[s].msg \in Messages(s)
           /\ \A i \in DOMAIN Taken(s) : \E m \in Messages(s) :
                  Taken(s)[i] = WholeMessage(s, m) /\ m < tx[s].msg
<1>1. /\ Active(s) /\ IsEof(s) /\ tx[s].msg \in Messages(s) /\ Size[s][tx[s].msg] \in Nat
      /\ tx[s].frag \in 1 .. Size[s][tx[s].msg] + 1
  BY WayArrives DEF Reading
<1>2. tx[s].frag = Size[s][tx[s].msg] + 1 /\ tx[s].frag - 1 = Size[s][tx[s].msg]
  BY <1>1 DEF IsEof
<1>3. Size[s][tx[s].msg] # 0
  BY <1>1, WayBoards, SizeAssumption DEF Messages
<1>4. Holds(s, tx[s].frag - 1)
  BY <1>1, <1>2, <1>3 DEF WayInv, Progress, Received
<1>5. Item(s).data = WholeMessage(s, tx[s].msg)
  BY <1>2, <1>4 DEF Holds, WholeMessage, FirstFragments
<1>6. \A i \in DOMAIN Taken(s) : \E m \in Messages(s) :
          Taken(s)[i] = WholeMessage(s, m) /\ m < tx[s].msg
  BY <1>1 DEF WayInv, Entries
<1> QED BY <1>1, <1>5, <1>6

LEMMA WayRxEof ==
    ASSUME TypeOK, NEW s, OneWayFrom(s), WayInv(s), OrderInv, RxEof(Peer(s))
    PROVE  WayInv(s)'
<1>1. /\ Reading(Peer(s), {"eof"}) /\ UNCHANGED <<tx, txpc, rxpc, pkt_info_table>>
      /\ Reply(Peer(s), "ack")
  BY DEF RxEof, txVars, EofAnswer
<1>2. /\ line[s] # <<>> /\ Active(s) /\ Arrived(Peer(s)) = PacketToSend(s) /\ IsEof(s)
      /\ tx[s].msg \in Messages(s) /\ Size[s][tx[s].msg] \in Nat
  BY <1>1, WayArrives DEF Reading
<1>3. /\ s \in Boards /\ Peer(s) \in Boards /\ Peer(s) # s /\ DOMAIN DataItemList = Boards
      /\ list_rx \in [Boards -> Seq(Seq(Fragments))]
      /\ Item(s) = DataItemList[Peer(s)] /\ Taken(s) = list_rx[Peer(s)]
  BY WayBoards DEF TypeOK, ItemTypeOK, Item, Taken
<1>4. IsEof(s)' <=> IsEof(s)
  BY <1>1 DEF IsEof
<1>5. ASSUME Received(s)', Entries(s)' PROVE WayInv(s)'
  <2>1. Progress(s)'
    BY <1>5 DEF Progress
  <2> QED BY <1>1, <1>2, <1>5, <2>1, WayHandles
<1>6. CASE ~DataItemList[Peer(s)].open /\ UNCHANGED <<DataItemList, list_rx>>
  <2>1. ~Item(s).open /\ Item(s)' = Item(s) /\ Taken(s)' = Taken(s) /\ list_rx' = list_rx
    BY <1>3, <1>6 DEF Item, Taken
  <2>2. Handed(s, tx[s].msg) \/ "nomem" \in Faults
    <3>1. tx[s].frag # 1
      BY <1>2, <1>3, SizeAssumption DEF IsEof, Messages
    <3>2. Holds(s, tx[s].frag - 1) \/ Received(s)
      BY <1>2, <3>1 DEF WayInv, Progress
    <3> QED BY <1>2, <2>1, <3>2 DEF Holds, Received
  <2>3. Received(s)'
    BY <1>1, <1>2, <1>4, <2>1, <2>2 DEF Received, Handed
  <2>4. Entries(s)'
    BY <1>1, <1>2, <1>4, <2>1 DEF WayInv, Entries, Active
  <2> QED BY <1>5, <2>3, <2>4
<1>7. CASE DataItemList[Peer(s)].open /\ HandOver(Peer(s))
  <2>1. /\ Item(s).data = WholeMessage(s, tx[s].msg)
        /\ \A i \in DOMAIN Taken(s) : \E m \in Messages(s) :
               Taken(s)[i] = WholeMessage(s, m) /\ m < tx[s].msg
    BY <1>1, <1>3, <1>7, WayHandsOver
  <2>2. PICK w : w = Item(s).data
    OBVIOUS
  <2>3. w \in Seq(Fragments) /\ Taken(s) \in Seq(Seq(Fragments))
    BY <1>3, <2>2, FragmentTypes
  <2>4. ~Item(s)'.open /\ Taken(s)' = Append(Taken(s), w) /\ list_rx'[s] = list_rx[s]
    BY <1>3, <1>7, <2>2 DEF HandOver, Item, Taken, NoItem
  <2>5. /\ DOMAIN Taken(s) = 1 .. Len(Taken(s)) /\ Len(Taken(s)) \in Nat
        /\ DOMAIN Taken(s)' = 1 .. Len(Taken(s)) + 1
        /\ Taken(s)'[Len(Taken(s)) + 1] = w
        /\ \A k \in DOMAIN Taken(s) : Taken(s)'[k] = Taken(s)[k]
    BY <2>3, <2>4, AppendFacts
  <2>6. Handed(s, tx[s].msg)'
    <3>1. Len(Taken(s)) + 1 \in DOMAIN Taken(s)'
      BY <2>5
    <3> QED BY <1>1, <2>1, <2>2, <2>5, <3>1 DEF Handed
  <2>7. Received(s)'
    BY <1>1, <1>2, <1>4, <2>4, <2>6 DEF Received, Handed
  <2>8. Entries(s)'
    <3>1. list_rx'[s] = <<>>
      BY <2>4 DEF WayInv, Entries
    <3>2. ASSUME NEW i \in DOMAIN Taken(s)'
          PROVE  \E m \in Messages(s) : Taken(s)'[i] = WholeMessage(s, m) /\ m <= tx[s].msg
      <4>1. i \in DOMAIN Taken(s) \/ i = Len(Taken(s)) + 1
        BY <2>5
      <4>2. tx[s].msg <= tx[s].msg /\ \A m \in Messages(s) : m < tx[s].msg => m <= tx[s].msg
        BY <1>2 DEF Messages
      <4> QED BY <1>2, <2>1, <2>2, <2>5, <4>1, <4>2
    <3>3. IsEof(s)' /\ ~Item(s)'.open
      BY <1>2, <1>4, <2>4
    <3> QED BY <1>1, <3>1, <3>2, <3>3 DEF Entries
  <2> QED BY <1>5, <2>7, <2>8
<1> QED BY <1>6, <1>7 DEF RxEof

LEMMA WayInit == ASSUME NEW s, OneWayFrom(s), Init PROVE WayInv(s)
<1>1. /\ s \in Boards /\ Peer(s) \in Boards /\ txpc[s] = "idle" /\ line[s] = <<>>
      /\ line[Peer(s)] = <<>> /\ rxpc[s] = "read" /\ list_rx[s] = <<>> /\ Taken(s) = <<>>
  BY WayBoards DEF Init, Taken
<1> QED BY <1>1 DEF WayInv, Progress, UnderWay, Heard, Entries, Active

\* The steps that concern neither the queue nor the fate of a message of s.
OtherStep(s) ==
    \/ TxSend(s) \/ RxAnswerZero(s) \/ RxAnswerCopy(s) \/ RxAnswerSignal(s)
    \/ RxAnswerZero(Peer(s)) \/ RxAnswerCopy(Peer(s)) \/ RxAnswerSignal(Peer(s))
    \/ RxSof(Peer(s)) \/ RxTx(Peer(s)) \/ \E b \in Boards : LineLoses(b) \/ RxCorrupt(b)
    \/ UNCHANGED vars

\* The steps there are.
LEMMA WaySteps ==
    ASSUME TypeOK, NEW s, OneWayFrom(s), WayInv(s), [Next]_vars
    PROVE  \/ LinkSend(s) \/ TxFetch(s) \/ TxTimeout(s) \/ TxAnswered(s) \/ TxClear(s)
           \/ RxEof(Peer(s)) \/ OtherStep(s)
<1> USE WayBoards, WayFaults
<1>1. ASSUME \/ LinkSend(Peer(s)) \/ TxFetch(Peer(s)) \/ TxSend(Peer(s)) \/ TxTimeout(Peer(s))
             \/ TxAnswered(Peer(s)) \/ TxClear(Peer(s))
      PROVE  FALSE
  <2>1. /\ txpc[Peer(s)] = "idle" /\ list_tx[Peer(s)] = <<>>
        /\ ~(submitted[Peer(s)] < Len(Size[Peer(s)]))
    BY SilentPeer
  <2> QED BY <1>1, <2>1 DEF LinkSend, TxFetch, TxSend, TxTimeout, TxAnswered, TxClear,
             TxCompareNak, TxCompareCan, TxCompareAck, TxCompareNum
<1>2. ASSUME RxSof(s) \/ RxTx(s) \/ RxEof(s) PROVE FALSE
  <2>1. line[Peer(s)] # <<>> /\ Arrived(s).cmd \notin Answers
    BY <1>2 DEF RxSof, RxTx, RxEof, Reading, Answers
  <2> QED BY <2>1, WayAnswer
<1>3. ASSUME NEW b \in Boards, TxSendError(b) \/ TxSpuriousWake(b) \/ LineFlipsHeader(b)
      PROVE  FALSE
  BY <1>3 DEF TxSendError, TxSpuriousWake, LineFlipsHeader
<1> QED BY <1>1, <1>2, <1>3 DEF Next, Quiescent, OtherStep

LEMMA WayStep ==
    ASSUME NEW s, OneWayFrom(s)
    PROVE  TypeOK /\ OrderInv /\ WayInv(s) /\ [Next]_vars => WayInv(s)'
<1> SUFFICES ASSUME TypeOK, OrderInv, WayInv(s), [Next]_vars PROVE WayInv(s)'
  OBVIOUS
<1>1. CASE LinkSend(s) \/ TxFetch(s) \/ TxTimeout(s) \/ TxAnswered(s) \/ TxClear(s)
  BY <1>1, WayLinkSend, WayTxFetch, WayTxTimeout, WayTxAnswered, WayTxClear
<1>2. CASE TxSend(s) \/ RxSof(Peer(s)) \/ RxTx(Peer(s)) \/ RxEof(Peer(s))
  BY <1>2, WayTxSend, WayRxSof, WayRxTx, WayRxEof
<1>3. CASE \/ RxAnswerZero(s) \/ RxAnswerCopy(s) \/ RxAnswerSignal(s)
           \/ RxAnswerZero(Peer(s)) \/ RxAnswerCopy(Peer(s)) \/ RxAnswerSignal(Peer(s))
  BY <1>3, WayRxAnswer, WayRxNak
<1>4. CASE \E b \in Boards : LineLoses(b) \/ RxCorrupt(b)
  BY <1>4, WayLineLoses, WayRxCorrupt
<1>5. CASE UNCHANGED vars
  BY <1>5, WaySame DEF vars, rxVars
<1> QED BY <1>1, <1>2, <1>3, <1>4, <1>5, WaySteps DEF OtherStep

\* What the application of s's peer finds in its queue is whole messages of s, and
\* the application of s finds nothing.
LEMMA WayWhole == ASSUME TypeOK, NEW s, OneWayFrom(s), WayInv(s) PROVE WholeMessages
<1>1. Boards = {s, Peer(s)} /\ Peer(Peer(s)) = s /\ list_rx[s] = <<>>
  BY WayBoards DEF WayInv, Entries
<1>2. \A i \in DOMAIN list_rx[Peer(s)] : \E m \in Messages(s) :
          list_rx[Peer(s)][i] = WholeMessage(s, m)
  BY DEF WayInv, Entries, Taken
<1>3. \A i \in DOMAIN list_rx[s] : FALSE
  BY <1>1
<1> QED BY <1>1, <1>2, <1>3 DEF WholeMessages

\* WholeMessages for every number and size of messages and every retry limit: when the
\* traffic goes one way and the timeout of wait_for_answer fires only with nothing
\* under way, deal_with_eof_packet puts only complete messages into list_rx, whatever
\* packets and answers are lost or damaged, and even when malloc or realloc fails.
THEOREM MessagesAreWhole == ASSUME NEW s, OneWayFrom(s) PROVE Spec => []WholeMessages
<1>1. "header" \notin Faults
  BY WayFaults
<1>2. Init => TypeOK /\ OrderInv /\ WayInv(s)
  BY TypeInit, OrderInit, WayInit
<1>3. TypeOK /\ OrderInv /\ WayInv(s) /\ [Next]_vars => TypeOK' /\ OrderInv' /\ WayInv(s)'
  BY <1>1, TypeStep, OrderStep, WayStep
<1>4. TypeOK /\ WayInv(s) => WholeMessages
  BY WayWhole
<1> QED BY <1>2, <1>3, <1>4, PTL DEF Spec

-----------------------------------------------------------------------------
(***************************************************************************)
(* What the sender knows of its messages.                                  *)
(***************************************************************************)

Status(s, m) ==
    /\ outcome[s][m] = "new" <=> submitted[s] < m
    /\ outcome[s][m] = "queued" <=> \E i \in DOMAIN list_tx[s] : list_tx[s][i] = m
    /\ outcome[s][m] = "sending" <=> Active(s) /\ m = tx[s].msg
    /\ txpc[s] = "clear" /\ m = tx[s].msg => outcome[s][m] = "failed"
    /\ outcome[s][m] = "ok" => Handed(s, m) \/ "nomem" \in Faults

StatusInv(s) == \A m \in Messages(s) : Status(s, m)

\* What the application was given is not taken away.
LEMMA HandedGrows ==
    ASSUME TypeOK, NEW s \in Boards,
           \/ list_rx' = list_rx
           \/ \E d \in Seq(Fragments) : list_rx' = [list_rx EXCEPT ![Peer(s)] = Append(@, d)]
    PROVE  \A m : Handed(s, m) => Handed(s, m)'
<1>1. CASE list_rx' = list_rx
  BY <1>1 DEF Handed, Taken
<1>2. CASE \E d \in Seq(Fragments) : list_rx' = [list_rx EXCEPT ![Peer(s)] = Append(@, d)]
  <2>1. PICK d \in Seq(Fragments) : list_rx' = [list_rx EXCEPT ![Peer(s)] = Append(@, d)]
    BY <1>2
  <2>2. Taken(s) \in Seq(Seq(Fragments)) /\ Taken(s)' = Append(Taken(s), d)
    BY <2>1, PeerFacts DEF TypeOK, ItemTypeOK, Taken
  <2>3. /\ DOMAIN Taken(s) = 1 .. Len(Taken(s)) /\ Len(Taken(s)) \in Nat
        /\ DOMAIN Taken(s)' = 1 .. Len(Taken(s)) + 1
        /\ \A k \in DOMAIN Taken(s) : Taken(s)'[k] = Taken(s)[k]
    BY <2>2, AppendFacts
  <2>4. DOMAIN Taken(s) \subseteq DOMAIN Taken(s)'
    BY <2>3
  <2> QED BY <2>3, <2>4 DEF Handed
<1> QED BY <1>1, <1>2

LEMMA StatusKept ==
    ASSUME NEW s, StatusInv(s), outcome'[s] = outcome[s], submitted'[s] = submitted[s],
           list_tx'[s] = list_tx[s], tx'[s].msg = tx[s].msg, Active(s)' <=> Active(s),
           txpc'[s] = "clear" => txpc[s] = "clear", \A m : Handed(s, m) => Handed(s, m)'
    PROVE  StatusInv(s)'
<1>1. ASSUME NEW m \in Messages(s) PROVE Status(s, m)'
  BY DEF StatusInv, Status
<1> QED BY <1>1 DEF StatusInv

LEMMA StatusLinkSend ==
    ASSUME TypeOK, NEW s \in Boards, StatusInv(s), LinkSend(s)
    PROVE  StatusInv(s)' /\ outcome[s][submitted[s] + 1] = "new" /\ submitted[s] + 1 \in Messages(s)
<1>1. PICK n : n = submitted[s] + 1
  OBVIOUS
<1>2. /\ submitted[s] \in Nat /\ n \in Messages(s) /\ n \in Nat /\ Messages(s) \subseteq Nat
      /\ list_tx[s] \in Seq(Nat) /\ outcome[s] \in [Messages(s) -> Statuses]
      /\ DOMAIN outcome = Boards /\ DOMAIN submitted = Boards /\ DOMAIN list_tx = Boards
  <2>1. submitted[s] \in Nat /\ submitted[s] < Len(Size[s]) /\ Len(Size[s]) \in Nat
    BY SizeAssumption DEF LinkSend, TypeOK, QueueTypeOK
  <2> QED BY <1>1, <2>1 DEF TypeOK, QueueTypeOK, OutcomeTypeOK, Messages
<1>3. /\ submitted'[s] = n /\ list_tx'[s] = Append(list_tx[s], n)
      /\ outcome'[s] = [outcome[s] EXCEPT ![n] = "queued"]
      /\ UNCHANGED <<tx, txpc, list_rx>>
  BY <1>1, <1>2 DEF LinkSend, rxVars
<1>4. /\ DOMAIN list_tx[s] = 1 .. Len(list_tx[s]) /\ Len(list_tx[s]) \in Nat
      /\ DOMAIN list_tx'[s] = 1 .. Len(list_tx[s]) + 1
      /\ list_tx'[s][Len(list_tx[s]) + 1] = n
      /\ \A k \in DOMAIN list_tx[s] : list_tx'[s][k] = list_tx[s][k]
  BY <1>2, <1>3, AppendFacts
<1>5. outcome[s][n] = "new"
  BY <1>1, <1>2 DEF StatusInv, Status
<1>6. \A m : Handed(s, m)' <=> Handed(s, m)
  BY <1>3 DEF Handed, Taken
<1>7. ASSUME NEW m \in Messages(s), m # n PROVE Status(s, m)'
  <2>1. outcome'[s][m] = outcome[s][m] /\ Status(s, m)
    BY <1>2, <1>3, <1>7 DEF StatusInv
  <2>2. submitted[s] < m <=> submitted'[s] < m
    BY <1>1, <1>2, <1>3, <1>7
  <2>3. (\E i \in DOMAIN list_tx[s] : list_tx[s][i] = m)
           <=> (\E i \in DOMAIN list_tx'[s] : list_tx'[s][i] = m)
    BY <1>4, <1>7
  <2> QED BY <1>3, <1>6, <2>1, <2>2, <2>3 DEF Status, Active
<1>8. Status(s, n)'
  <2>1. outcome'[s][n] = "queued" /\ Status(s, n)
    BY <1>2, <1>3 DEF StatusInv
  <2>2. ~(submitted'[s] < n)
    BY <1>2, <1>3
  <2>3. \E i \in DOMAIN list_tx'[s] : list_tx'[s][i] = n
    BY <1>4
  <2>4. ~(Active(s) /\ n = tx[s].msg) /\ ~(txpc[s] = "clear" /\ n = tx[s].msg)
    BY <1>5, <2>1 DEF Status
  <2> QED BY <1>3, <2>1, <2>2, <2>3, <2>4 DEF Status, Active
<1> QED BY <1>1, <1>2, <1>5, <1>7, <1>8 DEF StatusInv

LEMMA StatusTxFetch ==
    ASSUME TypeOK, NEW s \in Boards, StatusInv(s), QueueOrder(s), TxFetch(s)
    PROVE  /\ StatusInv(s)' /\ Head(list_tx[s]) \in Messages(s)
           /\ outcome[s][Head(list_tx[s])] = "queued"
           /\ \A m \in Messages(s) : outcome[s][m] # "sending"
           /\ \A m \in Messages(s) : outcome[s][m] = "queued" => Head(list_tx[s]) <= m
<1>1. PICK q, n : q = list_tx[s] /\ n = Head(list_tx[s])
  OBVIOUS
<1>2. /\ q \in Seq(Nat) /\ q # <<>> /\ \A i \in DOMAIN q : q[i] \in Messages(s) /\ q[i] \in Nat
      /\ \A i, j \in DOMAIN q : i < j => q[i] < q[j]
      /\ outcome[s] \in [Messages(s) -> Statuses] /\ txpc[s] = "idle"
  BY <1>1 DEF TypeOK, QueueTypeOK, OutcomeTypeOK, Messages, QueueOrder, TxFetch
<1>3. /\ n = q[1] /\ DOMAIN q = 1 .. Len(q) /\ Len(q) \in Nat /\ 1 \in DOMAIN q
      /\ Tail(q) \in Seq(Nat) /\ DOMAIN Tail(q) = 1 .. Len(q) - 1
      /\ \A i \in 1 .. Len(q) - 1 : Tail(q)[i] = q[i + 1]
  BY <1>1, <1>2
<1>4. n \in Messages(s) /\ \A i \in DOMAIN q : n <= q[i] /\ (i # 1 => n # q[i])
  BY <1>2, <1>3
<1>5. /\ list_tx'[s] = Tail(q) /\ outcome'[s] = [outcome[s] EXCEPT ![n] = "sending"]
      /\ tx'[s].msg = n /\ txpc'[s] = "send" /\ submitted' = submitted /\ list_rx' = list_rx
  <2>1. /\ DOMAIN list_tx = Boards /\ DOMAIN outcome = Boards /\ DOMAIN tx = Boards
        /\ DOMAIN txpc = Boards
    BY DEF TypeOK, QueueTypeOK, OutcomeTypeOK, SenderTypeOK
  <2> QED BY <1>1, <2>1 DEF TxFetch, rxVars
<1>6. \A m \in Messages(s) : outcome[s][m] = "queued" <=> \E i \in DOMAIN q : q[i] = m
  BY <1>1 DEF StatusInv, Status
<1>7. \A m \in Messages(s) : outcome[s][m] # "sending"
  BY <1>2 DEF StatusInv, Status, Active
<1>8. \A m : Handed(s, m)' <=> Handed(s, m)
  BY <1>5 DEF Handed, Taken
<1>9. ASSUME NEW m \in Messages(s), m # n PROVE Status(s, m)'
  <2>1. outcome'[s][m] = outcome[s][m] /\ Status(s, m)
    BY <1>2, <1>4, <1>5, <1>9 DEF StatusInv
  <2>2. (\E i \in DOMAIN q : q[i] = m) <=> (\E i \in DOMAIN Tail(q) : Tail(q)[i] = m)
    <3>1. ASSUME NEW i \in DOMAIN q, q[i] = m PROVE \E j \in DOMAIN Tail(q) : Tail(q)[j] = m
      <4>1. i # 1
        BY <1>3, <1>9, <3>1
      <4>2. i - 1 \in 1 .. Len(q) - 1 /\ (i - 1) + 1 = i
        BY <1>3, <4>1
      <4> QED BY <1>3, <3>1, <4>2
    <3>2. ASSUME NEW j \in DOMAIN Tail(q), Tail(q)[j] = m PROVE \E i \in DOMAIN q : q[i] = m
      <4>1. j + 1 \in DOMAIN q
        BY <1>3
      <4> QED BY <1>3, <3>2, <4>1
    <3> QED BY <3>1, <3>2
  <2> QED BY <1>1, <1>2, <1>5, <1>7, <1>8, <1>9, <2>1, <2>2 DEF Status, Active
<1>10. Status(s, n)'
  <2>1. outcome'[s][n] = "sending" /\ Status(s, n)
    BY <1>2, <1>4, <1>5 DEF StatusInv
  <2>2. ~(submitted[s] < n)
    BY <1>3, <1>6, <1>4, <2>1 DEF Status
  <2>3. ~\E i \in DOMAIN Tail(q) : Tail(q)[i] = n
    <3>1. \A i \in 1 .. Len(q) - 1 : i + 1 \in DOMAIN q /\ i + 1 # 1
      BY <1>3
    <3> QED BY <1>3, <1>4, <3>1
  <2> QED BY <1>5, <2>1, <2>2, <2>3 DEF Status, Active
<1>11. \A m \in Messages(s) : outcome[s][m] = "queued" => n <= m
  BY <1>4, <1>6
<1> QED BY <1>1, <1>3, <1>4, <1>6, <1>7, <1>9, <1>10, <1>11 DEF StatusInv

\* tx_data_info returns.
LEMMA StatusFinish ==
    ASSUME TypeOK, NEW s \in Boards, StatusInv(s), Active(s), NEW status, Finish(s, status),
           status \in {"ok", "failed", "cancelled"}, UNCHANGED <<submitted, list_tx, list_rx>>,
           status = "ok" => Handed(s, tx[s].msg) \/ "nomem" \in Faults
    PROVE  StatusInv(s)'
<1>1. PICK n : n = tx[s].msg
  OBVIOUS
<1>2. n \in Messages(s) /\ outcome[s] \in [Messages(s) -> Statuses]
  BY <1>1 DEF Active, TypeOK, SenderTypeOK, OutcomeTypeOK
<1>3. /\ outcome'[s] = [outcome[s] EXCEPT ![n] = status] /\ tx' = tx
      /\ txpc'[s] = IF status = "failed" THEN "clear" ELSE "idle"
  BY <1>1 DEF Finish, TypeOK, SenderTypeOK, OutcomeTypeOK
<1>4. \A m : Handed(s, m)' <=> Handed(s, m)
  BY DEF Handed, Taken
<1>5. ASSUME NEW m \in Messages(s), m # n PROVE Status(s, m)'
  <2>1. outcome'[s][m] = outcome[s][m] /\ Status(s, m)
    BY <1>2, <1>3, <1>5 DEF StatusInv
  <2> QED BY <1>1, <1>3, <1>4, <1>5, <2>1 DEF Status, Active
<1>6. Status(s, n)'
  <2>1. outcome'[s][n] = status /\ Status(s, n) /\ outcome[s][n] = "sending"
    BY <1>1, <1>2, <1>3 DEF StatusInv, Status
  <2> QED BY <1>1, <1>3, <1>4, <2>1 DEF Status, Active
<1> QED BY <1>5, <1>6 DEF StatusInv

LEMMA StatusTxClear ==
    ASSUME TypeOK, NEW s \in Boards, StatusInv(s), TxClear(s)
    PROVE  /\ StatusInv(s)' /\ tx[s].msg \in Messages(s) /\ outcome[s][tx[s].msg] = "failed"
           /\ \A m \in Messages(s) : outcome[s][m] # "sending"
<1>1. /\ txpc[s] = "clear" /\ txpc'[s] = "idle" /\ list_tx'[s] = <<>>
      /\ \A m \in Messages(s) : outcome'[s][m] = IF outcome[s][m] = "queued" THEN "cleared" ELSE outcome[s][m]
      /\ UNCHANGED <<submitted, tx, list_rx>>
  BY DEF TxClear, rxVars, TypeOK, QueueTypeOK, OutcomeTypeOK, SenderTypeOK
<1>2. tx[s].msg \in Messages(s)
  BY <1>1 DEF TypeOK, SenderTypeOK
<1>3. \A m \in Messages(s) : outcome[s][m] # "sending"
  BY <1>1 DEF StatusInv, Status, Active
<1>4. \A m : Handed(s, m)' <=> Handed(s, m)
  BY <1>1 DEF Handed, Taken
<1>5. ASSUME NEW m \in Messages(s) PROVE Status(s, m)'
  <2>1. ~\E i \in DOMAIN list_tx'[s] : list_tx'[s][i] = m
    BY <1>1
  <2> QED BY <1>1, <1>3, <1>4, <2>1 DEF StatusInv, Status, Active
<1> QED BY <1>1, <1>2, <1>3, <1>5 DEF StatusInv, Status

\* wait_for_answer leaves the message as it is or ends it; it ends it well only when the
\* receiver has dealt with the eof, and as cancelled only when an allocation failed.
LEMMA WayReturns ==
    ASSUME TypeOK, NEW s, OneWayFrom(s), WayInv(s), TxTimeout(s) \/ TxAnswered(s)
    PROVE  /\ Active(s) /\ UNCHANGED <<submitted, list_tx, list_rx>>
           /\ \/ UNCHANGED outcome /\ tx'[s].msg = tx[s].msg /\ Active(s)'
              \/ \E status \in {"ok", "failed", "cancelled"} :
                     /\ Finish(s, status)
                     /\ status = "ok" => Handed(s, tx[s].msg) \/ "nomem" \in Faults
                     /\ status = "cancelled" => "nomem" \in Faults
<1>1. s \in Boards /\ DOMAIN txpc = Boards /\ DOMAIN tx = Boards
  BY WayBoards DEF TypeOK, SenderTypeOK
<1>2. Active(s) /\ UNCHANGED <<submitted, list_tx, list_rx>>
  BY DEF TxTimeout, TxAnswered, TxCompareNak, TxCompareCan, TxCompareAck, TxCompareNum, Active, rxVars
<1> DEFINE Goes == UNCHANGED outcome /\ tx'[s].msg = tx[s].msg /\ Active(s)'
           Ends == \E status \in {"ok", "failed", "cancelled"} :
                     /\ Finish(s, status)
                     /\ status = "ok" => Handed(s, tx[s].msg) \/ "nomem" \in Faults
                     /\ status = "cancelled" => "nomem" \in Faults
<1> SUFFICES Goes \/ Ends
  BY <1>2
<1>3. ASSUME Retry(s) \/ GiveUp(s) PROVE Goes \/ Ends
  <2>1. CASE Retry(s)
    BY <1>1, <2>1 DEF Retry, Active
  <2>2. CASE GiveUp(s)
    BY <2>2 DEF GiveUp
  <2> QED BY <1>3, <2>1, <2>2
<1>4. txpc[s] \in {"notcan", "acked"} => pkt_info_table[s].cmd = "ack" /\ Received(s)
  BY DEF WayInv, Heard, Fits, Answer
<1>5. ASSUME NEW place \in {"notnak", "notcan", "acked"}, txpc' = [txpc EXCEPT ![s] = place],
             UNCHANGED <<tx, outcome>>
      PROVE  Goes
  BY <1>1, <1>5 DEF Active
<1>6. CASE TxTimeout(s)
  BY <1>3, <1>6 DEF TxTimeout
<1>7. CASE TxCompareNak(s)
  BY <1>3, <1>5, <1>7 DEF TxCompareNak
<1>8. CASE TxCompareCan(s)
  <2>1. CASE pkt_info_table[s].cmd = "can" /\ Finish(s, "cancelled")
    <3>1. txpc[s] = "notnak"
      BY <1>8 DEF TxCompareCan
    <3>2. "nomem" \in Faults
      BY <2>1, <3>1 DEF WayInv, Heard, Fits, Answer
    <3> QED BY <2>1, <3>2
  <2> QED BY <1>5, <1>8, <2>1 DEF TxCompareCan
<1>9. CASE TxCompareAck(s)
  BY <1>4, <1>5, <1>9 DEF TxCompareAck
<1>10. CASE TxCompareNum(s)
  <2>1. Received(s)
    BY <1>4, <1>10 DEF TxCompareNum
  <2>2. CASE Retry(s) \/ GiveUp(s)
    BY <1>3, <2>2
  <2>3. CASE IsEof(s) /\ Finish(s, "ok")
    <3>1. Handed(s, tx[s].msg) \/ "nomem" \in Faults
      BY <2>1, <2>3 DEF Received
    <3> QED BY <2>3, <3>1
  <2>4. CASE /\ tx' = [tx EXCEPT ![s] = [msg |-> @.msg, frag |-> @.frag + 1,
                                         num |-> NextNum(@.num), tries |-> 0]]
             /\ txpc' = [txpc EXCEPT ![s] = "send"] /\ UNCHANGED outcome
    BY <1>1, <2>4 DEF Active
  <2> QED BY <1>10, <2>2, <2>3, <2>4 DEF TxCompareNum, Advance
<1> QED BY <1>6, <1>7, <1>8, <1>9, <1>10 DEF TxAnswered

LEMMA StatusOther ==
    ASSUME TypeOK, NEW s, OneWayFrom(s), StatusInv(s), OtherStep(s)
    PROVE  StatusInv(s)' /\ UNCHANGED <<outcome, list_rx>>
<1>1. s \in Boards /\ Peer(s) \in Boards /\ Peer(s) # s /\ DOMAIN tx = Boards /\ DOMAIN txpc = Boards
  BY WayBoards DEF TypeOK, SenderTypeOK
<1>2. UNCHANGED <<outcome, list_rx, submitted, list_tx>>
  BY DEF OtherStep, TxSend, RxAnswerZero, RxAnswerCopy, RxAnswerSignal, RxSof, RxTx, LineLoses,
         RxCorrupt, vars, txVars, rxVars
<1>3. tx'[s].msg = tx[s].msg
  <2>1. CASE TxSend(s)
    BY <1>1, <2>1 DEF TxSend, TypeOK, SenderTypeOK
  <2>2. CASE UNCHANGED tx
    BY <2>2
  <2> QED BY <2>1, <2>2 DEF OtherStep, RxAnswerZero, RxAnswerCopy, RxAnswerSignal, RxSof, RxTx, LineLoses,
         RxCorrupt, vars, txVars
<1>4. (Active(s)' <=> Active(s)) /\ (txpc'[s] = "clear" => txpc[s] = "clear")
  <2>1. CASE TxSend(s)
    BY <1>1, <2>1 DEF TxSend, Active
  <2>2. CASE RxAnswerSignal(s) \/ RxAnswerSignal(Peer(s))
    BY <1>1, <2>2 DEF RxAnswerSignal, Active
  <2>3. CASE UNCHANGED txpc
    BY <2>3 DEF Active
  <2> QED BY <2>1, <2>2, <2>3 DEF OtherStep, RxAnswerZero, RxAnswerCopy, RxSof, RxTx, LineLoses,
         RxCorrupt, vars, txVars
<1>5. \A m : Handed(s, m) => Handed(s, m)'
  BY <1>2 DEF Handed, Taken
<1>6. /\ outcome'[s] = outcome[s] /\ submitted'[s] = submitted[s] /\ list_tx'[s] = list_tx[s]
  BY <1>2
<1> QED BY <1>2, <1>3, <1>4, <1>5, <1>6, StatusKept

LEMMA StatusRxEof ==
    ASSUME TypeOK, NEW s, OneWayFrom(s), StatusInv(s), RxEof(Peer(s))
    PROVE  StatusInv(s)'
<1>1. /\ UNCHANGED txVars
      /\ UNCHANGED list_rx \/ list_rx' = [list_rx EXCEPT ![Peer(s)] = Append(@, Item(s).data)]
  BY DEF RxEof, HandOver, Item
<1>2. s \in Boards /\ Item(s).data \in Seq(Fragments)
  BY WayBoards, FragmentTypes
<1>3. \A m : Handed(s, m) => Handed(s, m)'
  BY <1>1, <1>2, HandedGrows
<1> QED BY <1>1, <1>3, StatusKept DEF txVars, Active

LEMMA StatusStep ==
    ASSUME NEW s, OneWayFrom(s)
    PROVE  TypeOK /\ OrderInv /\ WayInv(s) /\ StatusInv(s) /\ [Next]_vars => StatusInv(s)'
<1> SUFFICES ASSUME TypeOK, OrderInv, WayInv(s), StatusInv(s), [Next]_vars PROVE StatusInv(s)'
  OBVIOUS
<1>1. s \in Boards /\ QueueOrder(s)
  BY WayBoards DEF OrderInv, Order, SendOrder
<1>2. CASE TxTimeout(s) \/ TxAnswered(s)
  <2>1. Active(s) /\ UNCHANGED <<submitted, list_tx, list_rx>>
    BY <1>2, WayReturns
  <2>2. CASE UNCHANGED outcome /\ tx'[s].msg = tx[s].msg /\ Active(s)'
    <3>1. \A m : Handed(s, m) => Handed(s, m)'
      BY <2>1 DEF Handed, Taken
    <3>2. txpc'[s] # "clear"
      BY <2>2 DEF Active
    <3> QED BY <2>1, <2>2, <3>1, <3>2, StatusKept
  <2>3. CASE \E status \in {"ok", "failed", "cancelled"} :
                 /\ Finish(s, status)
                 /\ status = "ok" => Handed(s, tx[s].msg) \/ "nomem" \in Faults
    BY <1>1, <2>1, <2>3, StatusFinish
  <2> QED BY <1>2, <2>2, <2>3, WayReturns
<1> QED BY <1>1, <1>2, WaySteps, StatusLinkSend, StatusTxFetch, StatusTxClear, StatusRxEof, StatusOther

LEMMA StatusInit == ASSUME NEW s, OneWayFrom(s), Init PROVE StatusInv(s)
<1>1. /\ s \in Boards /\ submitted[s] = 0 /\ list_tx[s] = <<>> /\ txpc[s] = "idle"
      /\ \A m \in Messages(s) : outcome[s][m] = "new" /\ 0 < m
  BY WayBoards DEF Init, Messages
<1>2. \A m : ~\E i \in DOMAIN list_tx[s] : list_tx[s][i] = m
  BY <1>1
<1> QED BY <1>1, <1>2 DEF StatusInv, Status, Active

\* OkMeansDelivered for every number and size of messages and every retry limit: when
\* the traffic goes one way, the timeout fires only with nothing under way and
\* allocations succeed, tx_data_info returns 0 only for a message that the peer has
\* put into its list_rx, whatever the line loses or damages.
THEOREM OkIsDelivered ==
    ASSUME NEW s, OneWayFrom(s), "nomem" \notin Faults
    PROVE  Spec => []OkMeansDelivered
<1>1. "header" \notin Faults
  BY WayFaults
<1>2. Init => TypeOK /\ OrderInv /\ WayInv(s) /\ StatusInv(s)
  BY TypeInit, OrderInit, WayInit, StatusInit
<1>3. TypeOK /\ OrderInv /\ WayInv(s) /\ StatusInv(s) /\ [Next]_vars
         => TypeOK' /\ OrderInv' /\ WayInv(s)' /\ StatusInv(s)'
  BY <1>1, TypeStep, OrderStep, WayStep, StatusStep
<1>4. TypeOK /\ StatusInv(s) => OkMeansDelivered
  <2> SUFFICES ASSUME TypeOK, StatusInv(s) PROVE OkMeansDelivered
    OBVIOUS
  <2>1. Boards = {s, Peer(s)} /\ Messages(Peer(s)) = {}
    BY WayBoards, SilentPeer
  <2>2. \A m \in Messages(s) : outcome[s][m] = "ok" => Handed(s, m)
    BY DEF StatusInv, Status
  <2> QED BY <2>1, <2>2 DEF OkMeansDelivered, Handed, Taken
<1> QED BY <1>2, <1>3, <1>4, PTL DEF Spec

-----------------------------------------------------------------------------
(***************************************************************************)
(* The link layer implements MessageService.                               *)
(***************************************************************************)

Delivered == [b \in Boards |-> list_rx[Peer(b)]]
ServiceStep == [Service!Next]_<<outcome, Delivered>>

\* Different messages are different, however alike their sizes.
LEMMA WholeDiffer ==
    ASSUME NEW s \in Boards, NEW m \in Messages(s), NEW n \in Messages(s),
           WholeMessage(s, m) = WholeMessage(s, n)
    PROVE  m = n
<1>1. Size[s] \in Seq(Nat \ {0}) /\ m \in DOMAIN Size[s] /\ n \in DOMAIN Size[s]
  BY SizeAssumption DEF Messages
<1>2. 1 \in 1 .. Size[s][m] /\ 1 \in 1 .. Size[s][n]
  BY <1>1
<1>3. WholeMessage(s, m)[1] = <<m, 1>> /\ WholeMessage(s, n)[1] = <<n, 1>>
  BY <1>2 DEF WholeMessage
<1> QED BY <1>3

\* The two specifications speak of the same messages and queues.
LEMMA ServiceTerms ==
    ASSUME NEW s \in Boards
    PROVE  /\ Service!Messages(s) = Messages(s)
           /\ \A m : Service!Whole(s, m) = WholeMessage(s, m)
           /\ \A m : Service!IsDelivered(s, m) <=> Handed(s, m)
           /\ \A m : Service!Sending(s, m) <=> outcome[s][m] = "sending"
<1>1. Service!Messages(s) = Messages(s)
  BY DEF Service!Messages, Messages
<1>2. \A m : Service!Whole(s, m) = WholeMessage(s, m)
  BY DEF Service!Whole, WholeMessage
<1>3. Delivered[s] = Taken(s)
  BY DEF Delivered, Taken
<1>4. \A m : Service!IsDelivered(s, m) <=> Handed(s, m)
  BY <1>2, <1>3 DEF Service!IsDelivered, Handed, Delivered
<1> QED BY <1>1, <1>2, <1>4 DEF Service!Sending

LEMMA ServiceInit == Init => Service!Init
BY PeerFacts DEF Init, Service!Init, Messages, Service!Messages

\* A step of the service on a message of s.
LEMMA ServiceActs ==
    ASSUME NEW s \in Boards, NEW m \in Messages(s),
           \/ Service!Submit(s, m) \/ Service!Start(s, m) \/ Service!Deliver(s, m)
           \/ Service!Report(s, m)
    PROVE  ServiceStep
BY ServiceTerms DEF ServiceStep, Service!Next

LEMMA ServiceSubmit ==
    ASSUME TypeOK, NEW s \in Boards, StatusInv(s), LinkSend(s) PROVE ServiceStep
<1>1. PICK n : n = submitted[s] + 1
  OBVIOUS
<1>2. n \in Messages(s) /\ outcome[s][n] = "new" /\ submitted[s] \in Nat /\ Messages(s) \subseteq Nat
  BY <1>1, StatusLinkSend DEF TypeOK, QueueTypeOK, Messages
<1>3. \A k \in 1 .. n - 1 : outcome[s][k] # "new"
  <2>1. \A k \in 1 .. n - 1 : k \in Messages(s) /\ ~(submitted[s] < k)
    BY <1>1, <1>2 DEF Messages
  <2> QED BY <2>1 DEF StatusInv, Status
<1>4. outcome' = [outcome EXCEPT ![s][n] = "queued"] /\ list_rx' = list_rx
  BY <1>1 DEF LinkSend, rxVars
<1>5. Service!Submit(s, n)
  BY <1>2, <1>3, <1>4 DEF Service!Submit
<1> QED BY <1>2, <1>5, ServiceActs

LEMMA ServiceStart ==
    ASSUME TypeOK, NEW s \in Boards, StatusInv(s), QueueOrder(s), TxFetch(s) PROVE ServiceStep
<1>1. PICK n : n = Head(list_tx[s])
  OBVIOUS
<1>2. /\ n \in Messages(s) /\ outcome[s][n] = "queued" /\ Messages(s) \subseteq Nat
      /\ \A m \in Messages(s) : outcome[s][m] # "sending"
      /\ \A m \in Messages(s) : outcome[s][m] = "queued" => n <= m
  BY <1>1, StatusTxFetch DEF Messages
<1>3. \A k \in 1 .. n - 1 : outcome[s][k] # "queued"
  <2>1. \A k \in 1 .. n - 1 : k \in Messages(s) /\ ~(n <= k)
    BY <1>2 DEF Messages
  <2> QED BY <1>2, <2>1
<1>4. outcome' = [outcome EXCEPT ![s][n] = "sending"] /\ list_rx' = list_rx
  BY <1>1 DEF TxFetch, rxVars
<1>5. \A k \in Service!Messages(s) : ~Service!Sending(s, k)
  BY <1>2, ServiceTerms
<1>6. Service!Start(s, n)
  BY <1>2, <1>3, <1>4, <1>5 DEF Service!Start
<1> QED BY <1>2, <1>6, ServiceActs

LEMMA ServiceDeliver ==
    ASSUME TypeOK, NEW s, OneWayFrom(s), OrderInv, WayInv(s), StatusInv(s), RxEof(Peer(s))
    PROVE  ServiceStep
<1>1. /\ s \in Boards /\ Peer(s) \in Boards /\ Peer(s) # s /\ Boards = {s, Peer(s)}
      /\ Peer(Peer(s)) = s /\ DOMAIN list_rx = Boards
  BY WayBoards DEF TypeOK, ItemTypeOK
<1>2. Reading(Peer(s), {"eof"}) /\ outcome' = outcome
  BY DEF RxEof, txVars
<1>3. CASE UNCHANGED list_rx
  BY <1>2, <1>3 DEF ServiceStep, Delivered
<1>4. CASE DataItemList[Peer(s)].open /\ HandOver(Peer(s))
  <2>1. PICK n : n = tx[s].msg
    OBVIOUS
  <2>2. /\ Item(s).data = WholeMessage(s, n) /\ n \in Messages(s) /\ Active(s)
        /\ \A i \in DOMAIN Taken(s) : \E m \in Messages(s) :
               Taken(s)[i] = WholeMessage(s, m) /\ m < n
    BY <1>2, <1>4, <2>1, WayHandsOver, WayArrives DEF Item, Reading
  <2>3. ~Handed(s, n)
    <3> SUFFICES ASSUME NEW i \in DOMAIN Taken(s), Taken(s)[i] = WholeMessage(s, n) PROVE FALSE
      BY DEF Handed
    <3>1. PICK m \in Messages(s) : Taken(s)[i] = WholeMessage(s, m) /\ m < n
      BY <2>2
    <3>2. m = n
      BY <1>1, <2>2, <3>1, WholeDiffer
    <3> QED BY <3>1, <3>2 DEF Messages
  <2>4. outcome[s][n] = "sending"
    BY <2>1, <2>2 DEF StatusInv, Status
  <2>5. list_rx' = [list_rx EXCEPT ![Peer(s)] = Append(@, WholeMessage(s, n))]
    BY <1>4, <2>2 DEF HandOver, Item
  <2>6. Delivered' = [Delivered EXCEPT ![s] = Append(@, WholeMessage(s, n))]
    <3>1. Delivered'[s] = Append(Delivered[s], WholeMessage(s, n))
      BY <1>1, <2>5 DEF Delivered
    <3>2. Delivered'[Peer(s)] = Delivered[Peer(s)]
      BY <1>1, <2>5 DEF Delivered
    <3> QED BY <1>1, <3>1, <3>2 DEF Delivered
  <2>7. Service!Deliver(s, n)
    BY <1>1, <1>2, <2>3, <2>4, <2>6, ServiceTerms DEF Service!Deliver, Delivered
  <2> QED BY <1>1, <2>2, <2>7, ServiceActs
<1> QED BY <1>3, <1>4 DEF RxEof

LEMMA ServiceReport ==
    ASSUME TypeOK, NEW s \in Boards, StatusInv(s), Active(s), NEW status, Finish(s, status),
           UNCHANGED list_rx,
           status = "failed" \/ (status = "ok" /\ Handed(s, tx[s].msg))
    PROVE  ServiceStep
<1>1. PICK n : n = tx[s].msg
  OBVIOUS
<1>2. n \in Messages(s)
  BY <1>1 DEF Active, TypeOK, SenderTypeOK
<1>3. outcome[s][n] = "sending" /\ outcome' = [outcome EXCEPT ![s][n] = status]
  BY <1>1, <1>2 DEF StatusInv, Status, Finish
<1>4. Service!Report(s, n)
  BY <1>1, <1>3, ServiceTerms DEF Service!Report
<1> QED BY <1>2, <1>4, ServiceActs

LEMMA ServiceDrop ==
    ASSUME TypeOK, NEW s \in Boards, StatusInv(s), TxClear(s) PROVE ServiceStep
<1>1. /\ tx[s].msg \in Messages(s) /\ outcome[s][tx[s].msg] = "failed"
      /\ \A m \in Messages(s) : outcome[s][m] # "sending"
  BY StatusTxClear
<1>2. /\ outcome' = [outcome EXCEPT ![s] =
             [m \in Messages(s) |-> IF @[m] = "queued" THEN "cleared" ELSE @[m]]]
      /\ list_rx' = list_rx
  BY DEF TxClear, rxVars
<1>3. Service!Drop(s)
  BY <1>1, <1>2, ServiceTerms DEF Service!Drop
<1> QED BY <1>3 DEF ServiceStep, Service!Next

\* One-way traffic with timely answers implements MessageService, for every number and
\* size of messages and every retry limit: link_send is Submit, the fetch of thread_tx
\* is Start, the hand-over of deal_with_eof_packet is Deliver, the return of
\* tx_data_info is Report, the clearing of the queue is Drop, and every other step of
\* the two threads or the line goes unnoticed.
THEOREM ServiceImplemented ==
    ASSUME NEW s, OneWayFrom(s), "nomem" \notin Faults
    PROVE  Spec => ImplementsService
<1>1. "header" \notin Faults /\ s \in Boards
  BY WayFaults, WayBoards
<1>2. Init => TypeOK /\ OrderInv /\ WayInv(s) /\ StatusInv(s)
  BY TypeInit, OrderInit, WayInit, StatusInit
<1>3. TypeOK /\ OrderInv /\ WayInv(s) /\ StatusInv(s) /\ [Next]_vars
         => TypeOK' /\ OrderInv' /\ WayInv(s)' /\ StatusInv(s)'
  BY <1>1, TypeStep, OrderStep, WayStep, StatusStep
<1>4. TypeOK /\ OrderInv /\ WayInv(s) /\ StatusInv(s) /\ [Next]_vars
         => [Service!Next]_<<outcome, Delivered>>
  <2> SUFFICES ASSUME TypeOK, OrderInv, WayInv(s), StatusInv(s), [Next]_vars PROVE ServiceStep
    BY DEF ServiceStep
  <2>1. QueueOrder(s)
    BY <1>1 DEF OrderInv, Order, SendOrder
  <2>2. CASE TxTimeout(s) \/ TxAnswered(s)
    <3>1. Active(s) /\ UNCHANGED list_rx
      BY <2>2, WayReturns
    <3>2. CASE UNCHANGED outcome
      BY <3>1, <3>2 DEF ServiceStep, Delivered
    <3>3. CASE \E status \in {"ok", "failed", "cancelled"} :
                   /\ Finish(s, status)
                   /\ status = "ok" => Handed(s, tx[s].msg) \/ "nomem" \in Faults
                   /\ status = "cancelled" => "nomem" \in Faults
      BY <1>1, <3>1, <3>3, ServiceReport
    <3> QED BY <2>2, <3>2, <3>3, WayReturns
  <2>3. CASE OtherStep(s)
    <3>1. UNCHANGED <<outcome, list_rx>>
      BY <2>3, StatusOther
    <3> QED BY <3>1 DEF ServiceStep, Delivered
  <2> QED BY <1>1, <2>1, <2>2, <2>3, WaySteps, ServiceSubmit, ServiceStart, ServiceDeliver, ServiceDrop
<1> QED BY <1>2, <1>3, <1>4, ServiceInit, PTL DEF Spec, ImplementsService, Service!Spec, Delivered

=============================================================================
