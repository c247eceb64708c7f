----------------------------- MODULE LinkQueues -----------------------------
(***************************************************************************)
(* The queues of link/link_proto.c and the threads that share them on one  *)
(* board: application threads calling link_send and link_clear_all_list,   *)
(* thread_tx that empties list_tx, thread_rx that fills list_rx, and the   *)
(* event loop wait_and_handle_events that waits in link_listen and fetches *)
(* with link_recv.                                                         *)
(*                                                                         *)
(* mutex_tx_list and mutex_listen are only held over a few assignments, so *)
(* a section under them is one step.  mutex_rx_list is held while          *)
(* mutex_listen is taken and has an owner here.  The transfer of one       *)
(* message (tx_data_info) is reduced to its return value, see LinkTransfer.*)
(***************************************************************************)
EXTENDS Integers, Sequences, FiniteSets

CONSTANTS
    MAX_EXTBOARD,  \* entries of list_tx and dev_cnt_r (10)
    CntRange,      \* values of an unsigned char, dev_cnt_r's type (256)
    MaxSends,      \* bound on the calls of link_send
    MaxArrivals    \* bound on the messages received

ASSUME QueueAssumptions ==
    /\ MAX_EXTBOARD \in Nat \ {0, 1}
    /\ CntRange \in Nat \ {0}
    /\ MaxSends \in Nat /\ MaxArrivals \in Nat

Devs == 0 .. MAX_EXTBOARD - 1
AppDevs == 1 .. MAX_EXTBOARD        \* the event loop's for loop
None == "none"

\* Definitions whose names begin with Wrong are plausible mistakes; no action
\* uses them.  They serve to show that the properties would notice them.
WrongAccepted == Devs \ {0}

\* The devices whose packets get past get_data_head.
Accepted == {1}

VARIABLES
    list_tx,      \* list_tx[d]: the calls of link_send waiting for device d
    tx_alive,     \* link_send's wake-up for thread_tx
    sends,        \* calls of link_send so far
    handled,      \* messages thread_tx has taken for tx_data_info
    txpc, idx,    \* thread_tx
    clearing,     \* link_clear_all_list: the next list to clear
    list_rx,      \* the received messages, [dev, id]
    mutex_rx_list,
    dev_cnt_r, mark_r, mark_w, mark_e, in_listen,  \* under mutex_listen
    arrivals, rxdev,                               \* thread_rx
    apppc, rset, dev, seen                         \* wait_and_handle_events

sendVars == <<list_tx, tx_alive, sends, handled, txpc, idx, clearing>>
markVars == <<dev_cnt_r, mark_r, mark_w, mark_e, in_listen>>
rxVars   == <<list_rx, mutex_rx_list, arrivals, rxdev>>
appVars  == <<apppc, rset, dev, seen>>
vars     == <<sendVars, markVars, rxVars, appVars>>

Init ==
    /\ list_tx = [d \in Devs |-> <<>>]
    /\ tx_alive = FALSE
    /\ sends = 0
    /\ handled = {}
    /\ txpc = "scan" /\ idx = 0
    /\ clearing = MAX_EXTBOARD
    /\ list_rx = <<>>
    /\ mutex_rx_list = None
    /\ dev_cnt_r = [d \in Devs |-> 0]
    /\ mark_r = {} /\ mark_w = {} /\ mark_e = {}
    /\ in_listen = FALSE
    /\ arrivals = 0 /\ rxdev = 0
    /\ apppc = "listen" /\ rset = {} /\ dev = 1 /\ seen = <<>>

-----------------------------------------------------------------------------
(***************************************************************************)
(* link_send and link_clear_all_list.                                      *)
(***************************************************************************)

\* in_listen = 0: whoever sets a mark ends the wait of link_listen.
WrongStopListening == in_listen

StopListening == FALSE

LinkSend(d) ==
    /\ sends < MaxSends
    /\ sends' = sends + 1
    /\ list_tx' = [list_tx EXCEPT ![d] = Append(@, sends + 1)]
    /\ tx_alive' = TRUE
    /\ UNCHANGED <<handled, txpc, idx, clearing, markVars, rxVars, appVars>>

ClearAllStart ==
    /\ clearing = MAX_EXTBOARD
    /\ clearing' = 0
    /\ UNCHANGED <<list_tx, tx_alive, sends, handled, txpc, idx, markVars, rxVars, appVars>>

ClearAllNext ==
    /\ clearing < MAX_EXTBOARD
    /\ list_tx' = [list_tx EXCEPT ![clearing] = <<>>]
    /\ clearing' = clearing + 1
    /\ UNCHANGED <<tx_alive, sends, handled, txpc, idx, markVars, rxVars, appVars>>

-----------------------------------------------------------------------------
(***************************************************************************)
(* thread_tx.                                                              *)
(***************************************************************************)

TxFetch ==
    /\ txpc = "scan"
    /\ idx < MAX_EXTBOARD
    /\ list_tx[idx] # <<>>
    /\ handled' = handled \union {Head(list_tx[idx])}
    /\ list_tx' = [list_tx EXCEPT ![idx] = Tail(@)]
    /\ txpc' = "send"
    /\ UNCHANGED <<tx_alive, sends, idx, clearing, markVars, rxVars, appVars>>

TxNextList ==
    /\ txpc = "scan"
    /\ idx < MAX_EXTBOARD
    /\ list_tx[idx] = <<>>
    /\ idx' = idx + 1
    /\ UNCHANGED <<list_tx, tx_alive, sends, handled, txpc, clearing, markVars, rxVars, appVars>>

\* tx_data_info returns 0, -1 or -2.
TxReturns(ret) ==
    /\ txpc = "send"
    /\ txpc' = CASE ret = 0 -> "scan" [] ret = -1 -> "clear" [] ret = -2 -> "cancelled"
    /\ UNCHANGED <<list_tx, tx_alive, sends, handled, idx, clearing, markVars, rxVars, appVars>>

TxClear ==
    /\ txpc = "clear"
    /\ list_tx' = [list_tx EXCEPT ![idx] = <<>>]
    /\ txpc' = "mark"
    /\ UNCHANGED <<tx_alive, sends, handled, idx, clearing, markVars, rxVars, appVars>>

TxMarkError ==
    /\ txpc = "mark"
    /\ mark_e' = mark_e \union {idx}
    /\ mark_w' = mark_w \union {idx}
    /\ in_listen' = StopListening
    /\ txpc' = "scan"
    /\ UNCHANGED <<list_tx, tx_alive, sends, handled, idx, clearing, dev_cnt_r, mark_r,
                   rxVars, appVars>>

\* ttyS0 is -1 on both boards, so the device is always marked.
TxCancelled ==
    /\ txpc = "cancelled"
    /\ mark_w' = mark_w \union {idx}
    /\ in_listen' = StopListening
    /\ txpc' = "scan"
    /\ UNCHANGED <<list_tx, tx_alive, sends, handled, idx, clearing, dev_cnt_r, mark_r, mark_e,
                   rxVars, appVars>>

\* Past the last list: sleep if all are empty, all under one mutex_tx_list.
WrongAllEmpty == list_tx[MAX_EXTBOARD - 1] = <<>>

AllEmpty == \A d \in Devs : list_tx[d] = <<>>

TxFallAsleep ==
    /\ txpc = "scan"
    /\ idx = MAX_EXTBOARD
    /\ IF AllEmpty
       THEN txpc' = "asleep" /\ tx_alive' = FALSE /\ UNCHANGED idx
       ELSE idx' = 0 /\ UNCHANGED <<txpc, tx_alive>>
    /\ UNCHANGED <<list_tx, sends, handled, clearing, markVars, rxVars, appVars>>

TxWakeUp ==
    /\ txpc = "asleep"
    /\ tx_alive
    /\ txpc' = "scan"
    /\ idx' = 0
    /\ UNCHANGED <<list_tx, tx_alive, sends, handled, clearing, markVars, rxVars, appVars>>

-----------------------------------------------------------------------------
(***************************************************************************)
(* thread_rx: the end of deal_with_eof_packet.                             *)
(***************************************************************************)

RxAppend(d) ==
    /\ arrivals < MaxArrivals
    /\ rxdev = 0
    /\ mutex_rx_list = None
    /\ mutex_rx_list' = "rx"
    /\ arrivals' = arrivals + 1
    /\ list_rx' = Append(list_rx, [dev |-> d, id |-> arrivals + 1])
    /\ rxdev' = d
    /\ UNCHANGED <<sendVars, markVars, appVars>>

RxMark ==
    /\ rxdev # 0
    /\ dev_cnt_r' = [dev_cnt_r EXCEPT ![rxdev] = (@ + 1) % CntRange]
    /\ mark_r' = mark_r \union {rxdev}
    /\ in_listen' = StopListening
    /\ mutex_rx_list' = None
    /\ rxdev' = 0
    /\ UNCHANGED <<sendVars, mark_w, mark_e, list_rx, arrivals, appVars>>

-----------------------------------------------------------------------------
(***************************************************************************)
(* wait_and_handle_events: link_listen(NULL, &rset, NULL) and link_recv.   *)
(***************************************************************************)

StartDrain ==
    /\ rset' = mark_r
    /\ dev' = 1
    /\ apppc' = "next"

\* The first pass of link_listen.
ListenFirst ==
    /\ apppc = "listen"
    /\ \/ mark_r # {} /\ StartDrain /\ UNCHANGED in_listen
       \/ mark_r = {} /\ in_listen' = TRUE /\ apppc' = "poll" /\ UNCHANGED <<rset, dev>>
    /\ UNCHANGED <<sendVars, dev_cnt_r, mark_r, mark_w, mark_e, rxVars, seen>>

\* Someone reset in_listen: the second and last pass, under the same lock.
ListenAgain ==
    /\ apppc = "poll"
    /\ ~in_listen
    /\ \/ mark_r # {} /\ StartDrain
       \/ mark_r = {} /\ apppc' = "listen" /\ UNCHANGED <<rset, dev>>
    /\ UNCHANGED <<sendVars, markVars, rxVars, seen>>

\* The for loop over the device ids.
SkipDev ==
    /\ apppc = "next"
    /\ dev \in AppDevs \ rset
    /\ dev' = dev + 1
    /\ UNCHANGED <<sendVars, markVars, rxVars, apppc, rset, seen>>

DrainDone ==
    /\ apppc = "next"
    /\ dev \notin AppDevs
    /\ apppc' = "listen"
    /\ UNCHANGED <<sendVars, markVars, rxVars, rset, dev, seen>>

\* link_recv's look at list_rx.header, without the mutex.
RecvLook ==
    /\ apppc = "next"
    /\ dev \in AppDevs \intersect rset
    /\ \/ list_rx = <<>> /\ dev' = dev + 1 /\ UNCHANGED apppc
       \/ list_rx # <<>> /\ apppc' = "lock" /\ UNCHANGED dev
    /\ UNCHANGED <<sendVars, markVars, rxVars, rset, seen>>

RecvLock ==
    /\ apppc = "lock"
    /\ mutex_rx_list = None
    /\ mutex_rx_list' = "app"
    /\ apppc' = "search"
    /\ UNCHANGED <<sendVars, markVars, list_rx, arrivals, rxdev, rset, dev, seen>>

Matching == {i \in DOMAIN list_rx : list_rx[i].dev = dev}
WrongFirst(S) == CHOOSE i \in S : \A j \in S : i >= j

First(S) == CHOOSE i \in S : \A j \in S : i <= j

Without(s, i) == SubSeq(s, 1, i - 1) \o SubSeq(s, i + 1, Len(s))

\* --dev_cnt_r[dev_id] on an unsigned char, and the bit goes when it is 0.
WrongCountDown(d) == dev_cnt_r[d] - 1

CountDown(d) == (dev_cnt_r[d] + CntRange - 1) % CntRange

WrongClearMark == IF dev_cnt_r[dev] = 0 THEN mark_r \ {dev} ELSE mark_r

ClearMark == IF CountDown(dev) = 0 THEN mark_r \ {dev} ELSE mark_r

\* The while loop around link_recv stays with the device.
WrongAfterRecv == dev + 1

AfterRecv == dev

\* The search and what follows it, all under mutex_rx_list.  When it fails,
\* link_recv returns -1 and keeps the mutex.  (Taking the last of several items
\* would leave list_rx.tail behind; with one device the item is the first.)
RecvSearch ==
    /\ apppc = "search"
    /\ IF Matching = {}
       THEN /\ dev' = dev + 1
            /\ UNCHANGED <<dev_cnt_r, mark_r, list_rx, mutex_rx_list, seen>>
       ELSE /\ dev_cnt_r' = [dev_cnt_r EXCEPT ![dev] = CountDown(dev)]
            /\ mark_r' = ClearMark
            /\ list_rx' = Without(list_rx, First(Matching))
            /\ seen' = Append(seen, list_rx[First(Matching)].id)
            /\ mutex_rx_list' = None
            /\ dev' = AfterRecv
    /\ apppc' = "next"
    /\ UNCHANGED <<sendVars, mark_w, mark_e, in_listen, arrivals, rxdev, rset>>

TxStep == TxFetch \/ TxNextList \/ TxClear \/ TxMarkError \/ TxCancelled \/ TxFallAsleep
            \/ TxWakeUp \/ \E ret \in {0, -1, -2} : TxReturns(ret)
AppStep == ListenFirst \/ ListenAgain \/ SkipDev \/ DrainDone \/ RecvLook \/ RecvLock
            \/ RecvSearch

\* Nobody sends and nothing arrives any more; both loops poll for ever.
Quiescent ==
    /\ sends = MaxSends /\ arrivals = MaxArrivals /\ rxdev = 0
    /\ txpc = "asleep" /\ ~tx_alive
    /\ apppc = "poll" /\ in_listen
    /\ UNCHANGED vars

Next == \/ \E d \in Devs : LinkSend(d)
        \/ ClearAllStart \/ ClearAllNext
        \/ TxStep
        \/ \E d \in Accepted : RxAppend(d)
        \/ RxMark
        \/ AppStep
        \/ Quiescent

Spec == Init /\ [][Next]_vars

\* All four threads are scheduled; nobody has to call link_send or to clear.
FairSpec == Spec /\ WF_vars(TxStep) /\ WF_vars(AppStep) /\ WF_vars(RxMark) /\ WF_vars(ClearAllNext)

-----------------------------------------------------------------------------
(***************************************************************************)
(* Properties.                                                             *)
(***************************************************************************)

SendTypeOK ==
    /\ list_tx \in [Devs -> Seq(1 .. MaxSends)]
    /\ tx_alive \in BOOLEAN
    /\ sends \in 0 .. MaxSends
    /\ handled \subseteq 1 .. MaxSends
    /\ txpc \in {"scan", "send", "clear", "mark", "cancelled", "asleep"}
    /\ idx \in 0 .. MAX_EXTBOARD
    /\ txpc \in {"send", "clear", "mark", "cancelled"} => idx \in Devs
    /\ clearing \in 0 .. MAX_EXTBOARD

RecvTypeOK ==
    /\ list_rx \in Seq([dev : Accepted, id : 1 .. MaxArrivals])
    /\ mutex_rx_list \in {None, "rx", "app"}
    /\ arrivals \in 0 .. MaxArrivals
    /\ rxdev \in Accepted \union {0}

MarkTypeOK ==
    /\ dev_cnt_r \in [Devs -> 0 .. CntRange - 1]
    /\ mark_r \subseteq Accepted
    /\ mark_w \subseteq Devs /\ mark_e \subseteq mark_w
    /\ in_listen \in BOOLEAN

AppTypeOK ==
    /\ apppc \in {"listen", "poll", "next", "lock", "search"}
    /\ rset \subseteq Accepted
    /\ dev \in 1 .. MAX_EXTBOARD + 1
    /\ apppc \in {"lock", "search"} => dev \in rset
    /\ seen \in Seq(1 .. MaxArrivals)

TypeOK == SendTypeOK /\ RecvTypeOK /\ MarkTypeOK /\ AppTypeOK

\* thread_tx polls in its sleep loop only while there is nothing to send or its
\* wake-up is already set: no link_send falls between the scan of the lists and
\* the reset of tx_alive.
SleepsOnlyWhenEmpty == txpc = "asleep" /\ ~tx_alive => \A d \in Devs : list_tx[d] = <<>>

\* mutex_rx_list is never left locked by the event loop: outside link_recv it
\* does not own it, although a search without a match returns with it.
MutexReleased ==
    (mutex_rx_list = "app" <=> apppc = "search") /\ (mutex_rx_list = "rx" <=> rxdev # 0)

\* link_listen polls for in_listen only while list_rx is empty, or thread_rx is
\* about to set the mark for what it appended.
NoneStranded ==
    apppc = "poll" /\ in_listen => list_rx = <<>> \/ rxdev # 0

\* dev_cnt_r counts the items of a device in list_rx modulo its range, and the
\* device's bit in mark_r is gone when there are none, or the event loop would
\* spin; the bit may be gone too early when the count wraps, which does no harm
\* as the loop calls link_recv until list_rx is empty.
CountsMatch ==
    mutex_rx_list # "rx" => \A d \in Accepted :
        LET waiting == Cardinality({i \in DOMAIN list_rx : list_rx[i].dev = d}) IN
        /\ dev_cnt_r[d] = waiting % CntRange
        /\ waiting = 0 => d \notin mark_r

\* Back in link_listen, everything in list_rx has its mark, wrapped count or not.
WaitingIsMarked ==
    apppc \in {"listen", "poll"} /\ rxdev = 0 =>
        \A i \in DOMAIN list_rx : list_rx[i].dev \in mark_r

\* The application handles the messages in the order thread_rx received them,
\* each one once.
SeenInOrder ==
    seen \o [i \in DOMAIN list_rx |-> list_rx[i].id] = [i \in 1 .. arrivals |-> i]

\* Every message thread_rx appends to list_rx is eventually handled.
EveryArrivalSeen ==
    \A i \in 1 .. MaxArrivals : (arrivals >= i) ~> (\E k \in DOMAIN seen : seen[k] = i)

Queued(m) == \E d \in Devs : \E k \in DOMAIN list_tx[d] : list_tx[d][k] = m

\* Every message in list_tx is eventually taken up by thread_tx or cleared; the
\* polling of tx_alive misses none.
EveryQueuedLeaves == \A m \in 1 .. MaxSends : Queued(m) ~> ~Queued(m)
=============================================================================
