-------------------------- MODULE LinkQueuesProofs --------------------------
(***************************************************************************)
(* Theorems about LinkQueues, for any number of devices, messages and any  *)
(* range of the counters.  The sending half (list_tx, tx_alive, thread_tx) *)
(* and the receiving half (list_rx, the marks, the event loop) have an     *)
(* inductive invariant each; the second needs two parts that are not among *)
(* the properties: what the event loop knows while it empties list_rx, and *)
(* where each message is.  The counters of the devices, which may wrap, are *)
(* a third invariant on top of the second.                                 *)
(***************************************************************************)
EXTENDS LinkQueues, FiniteSetTheorems, TLAPS

\* While it drains, the event loop is after device 1; link_recv has not looked
\* in vain; and once device 1 is done, what came since then is marked.
Draining ==
    /\ apppc \in {"next", "lock", "search"} => rset = {1}
    /\ apppc \in {"lock", "search"} => dev = 1 /\ list_rx # <<>>
    /\ apppc = "next" /\ dev > 1 /\ rxdev = 0 /\ list_rx # <<>> => 1 \in mark_r

\* The messages 1, 2, ... are first in seen and then in list_rx.
Ordered ==
    /\ Len(seen) + Len(list_rx) = arrivals
    /\ \A k \in DOMAIN seen : seen[k] = k
    /\ \A k \in DOMAIN list_rx : list_rx[k].id = Len(seen) + k

SendInv == SendTypeOK /\ SleepsOnlyWhenEmpty

RecvInv == /\ RecvTypeOK /\ MarkTypeOK /\ AppTypeOK
           /\ MutexReleased /\ NoneStranded /\ WaitingIsMarked
           /\ Draining /\ Ordered

\* dev_cnt_r follows the length of list_rx, one behind it between the append and
\* the mark of thread_rx; with list_rx empty device 1 has no mark.
CountInv ==
    /\ rxdev = 0 => /\ dev_cnt_r[1] = Len(list_rx) % CntRange
                    /\ Len(list_rx) = 0 => 1 \notin mark_r
    /\ rxdev # 0 => Len(list_rx) >= 1 /\ dev_cnt_r[1] = (Len(list_rx) - 1) % CntRange

-----------------------------------------------------------------------------
\* The sending half starts with empty lists and a thread that is awake.
LEMMA SendInit == Init => SendInv
  BY QueueAssumptions DEF Init, SendInv, SendTypeOK, SleepsOnlyWhenEmpty, Devs

\* Every step keeps the sending half's invariant: whoever fills a list sets
\* tx_alive, and thread_tx resets it only after it found every list empty.
LEMMA SendStep == SendInv /\ [Next]_vars => SendInv'
<1> SUFFICES ASSUME SendInv, [Next]_vars PROVE SendInv'
  OBVIOUS
<1> USE QueueAssumptions DEF SendInv, SendTypeOK, SleepsOnlyWhenEmpty, Devs
<1>1. ASSUME NEW d \in Devs, LinkSend(d) PROVE SendInv'
  BY <1>1 DEF LinkSend
<1>2. CASE ClearAllStart
  BY <1>2 DEF ClearAllStart
<1>3. CASE ClearAllNext
  BY <1>3 DEF ClearAllNext
<1>4. CASE TxFetch
  <2>1. idx \in Devs /\ list_tx[idx] \in Seq(1 .. MaxSends) /\ list_tx[idx] # <<>>
    BY <1>4 DEF TxFetch
  <2>2. Head(list_tx[idx]) \in 1 .. MaxSends /\ Tail(list_tx[idx]) \in Seq(1 .. MaxSends)
    BY <2>1
  <2>3. list_tx' \in [Devs -> Seq(1 .. MaxSends)] /\ handled' \subseteq 1 .. MaxSends
    BY <1>4, <2>2 DEF TxFetch
  <2> QED BY <1>4, <2>1, <2>3 DEF TxFetch
<1>5. CASE TxNextList
  BY <1>5 DEF TxNextList
<1>6. ASSUME NEW ret \in {0, -1, -2}, TxReturns(ret) PROVE SendInv'
  BY <1>6 DEF TxReturns
<1>7. CASE TxClear
  BY <1>7 DEF TxClear
<1>8. CASE TxMarkError
  BY <1>8 DEF TxMarkError
<1>9. CASE TxCancelled
  BY <1>9 DEF TxCancelled
<1>10. CASE TxFallAsleep
  <2>1. CASE AllEmpty
    BY <1>10, <2>1 DEF TxFallAsleep, AllEmpty
  <2>2. CASE ~AllEmpty
    BY <1>10, <2>2 DEF TxFallAsleep
  <2> QED BY <2>1, <2>2
<1>11. CASE TxWakeUp
  BY <1>11 DEF TxWakeUp
<1>12. CASE UNCHANGED sendVars
  BY <1>12 DEF sendVars
<1>13. ASSUME NEW d \in Accepted, RxAppend(d) PROVE UNCHANGED sendVars
  BY <1>13 DEF RxAppend
<1>14. CASE RxMark
  BY <1>12, <1>14 DEF RxMark
<1>15. CASE AppStep
  <2>1. UNCHANGED sendVars
    BY <1>15 DEF AppStep, ListenFirst, ListenAgain, SkipDev, DrainDone, RecvLook, RecvLock,
                 RecvSearch
  <2> QED BY <1>12, <2>1
<1>16. CASE Quiescent \/ UNCHANGED vars
  BY <1>12, <1>16 DEF Quiescent, vars
<1> QED
  BY <1>1, <1>2, <1>3, <1>4, <1>5, <1>6, <1>7, <1>8, <1>9, <1>10, <1>11, <1>12, <1>13,
     <1>14, <1>15, <1>16 DEF Next, TxStep

\* link_send's wake-up is never lost: thread_tx sleeps with tx_alive reset only
\* while every list_tx is empty.
THEOREM NoLostWakeUp == Spec => []SleepsOnlyWhenEmpty
  BY SendInit, SendStep, PTL DEF Spec, SendInv

-----------------------------------------------------------------------------
\* Every item in list_rx came from device 1.
LEMMA ItemFacts ==
    ASSUME RecvTypeOK
    PROVE  /\ DOMAIN list_rx = 1 .. Len(list_rx) /\ Len(list_rx) \in Nat
           /\ \A i \in DOMAIN list_rx : list_rx[i].dev = 1 /\ list_rx[i].id \in 1 .. MaxArrivals
<1> DEFINE Items == [dev : Accepted, id : 1 .. MaxArrivals]
<1>1. list_rx \in Seq(Items)
  BY DEF RecvTypeOK
<1>2. \A x \in Items : x.dev = 1 /\ x.id \in 1 .. MaxArrivals
  BY DEF Accepted
<1> HIDE DEF Items
<1>3. /\ DOMAIN list_rx = 1 .. Len(list_rx) /\ Len(list_rx) \in Nat
      /\ \A i \in DOMAIN list_rx : list_rx[i] \in Items
  BY <1>1
<1> QED BY <1>2, <1>3

\* The receiving half starts with nothing received and nothing marked.
LEMMA RecvInit == Init => RecvInv
<1> SUFFICES ASSUME Init PROVE RecvInv
  OBVIOUS
<1> USE QueueAssumptions DEF Init
<1>1. RecvTypeOK
  BY DEF RecvTypeOK, None
<1>2. MarkTypeOK
  BY DEF MarkTypeOK, Devs
<1>3. AppTypeOK
  BY DEF AppTypeOK
<1>4. MutexReleased /\ NoneStranded /\ WaitingIsMarked /\ Draining
  BY DEF MutexReleased, NoneStranded, WaitingIsMarked, Draining, None
<1>5. Ordered
  BY DEF Ordered
<1> QED BY <1>1, <1>2, <1>3, <1>4, <1>5 DEF RecvInv

\* The invariant of the receiving half speaks of these variables only.
LEMMA RecvUnchanged == RecvInv /\ UNCHANGED <<markVars, rxVars, appVars>> => RecvInv'
  BY DEF RecvInv, RecvTypeOK, MarkTypeOK, AppTypeOK, MutexReleased, NoneStranded,
     WaitingIsMarked, Draining, Ordered, markVars, rxVars, appVars

\* thread_tx's marks end the wait of link_listen and touch nothing else.
LEMMA RecvMarks ==
    ASSUME RecvInv, idx \in Devs, TxMarkError \/ TxCancelled PROVE RecvInv'
  BY DEF TxMarkError, TxCancelled, StopListening, RecvInv, RecvTypeOK, MarkTypeOK, AppTypeOK,
     MutexReleased, NoneStranded, WaitingIsMarked, Draining, Ordered, rxVars, appVars

\* thread_rx appends a message: it is the last one, and not marked yet.
LEMMA RecvAppends == ASSUME RecvInv, RxAppend(1) PROVE RecvInv'
<1> USE QueueAssumptions DEF RxAppend, RecvInv
<1> DEFINE item == [dev |-> 1, id |-> arrivals + 1]
<1>1. item \in [dev : Accepted, id : 1 .. MaxArrivals]
  BY DEF RecvTypeOK, Accepted
<1>2. list_rx' \in Seq([dev : Accepted, id : 1 .. MaxArrivals])
  BY <1>1 DEF RecvTypeOK
<1>3. RecvTypeOK'
  BY <1>2 DEF RecvTypeOK, Accepted, None
<1>4. MarkTypeOK' /\ AppTypeOK'
  BY DEF MarkTypeOK, AppTypeOK, markVars, appVars
<1>5. MutexReleased' /\ NoneStranded' /\ WaitingIsMarked'
  BY DEF MutexReleased, NoneStranded, WaitingIsMarked, appVars, markVars, None
<1>6. list_rx' # <<>>
  BY DEF RecvTypeOK
<1>7. Draining'
  BY <1>6 DEF Draining, appVars, markVars
<1>8. Ordered'
  BY <1>1 DEF Ordered, RecvTypeOK, appVars
<1> QED BY <1>3, <1>4, <1>5, <1>7, <1>8

\* thread_rx sets the mark and lets go of the mutex.
LEMMA RecvIsMarked == ASSUME RecvInv, RxMark PROVE RecvInv'
<1> USE QueueAssumptions DEF RxMark, RecvInv
<1>0. rxdev = 1 /\ rxdev \in Devs
  BY DEF RecvTypeOK, Accepted, Devs
<1>1. (dev_cnt_r[rxdev] + 1) % CntRange \in 0 .. CntRange - 1
  BY <1>0 DEF MarkTypeOK
<1>2. MarkTypeOK'
  BY <1>0, <1>1 DEF MarkTypeOK, Accepted, StopListening
<1>3. RecvTypeOK' /\ AppTypeOK'
  BY DEF RecvTypeOK, AppTypeOK, appVars
<1>4. mutex_rx_list = "rx" /\ apppc # "search"
  BY DEF MutexReleased
<1>5. MutexReleased' /\ NoneStranded'
  BY <1>4 DEF MutexReleased, NoneStranded, StopListening, appVars, None
<1>6. \A i \in DOMAIN list_rx : list_rx[i].dev = 1
  BY ItemFacts
<1>7. WaitingIsMarked' /\ Draining'
  BY <1>0, <1>6 DEF WaitingIsMarked, Draining, appVars
<1>8. Ordered'
  BY DEF Ordered, appVars
<1> QED BY <1>2, <1>3, <1>5, <1>7, <1>8

\* link_listen returns with device 1 or starts to poll with list_rx empty.
LEMMA RecvListens == ASSUME RecvInv, ListenFirst \/ ListenAgain PROVE RecvInv'
<1> USE QueueAssumptions DEF RecvInv
<1>1. RecvTypeOK' /\ MarkTypeOK' /\ Ordered'
  BY DEF ListenFirst, ListenAgain, RecvTypeOK, MarkTypeOK, Ordered, rxVars, markVars
<1>2. AppTypeOK'
  BY DEF ListenFirst, ListenAgain, StartDrain, AppTypeOK, MarkTypeOK
<1>3. MutexReleased'
  BY DEF ListenFirst, ListenAgain, StartDrain, MutexReleased, rxVars
<1>4. list_rx = <<>> \/ rxdev # 0 \/ mark_r # {}
  BY DEF ListenFirst, ListenAgain, WaitingIsMarked, RecvTypeOK
<1>5. NoneStranded'
  BY <1>4 DEF ListenFirst, ListenAgain, StartDrain, NoneStranded, rxVars, markVars
<1>6. WaitingIsMarked'
  BY DEF ListenFirst, ListenAgain, StartDrain, WaitingIsMarked, rxVars, markVars
<1>7. mark_r # {} => mark_r = {1}
  BY DEF MarkTypeOK, Accepted
<1>8. Draining'
  BY <1>7 DEF ListenFirst, ListenAgain, StartDrain, Draining, rxVars, markVars
<1> QED BY <1>1, <1>2, <1>3, <1>5, <1>6, <1>8

\* The loop over the devices and the first two steps of link_recv.
LEMMA RecvLoops ==
    ASSUME RecvInv, SkipDev \/ DrainDone \/ RecvLook \/ RecvLock PROVE RecvInv'
<1> USE QueueAssumptions DEF RecvInv
<1>1. RecvTypeOK' /\ MarkTypeOK' /\ Ordered'
  BY DEF SkipDev, DrainDone, RecvLook, RecvLock, RecvTypeOK, MarkTypeOK, Ordered, rxVars,
     markVars
<1>2. AppTypeOK'
  BY DEF SkipDev, DrainDone, RecvLook, RecvLock, AppTypeOK, AppDevs
<1>3. MutexReleased' /\ NoneStranded'
  BY DEF SkipDev, DrainDone, RecvLook, RecvLock, MutexReleased, NoneStranded, RecvTypeOK, None,
     rxVars, markVars
<1>4. dev > 1 \/ dev = 1
  BY DEF AppTypeOK
<1>5. \A i \in DOMAIN list_rx : list_rx[i].dev = 1
  BY ItemFacts
<1>6. WaitingIsMarked'
  BY <1>4, <1>5 DEF SkipDev, DrainDone, RecvLook, RecvLock, WaitingIsMarked, Draining,
     AppTypeOK, AppDevs, rxVars, markVars
<1>7. Draining'
  BY <1>4 DEF SkipDev, DrainDone, RecvLook, RecvLock, Draining, AppTypeOK, AppDevs, rxVars,
     markVars
<1> QED BY <1>1, <1>2, <1>3, <1>6, <1>7

\* The search always finds the head of list_rx, and gives the mutex back.
LEMMA SearchTakesHead ==
    ASSUME RecvInv, RecvSearch
    PROVE  /\ dev = 1 /\ list_rx # <<>> /\ rset = {1} /\ Len(list_rx) >= 1
           /\ dev_cnt_r' = [dev_cnt_r EXCEPT ![1] = CountDown(1)]
           /\ mark_r' = IF CountDown(1) = 0 THEN mark_r \ {1} ELSE mark_r
           /\ list_rx' = Tail(list_rx)
           /\ seen' = Append(seen, list_rx[1].id)
           /\ mutex_rx_list' = None /\ dev' = 1 /\ apppc' = "next"
           /\ UNCHANGED <<mark_w, mark_e, in_listen, arrivals, rxdev, rset>>
<1> USE QueueAssumptions DEF RecvInv
<1>1. dev = 1 /\ list_rx # <<>> /\ rset = {1}
  BY DEF RecvSearch, Draining
<1>2. Matching = 1 .. Len(list_rx) /\ Len(list_rx) >= 1
  BY <1>1, ItemFacts DEF Matching, RecvTypeOK
<1>3. First(Matching) = 1
  <2>1. \A j \in Matching : 1 <= j
    BY <1>2
  <2>2. 1 \in Matching
    BY <1>2, <1>1 DEF RecvTypeOK
  <2>3. \E i \in Matching : \A j \in Matching : i <= j
    BY <2>1, <2>2
  <2>4. First(Matching) \in Matching /\ First(Matching) <= 1
    BY <2>2, <2>3 DEF First
  <2> QED BY <2>4, <1>2
<1>4. Without(list_rx, 1) = Tail(list_rx)
  BY <1>2 DEF Without, RecvTypeOK
<1> QED BY <1>1, <1>2, <1>3, <1>4 DEF RecvSearch, AfterRecv, ClearMark

\* What the search leaves behind.
LEMMA RecvFinds == ASSUME RecvInv, RecvSearch PROVE RecvInv'
<1> USE QueueAssumptions DEF RecvInv
<1>1. dev = 1 /\ list_rx # <<>> /\ rset = {1}
  BY SearchTakesHead
<1>2. DOMAIN list_rx = 1 .. Len(list_rx) /\ Len(list_rx) >= 1
  BY SearchTakesHead, ItemFacts
<1>5. /\ dev_cnt_r' = [dev_cnt_r EXCEPT ![1] = CountDown(1)]
      /\ mark_r' \subseteq mark_r
      /\ list_rx' = Tail(list_rx)
      /\ seen' = Append(seen, list_rx[1].id)
      /\ mutex_rx_list' = None
      /\ dev' = 1
      /\ apppc' = "next"
      /\ UNCHANGED <<mark_w, mark_e, in_listen, arrivals, rxdev, rset>>
  BY SearchTakesHead
<1>6. CountDown(1) \in 0 .. CntRange - 1
  BY DEF CountDown, MarkTypeOK, Devs
<1>7. MarkTypeOK'
  BY <1>5, <1>6 DEF MarkTypeOK
<1>8. RecvTypeOK' /\ list_rx[1].id \in 1 .. MaxArrivals
  <2>1. Tail(list_rx) \in Seq([dev : Accepted, id : 1 .. MaxArrivals])
    BY <1>1 DEF RecvTypeOK
  <2>2. RecvTypeOK'
    BY <1>5, <2>1 DEF RecvTypeOK, None
  <2> QED BY <2>2, <1>2, ItemFacts
<1>9. AppTypeOK'
  BY <1>5, <1>8 DEF AppTypeOK
<1>10. MutexReleased' /\ NoneStranded' /\ WaitingIsMarked'
  BY <1>5 DEF MutexReleased, NoneStranded, WaitingIsMarked, RecvSearch, None
<1>11. Draining'
  BY <1>1, <1>5 DEF Draining
<1>12. Ordered'
  <2>1. seen \in Seq(1 .. MaxArrivals) /\ list_rx[1].id = Len(seen) + 1
    BY <1>2 DEF Ordered, AppTypeOK
  <2>2. Len(seen') = Len(seen) + 1 /\ Len(list_rx') = Len(list_rx) - 1
    BY <1>2, <1>5, <2>1 DEF RecvTypeOK
  <2>3. \A k \in DOMAIN seen' : seen'[k] = k
    BY <1>5, <2>1 DEF Ordered
  <2>4. \A k \in DOMAIN list_rx' : list_rx'[k] = list_rx[k + 1] /\ k + 1 \in DOMAIN list_rx
    BY <1>2, <1>5, <2>2 DEF RecvTypeOK
  <2>5. \A k \in DOMAIN list_rx' : list_rx'[k].id = Len(seen) + (k + 1)
    BY <2>4 DEF Ordered
  <2>6. Len(seen) \in Nat /\ Len(list_rx) \in Nat /\ arrivals \in Nat
    BY <2>1, ItemFacts DEF RecvTypeOK
  <2>7. DOMAIN list_rx' \subseteq Nat
    BY <2>2, <2>6, <1>5 DEF RecvTypeOK
  <2>8. \A k \in DOMAIN list_rx' : list_rx'[k].id = Len(seen') + k
    BY <2>2, <2>5, <2>6, <2>7
  <2>9. Len(seen') + Len(list_rx') = arrivals'
    <3>1. Len(seen) + Len(list_rx) = arrivals /\ arrivals' = arrivals
      BY <1>5 DEF Ordered
    <3> QED BY <2>2, <2>6, <3>1
  <2> QED BY <2>3, <2>8, <2>9 DEF Ordered
<1> QED BY <1>7, <1>8, <1>9, <1>10, <1>11, <1>12

\* Every step keeps the receiving half's invariant.
LEMMA RecvStep == SendTypeOK /\ RecvInv /\ [Next]_vars => RecvInv'
<1> SUFFICES ASSUME SendTypeOK, RecvInv, [Next]_vars PROVE RecvInv'
  OBVIOUS
<1>1. CASE \/ \E d \in Devs : LinkSend(d)
           \/ ClearAllStart \/ ClearAllNext \/ TxFetch \/ TxNextList \/ TxClear
           \/ TxFallAsleep \/ TxWakeUp \/ \E ret \in {0, -1, -2} : TxReturns(ret)
           \/ Quiescent \/ UNCHANGED vars
  <2>1. UNCHANGED <<markVars, rxVars, appVars>>
    BY <1>1 DEF LinkSend, ClearAllStart, ClearAllNext, TxFetch, TxNextList, TxClear,
                TxFallAsleep, TxWakeUp, TxReturns, Quiescent, vars
  <2> QED BY <2>1, RecvUnchanged
<1>2. CASE TxMarkError \/ TxCancelled
  <2>1. idx \in Devs
    BY <1>2 DEF TxMarkError, TxCancelled, SendTypeOK
  <2> QED BY <1>2, <2>1, RecvMarks
<1>3. CASE \E d \in Accepted : RxAppend(d)
  BY <1>3, RecvAppends DEF Accepted
<1>4. CASE RxMark
  BY <1>4, RecvIsMarked
<1>5. CASE AppStep
  BY <1>5, RecvListens, RecvLoops, RecvFinds DEF AppStep
<1> QED BY <1>1, <1>2, <1>3, <1>4, <1>5 DEF Next, TxStep

-----------------------------------------------------------------------------
\* The remainder is the only residue in the range.
LEMMA ModUnique ==
    ASSUME NEW c \in Nat \ {0}, NEW q \in Int, NEW r \in 0 .. c - 1
    PROVE  (q * c + r) % c = r
  OBVIOUS

\* A number is a multiple of c and its remainder.
LEMMA DivMod ==
    ASSUME NEW c \in Nat \ {0}, NEW x \in Nat
    PROVE  \E q \in Int : \E r \in 0 .. c - 1 : x = q * c + r /\ x % c = r
<1>1. x % c \in 0 .. c - 1
  OBVIOUS
<1>2. x \div c \in Int
  OBVIOUS
<1>3. c > 0
  OBVIOUS
<1>4. x = (x \div c) * c + (x % c)
  BY <1>3
<1> QED BY <1>1, <1>2, <1>4, Zenon

\* Counting up and down by one on a counter of c values.
LEMMA ModUp ==
    ASSUME NEW c \in Nat \ {0}, NEW x \in Nat
    PROVE  ((x % c) + 1) % c = (x + 1) % c /\ (((x + 1) % c) + c - 1) % c = x % c
<1>1. PICK q \in Int, r \in 0 .. c - 1 : x = q * c + r /\ x % c = r
  BY DivMod, Zenon
<1>2. CASE r + 1 < c
  <2>1. r + 1 \in 0 .. c - 1 /\ x + 1 = q * c + (r + 1)
    BY <1>1, <1>2
  <2>2. (x + 1) % c = r + 1
    BY <2>1, ModUnique
  <2>3. r + 1 = 0 * c + (r + 1) /\ 0 \in Int /\ (r + 1) + c - 1 = 1 * c + r /\ 1 \in Int
    OBVIOUS
  <2>4. (0 * c + (r + 1)) % c = r + 1
    BY <2>1, <2>3, ModUnique
  <2>5. (1 * c + r) % c = r
    BY <2>3, ModUnique
  <2> QED BY <1>1, <2>2, <2>3, <2>4, <2>5
<1>3. CASE r + 1 = c
  <2>1. /\ x + 1 = (q + 1) * c + 0 /\ r + 1 = 1 * c + 0 /\ 0 + c - 1 = 0 * c + r
        /\ 0 \in 0 .. c - 1 /\ q + 1 \in Int
    BY <1>1, <1>3
  <2>2. (x + 1) % c = 0
    BY <2>1, ModUnique
  <2>3. (1 * c + 0) % c = 0
    BY <2>1, ModUnique
  <2>4. (0 * c + r) % c = r
    BY ModUnique
  <2> QED BY <1>1, <2>1, <2>2, <2>3, <2>4
<1> QED BY <1>2, <1>3

\* Nothing received: the counter is 0.
LEMMA CountInit == Init => CountInv
<1> SUFFICES ASSUME Init PROVE CountInv
  OBVIOUS
<1>1. Len(list_rx) = 0 /\ dev_cnt_r[1] = 0 /\ mark_r = {} /\ rxdev = 0
  BY QueueAssumptions DEF Init, Devs
<1>2. 0 % CntRange = 0
  BY QueueAssumptions
<1> QED BY <1>1, <1>2 DEF CountInv

\* thread_rx appends before it counts.
LEMMA CountAppends == ASSUME RecvInv, CountInv, RxAppend(1) PROVE CountInv'
<1>1. Len(list_rx) \in Nat /\ Len(list_rx') = Len(list_rx) + 1
  BY ItemFacts DEF RecvInv, RxAppend, RecvTypeOK
<1>2. rxdev = 0 /\ rxdev' = 1 /\ dev_cnt_r' = dev_cnt_r
  BY DEF RxAppend, markVars
<1>3. Len(list_rx') - 1 = Len(list_rx) /\ Len(list_rx') >= 1
  BY <1>1
<1> QED BY <1>2, <1>3 DEF CountInv

\* thread_rx counts what it appended, and the counter may wrap.
LEMMA CountMarks == ASSUME RecvInv, CountInv, RxMark PROVE CountInv'
<1>1. rxdev = 1 /\ rxdev' = 0 /\ 1 \in Devs
  BY QueueAssumptions DEF RxMark, RecvInv, RecvTypeOK, Accepted, Devs
<1>2. list_rx' = list_rx /\ dev_cnt_r'[1] = (dev_cnt_r[1] + 1) % CntRange
  BY <1>1 DEF RxMark, RecvInv, MarkTypeOK
<1>3. Len(list_rx) >= 1 /\ dev_cnt_r[1] = (Len(list_rx) - 1) % CntRange
  BY <1>1 DEF CountInv
<1>4. Len(list_rx) - 1 \in Nat /\ (Len(list_rx) - 1) + 1 = Len(list_rx) /\ Len(list_rx) # 0
  BY <1>3, ItemFacts DEF RecvInv
<1>5. dev_cnt_r'[1] = Len(list_rx) % CntRange
  BY <1>2, <1>3, <1>4, ModUp, QueueAssumptions
<1> QED BY <1>1, <1>2, <1>4, <1>5 DEF CountInv

\* link_recv counts down what it takes, and the last one takes the mark along.
LEMMA CountFinds == ASSUME RecvInv, CountInv, RecvSearch PROVE CountInv'
<1>1. mutex_rx_list = "app" /\ rxdev = 0 /\ rxdev' = 0 /\ 1 \in Devs
  BY SearchTakesHead, QueueAssumptions DEF RecvSearch, RecvInv, MutexReleased, Devs
<1>2. Len(list_rx) - 1 \in Nat /\ (Len(list_rx) - 1) + 1 = Len(list_rx)
  BY SearchTakesHead, ItemFacts DEF RecvInv
<1>3. Len(list_rx') = Len(list_rx) - 1
  BY SearchTakesHead DEF RecvInv, RecvTypeOK
<1>4. dev_cnt_r[1] = Len(list_rx) % CntRange
  BY <1>1 DEF CountInv
<1>5. CountDown(1) = (Len(list_rx) - 1) % CntRange
  BY <1>2, <1>4, ModUp, QueueAssumptions DEF CountDown
<1>6. dev_cnt_r'[1] = Len(list_rx') % CntRange
  BY <1>1, <1>3, <1>5, SearchTakesHead DEF RecvInv, MarkTypeOK
<1>7. 0 % CntRange = 0
  BY QueueAssumptions
<1>8. Len(list_rx') = 0 => 1 \notin mark_r'
  BY <1>3, <1>5, <1>7, SearchTakesHead
<1> QED BY <1>1, <1>6, <1>8 DEF CountInv

\* Nobody else changes list_rx, the counter or the mark of a device.
LEMMA CountStep == RecvInv /\ CountInv /\ [Next]_vars => CountInv'
<1> SUFFICES ASSUME RecvInv, CountInv, [Next]_vars PROVE CountInv'
  OBVIOUS
<1>1. CASE UNCHANGED <<dev_cnt_r, mark_r, list_rx, rxdev>>
  BY <1>1 DEF CountInv
<1>2. CASE \/ \E d \in Devs : LinkSend(d)
           \/ ClearAllStart \/ ClearAllNext \/ TxFetch \/ TxNextList \/ TxClear
           \/ TxMarkError \/ TxCancelled
           \/ TxFallAsleep \/ TxWakeUp \/ \E ret \in {0, -1, -2} : TxReturns(ret)
           \/ Quiescent \/ UNCHANGED vars
  <2>1. UNCHANGED <<dev_cnt_r, mark_r, list_rx, rxdev>>
    BY <1>2 DEF LinkSend, ClearAllStart, ClearAllNext, TxFetch, TxNextList, TxClear,
                TxMarkError, TxCancelled, TxFallAsleep, TxWakeUp, TxReturns, Quiescent, vars,
                markVars, rxVars
  <2> QED BY <1>1, <2>1
<1>3. CASE \E d \in Accepted : RxAppend(d)
  BY <1>3, CountAppends DEF Accepted
<1>4. CASE RxMark
  BY <1>4, CountMarks
<1>5. CASE ListenFirst \/ ListenAgain \/ SkipDev \/ DrainDone \/ RecvLook \/ RecvLock
  <2>1. UNCHANGED <<dev_cnt_r, mark_r, list_rx, rxdev>>
    BY <1>5 DEF ListenFirst, ListenAgain, SkipDev, DrainDone, RecvLook, RecvLock, markVars, rxVars
  <2> QED BY <1>1, <2>1
<1>6. CASE RecvSearch
  BY <1>6, CountFinds
<1> QED BY <1>2, <1>3, <1>4, <1>5, <1>6 DEF Next, TxStep, AppStep

\* All of list_rx is device 1's, so its length is what CountsMatch counts.
LEMMA CountsAreLengths == RecvInv /\ CountInv => CountsMatch
<1> DEFINE Of(d) == {i \in DOMAIN list_rx : list_rx[i].dev = d}
<1> SUFFICES ASSUME RecvInv, CountInv, mutex_rx_list # "rx", NEW d \in Accepted
             PROVE  /\ dev_cnt_r[d] = Cardinality(Of(d)) % CntRange
                    /\ Cardinality(Of(d)) = 0 => d \notin mark_r
  BY DEF CountsMatch
<1>1. d = 1 /\ rxdev = 0
  BY DEF Accepted, RecvInv, MutexReleased
<1>2. Len(list_rx) \in Nat /\ Of(d) = 1 .. Len(list_rx)
  BY <1>1, ItemFacts DEF RecvInv
<1>3. Cardinality(1 .. Len(list_rx)) = IF 1 > Len(list_rx) THEN 0 ELSE Len(list_rx) - 1 + 1
  <2>1. 1 \in Int /\ Len(list_rx) \in Int
    BY <1>2
  <2> QED BY <2>1, FS_Interval
<1> HIDE DEF Of
<1>4. Cardinality(Of(d)) = Len(list_rx)
  BY <1>2, <1>3
<1> QED BY <1>1, <1>4 DEF CountInv

-----------------------------------------------------------------------------
\* A sequence is a function on 1 .. its length.
LEMMA SeqIsFunction ==
    ASSUME NEW S, NEW s \in Seq(S) PROVE s = [i \in 1 .. Len(s) |-> s[i]]
  OBVIOUS

\* The concatenation in SeenInOrder, element by element.
LEMMA OrderedSeen == RecvInv => SeenInOrder
<1> SUFFICES ASSUME RecvInv PROVE SeenInOrder
  OBVIOUS
<1> DEFINE waiting == [i \in DOMAIN list_rx |-> list_rx[i].id]
<1>1. seen \in Seq(1 .. MaxArrivals) /\ arrivals \in Nat /\ Len(list_rx) \in Nat
  BY QueueAssumptions, ItemFacts DEF RecvInv, AppTypeOK, RecvTypeOK
<1>2. waiting \in Seq(1 .. MaxArrivals) /\ Len(waiting) = Len(list_rx)
  BY ItemFacts DEF RecvInv
<1>3. \A k \in 1 .. Len(list_rx) : waiting[k] = Len(seen) + k
  BY ItemFacts DEF RecvInv, Ordered
<1>4. \A k \in 1 .. Len(seen) : seen[k] = k
  BY <1>1 DEF RecvInv, Ordered
<1>5. Len(seen) + Len(list_rx) = arrivals
  BY DEF RecvInv, Ordered
<1> HIDE DEF waiting
<1>6. seen \o waiting = [i \in 1 .. arrivals |-> i]
  <2>1. seen \o waiting \in Seq(1 .. MaxArrivals) /\ Len(seen \o waiting) = arrivals
    BY <1>1, <1>2, <1>5
  <2>2. \A k \in 1 .. arrivals : (seen \o waiting)[k] = k
    <3>1. \A k \in 1 .. Len(seen) : (seen \o waiting)[k] = k
      BY <1>1, <1>2, <1>4
    <3>2. \A k \in 1 .. Len(list_rx) : (seen \o waiting)[Len(seen) + k] = Len(seen) + k
      BY <1>1, <1>2, <1>3
    <3>3. ASSUME NEW k \in 1 .. arrivals PROVE
             k \in 1 .. Len(seen) \/ \E l \in 1 .. Len(list_rx) : k = Len(seen) + l
      <4>1. Len(seen) \in Nat
        BY <1>1
      <4>2. k > Len(seen) => k - Len(seen) \in 1 .. Len(list_rx) /\ k = Len(seen) + (k - Len(seen))
        BY <1>1, <1>5, <4>1
      <4> QED BY <1>1, <4>1, <4>2
    <3> QED BY <3>1, <3>2, <3>3
  <2>3. seen \o waiting = [i \in 1 .. arrivals |-> (seen \o waiting)[i]]
    BY <2>1, SeqIsFunction
  <2> QED BY <2>2, <2>3
<1> QED BY <1>6 DEF SeenInOrder, waiting

\* Type correctness of the queues, the marks and the four threads.
THEOREM QueueTypeCorrect == Spec => []TypeOK
  BY SendInit, SendStep, RecvInit, RecvStep, PTL DEF Spec, SendInv, RecvInv, TypeOK

\* The event loop never keeps mutex_rx_list: link_recv, which returns with the
\* mutex when its search fails, is only called when the search succeeds.
THEOREM MutexNeverKept == Spec => []MutexReleased
  BY SendInit, SendStep, RecvInit, RecvStep, PTL DEF Spec, SendInv, RecvInv

\* link_listen never sleeps on a message that is already in list_rx.
THEOREM NothingStranded == Spec => []NoneStranded
  BY SendInit, SendStep, RecvInit, RecvStep, PTL DEF Spec, SendInv, RecvInv

\* The event loop never goes back to link_listen with an unmarked message in
\* list_rx, even when dev_cnt_r has wrapped and the mark was cleared too early.
THEOREM WaitingMarked == Spec => []WaitingIsMarked
  BY SendInit, SendStep, RecvInit, RecvStep, PTL DEF Spec, SendInv, RecvInv

\* dev_cnt_r is the number of waiting messages modulo its range, whatever the
\* range of the counter and however many messages wait.
THEOREM CountsTheWaiting == Spec => []CountsMatch
  BY SendInit, SendStep, RecvInit, RecvStep, CountInit, CountStep, CountsAreLengths, PTL
     DEF Spec, SendInv

\* The application sees every message once, in the order of arrival.
THEOREM SeenOnceInOrder == Spec => []SeenInOrder
  BY SendInit, SendStep, RecvInit, RecvStep, OrderedSeen, PTL DEF Spec, SendInv
=============================================================================
