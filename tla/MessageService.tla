--------------------------- MODULE MessageService ---------------------------
(***************************************************************************)
(* What the link layer promises its users when it is used one way and      *)
(* answers are timely: messages are handed over whole, in the order they   *)
(* were queued and at most once; success is reported only for a message    *)
(* that was handed over; a cancelled one was not.  A message reported as   *)
(* failed may have been handed over: the acknowledgement can get lost.     *)
(***************************************************************************)
EXTENDS Integers, Sequences

CONSTANTS Boards, Size     \* Size[b][m]: fragments of board b's m-th message

VARIABLES
    status,      \* status[b][m]: what board b knows of its m-th message
    delivered    \* delivered[b]: what b's peer was handed, oldest first

Messages(b) == 1 .. Len(Size[b])
Whole(b, m) == [k \in 1 .. Size[b][m] |-> <<m, k>>]
IsDelivered(b, m) == \E i \in DOMAIN delivered[b] : delivered[b][i] = Whole(b, m)
Sending(b, m) == status[b][m] = "sending"

Init == /\ status = [b \in Boards |-> [m \in Messages(b) |-> "new"]]
        /\ delivered = [b \in Boards |-> <<>>]

\* The next message is queued.
Submit(b, m) ==
    /\ status[b][m] = "new"
    /\ \A n \in 1 .. m - 1 : status[b][n] # "new"
    /\ status' = [status EXCEPT ![b][m] = "queued"]
    /\ UNCHANGED delivered

\* The oldest queued message is taken up when no other is.
Start(b, m) ==
    /\ status[b][m] = "queued"
    /\ \A n \in 1 .. m - 1 : status[b][n] # "queued"
    /\ \A n \in Messages(b) : ~Sending(b, n)
    /\ status' = [status EXCEPT ![b][m] = "sending"]
    /\ UNCHANGED delivered

Deliver(b, m) ==
    /\ Sending(b, m)
    /\ ~IsDelivered(b, m)
    /\ delivered' = [delivered EXCEPT ![b] = Append(@, Whole(b, m))]
    /\ UNCHANGED status

Report(b, m) ==
    /\ Sending(b, m)
    /\ \/ IsDelivered(b, m) /\ status' = [status EXCEPT ![b][m] = "ok"]
       \/ ~IsDelivered(b, m) /\ status' = [status EXCEPT ![b][m] = "cancelled"]
       \/ status' = [status EXCEPT ![b][m] = "failed"]
    /\ UNCHANGED delivered

\* A failure takes everything that is queued with it.
Drop(b) ==
    /\ \E m \in Messages(b) : status[b][m] = "failed"
    /\ \A m \in Messages(b) : ~Sending(b, m)
    /\ status' = [status EXCEPT ![b] =
           [m \in Messages(b) |-> IF @[m] = "queued" THEN "cleared" ELSE @[m]]]
    /\ UNCHANGED delivered

Next == \E b \in Boards :
            \/ Drop(b)
            \/ \E m \in Messages(b) : Submit(b, m) \/ Start(b, m) \/ Deliver(b, m) \/ Report(b, m)

Spec == Init /\ [][Next]_<<status, delivered>>
=============================================================================
