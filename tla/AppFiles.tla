------------------------------ MODULE AppFiles ------------------------------
(***************************************************************************)
(* How app/app_proto.c copies whole files from the main board to the       *)
(* extension board: the key configuration bcf.xml, the key list blf.xml    *)
(* and the firmware.  The main board reads a file in blocks of 4094 bytes  *)
(* and queues one message per block, flagged start, continue or end; the   *)
(* extension board writes what arrives to a file and puts it in place at   *)
(* the end.  handle_req_bcf and handle_req_blf run in the event thread and *)
(* answer a request, app_send_blf and app_send_upgrade are called by the   *)
(* GUI thread; nothing keeps the two apart.                                *)
(*                                                                         *)
(* link_send only queues.  What the link does later is what MessageService *)
(* and LinkQueues allow: it hands messages over in order, drops one that   *)
(* the receiver cancelled, or gives up and drops everything queued.        *)
(* What a file contains does not matter here: block i of version v of a    *)
(* file is the pair <<v, i>>.  Requests are reliable; AppImages has the    *)
(* images that an end of blf.xml makes the board ask for.                  *)
(***************************************************************************)
EXTENDS Integers, Sequences

CONSTANTS
    Requests,      \* files the extension board asks for
    Pushes,        \* files the GUI thread of the main board sends unasked
    Blocks,        \* Blocks[v]: number of blocks of version v of a file
    Faults,        \* what may go wrong, see FaultKinds
    MaxFaults,     \* bound on the faults
    MaxPushes,     \* bound on the pushes
    MaxQueue,      \* bound on the messages on their way
    Absent,        \* no such file
    NoJob          \* no transfer

Files == {"bcf", "blf", "fw"}
Threads == {"event", "gui"}
Versions == DOMAIN Blocks

(***************************************************************************)
(* read: read() fails on the main board.  nomem: link_send finds no        *)
(* memory.  cancel, fail: the link drops a message, or gives up.  open,    *)
(* write: open() fails or write() is short on the extension board.  reset: *)
(* the extension board restarts.                                           *)
(***************************************************************************)
FaultKinds == {"read", "nomem", "cancel", "fail", "open", "write", "reset"}

ASSUME FilesAssumption == Requests \subseteq {"bcf", "blf"} /\ Pushes \subseteq {"blf", "fw"}
ASSUME BlocksAssumption == Blocks \in Seq(Nat) /\ Blocks # <<>>
ASSUME FileFaultsAssumption == Faults \subseteq FaultKinds
ASSUME FileBoundsAssumption == {MaxFaults, MaxPushes, MaxQueue} \subseteq Nat

Torn == <<0, 0>>       \* a block of which only a part was written

Content(v) == [i \in 1 .. Blocks[v] |-> <<v, i>>]

\* Definitions whose names begin with Wrong are plausible mistakes; no action
\* uses them.  They serve to show that the properties would notice them.
WrongTemp(f) == f

\* swname: where the blocks are collected.  For bcf it is the file itself.
Temp(f) == CASE f = "bcf" -> "bcf" [] f = "blf" -> "blf.sw" [] f = "fw" -> "fw.tmp"

Paths == {"bcf", "blf", "blf.sw", "fw", "fw.tmp"}

VARIABLES
    version,    \* version[f]: the version of f on the main board
    wanted,     \* requests that have reached the main board
    job,        \* job[t]: the transfer thread t is in
    pushes,     \* pushes so far
    list_tx,    \* messages link_send has queued
    list_rx,    \* messages the extension board has not handled yet
    fs,         \* the extension board's files
    last,       \* last[f]: the transfer whose end was handled last
    upgrade,    \* the firmware the GUI was told to install
    faults

mainVars == <<version, wanted, job, pushes>>
extVars  == <<fs, last, upgrade>>
vars == <<mainVars, list_tx, list_rx, extVars, faults>>

Messages == [file : Files, flag : {"start", "continue", "end"},
             version : Versions, block : Nat, clean : BOOLEAN]

Init ==
    /\ version = [f \in Files |-> 1]
    /\ wanted = {}
    /\ job = [t \in Threads |-> NoJob]
    /\ pushes = 0
    /\ list_tx = <<>> /\ list_rx = <<>>
    /\ fs = [p \in Paths |-> Absent]
    /\ last = [f \in Files |-> NoJob]
    /\ upgrade = <<>>
    /\ faults = 0

Fault(kind) == /\ kind \in Faults /\ faults < MaxFaults
               /\ faults' = faults + 1

-----------------------------------------------------------------------------
(***************************************************************************)
(* The history of disturbances, for the properties: a transfer is clean if *)
(* it was the only one of its file and no message or block of it got lost. *)
(***************************************************************************)

StartsIn(s, f) == \E i \in DOMAIN s : s[i].file = f /\ s[i].flag = "start"

\* The messages of f in s that belong to a transfer begun before s.
Spoiled(s, f) ==
    [i \in DOMAIN s |->
        IF s[i].file = f /\ ~StartsIn(SubSeq(s, 1, i), f)
        THEN [s[i] EXCEPT !.clean = FALSE] ELSE s[i]]

\* The jobs on f that have sent their start, if that is not in s.
SpoiledJobs(s, f) ==
    [t \in Threads |->
        IF job[t] # NoJob /\ job[t].file = f /\ job[t].next > 0 /\ ~StartsIn(s, f)
        THEN [job[t] EXCEPT !.clean = FALSE] ELSE job[t]]

Busy(f) == \E t \in Threads : job[t] # NoJob /\ job[t].file = f

-----------------------------------------------------------------------------
(***************************************************************************)
(* The main board.                                                         *)
(***************************************************************************)

\* The user changes a file, by replacing it: a transfer goes on reading the old.
NewVersion(f) ==
    /\ version[f] + 1 \in Versions
    /\ version' = [version EXCEPT ![f] = @ + 1]
    /\ UNCHANGED <<wanted, job, pushes, list_tx, list_rx, extVars, faults>>

\* req_blf, or handle_ack_login's request for bcf.xml.
Request(f) ==
    /\ f \in Requests \ wanted
    /\ wanted' = wanted \union {f}
    /\ UNCHANGED <<version, job, pushes, list_tx, list_rx, extVars, faults>>

\* open(): a second transfer of the same file spoils both.
Open(t, f) ==
    /\ job[t] = NoJob
    /\ job' = [u \in Threads |->
           IF u = t THEN [file |-> f, version |-> version[f], next |-> 0, clean |-> ~Busy(f)]
           ELSE IF job[u] # NoJob /\ job[u].file = f THEN [job[u] EXCEPT !.clean = FALSE]
           ELSE job[u]]

\* app_proto_process on a request, in the event thread.
AnswerRequest(f) ==
    /\ f \in wanted
    /\ Open("event", f)
    /\ wanted' = wanted \ {f}
    /\ UNCHANGED <<version, pushes, list_tx, list_rx, extVars, faults>>

\* app_send_blf and app_send_upgrade.
Push(f) ==
    /\ f \in Pushes /\ pushes < MaxPushes
    /\ Open("gui", f)
    /\ pushes' = pushes + 1
    /\ UNCHANGED <<version, wanted, list_tx, list_rx, extVars, faults>>

\* The flag for block n: the first message is a start even of an empty file,
\* a read of no bytes makes the end.
WrongFlag(j, n) == IF n = 1 THEN "start" ELSE IF n > Blocks[j.version] + 1 THEN "end" ELSE "continue"

Flag(j, n) == IF n = 1 THEN "start" ELSE IF n > Blocks[j.version] THEN "end" ELSE "continue"

\* One read and link_send of handle_req_bcf, handle_req_blf or app_send_upgrade.
SendBlock(t) ==
    /\ job[t] # NoJob /\ Len(list_tx) + Len(list_rx) < MaxQueue
    /\ LET n == job[t].next + 1
           flag == Flag(job[t], n)
       IN  /\ list_tx' = Append(list_tx,
                  [file |-> job[t].file, flag |-> flag, version |-> job[t].version,
                   block |-> IF n > Blocks[job[t].version] THEN 0 ELSE n,
                   clean |-> job[t].clean])
           /\ job' = [job EXCEPT ![t] = IF flag = "end" THEN NoJob ELSE [@ EXCEPT !.next = n]]
    /\ UNCHANGED <<version, wanted, pushes, list_rx, extVars, faults>>

\* goto OUT: the read or link_send failed, and nobody tells the other board.
Abandon(t) ==
    /\ job[t] # NoJob
    /\ Fault("read") \/ Fault("nomem")
    /\ job' = [job EXCEPT ![t] = NoJob]
    /\ UNCHANGED <<version, wanted, pushes, list_tx, list_rx, extVars>>

-----------------------------------------------------------------------------
(***************************************************************************)
(* The link.                                                               *)
(***************************************************************************)

Deliver ==
    /\ list_tx # <<>>
    /\ list_rx' = Append(list_rx, Head(list_tx))
    /\ list_tx' = Tail(list_tx)
    /\ UNCHANGED <<mainVars, extVars, faults>>

\* tx_data_info returned -2; the next message is sent as if nothing happened.
LinkCancels ==
    /\ list_tx # <<>>
    /\ Fault("cancel")
    /\ LET f == Head(list_tx).file
       IN  /\ list_tx' = Spoiled(Tail(list_tx), f)
           /\ job' = SpoiledJobs(Tail(list_tx), f)
    /\ UNCHANGED <<version, wanted, pushes, list_rx, extVars>>

\* tx_data_info returned -1, perhaps for a message that arrived: what is queued
\* is dropped, while the threads go on queueing.
LinkFails ==
    /\ list_tx # <<>>
    /\ Fault("fail")
    /\ \/ list_rx' = Append(list_rx, Head(list_tx))
       \/ UNCHANGED list_rx
    /\ list_tx' = <<>>
    /\ job' = [t \in Threads |->
           IF job[t] # NoJob /\ \E i \in DOMAIN list_tx : list_tx[i].file = job[t].file
           THEN SpoiledJobs(<<>>, job[t].file)[t] ELSE job[t]]
    /\ UNCHANGED <<version, wanted, pushes, extVars>>

-----------------------------------------------------------------------------
(***************************************************************************)
(* The extension board: app_proto_process on the messages of a transfer.   *)
(***************************************************************************)

Msg == Head(list_rx)

Handling(flag) == list_rx # <<>> /\ Msg.flag = flag

\* The message was handled, with or without loss.
Handled == list_rx' = Tail(list_rx) /\ UNCHANGED <<list_tx, job>>

HandledBadly ==
    /\ list_rx' = Spoiled(Tail(list_rx), Msg.file)
    /\ list_tx' = IF StartsIn(Tail(list_rx), Msg.file) THEN list_tx ELSE Spoiled(list_tx, Msg.file)
    /\ job' = SpoiledJobs(Tail(list_rx) \o list_tx, Msg.file)

\* The bytes of a message: nothing, if a read found the end of the file.
Bytes == IF Msg.block = 0 THEN <<>> ELSE << <<Msg.version, Msg.block>> >>

\* unlink() and open(O_CREAT): an empty file to begin with.
WrongFresh(f) == IF fs[Temp(f)] = Absent THEN <<>> ELSE fs[Temp(f)]

Fresh(f) == <<>>

\* write() of the whole content or of a part of it.
Written(p, old) ==
    \/ /\ fs' = [fs EXCEPT ![p] = old \o Bytes]
       /\ Handled
       /\ UNCHANGED faults
    \/ /\ Bytes # <<>>
       /\ Fault("write")
       /\ fs' = [fs EXCEPT ![p] = Append(old, Torn)]
       /\ HandledBadly

HandleStart ==
    /\ Handling("start")
    /\ LET p == Temp(Msg.file)
       IN  \/ Written(p, Fresh(Msg.file))
           \/ /\ Fault("open")
              /\ fs' = [fs EXCEPT ![p] = Absent]
              /\ HandledBadly
    /\ UNCHANGED <<version, wanted, pushes, last, upgrade>>

\* open() without O_CREAT, lseek() to the end and write().
HandleContinue ==
    /\ Handling("continue")
    /\ LET p == Temp(Msg.file)
       IN  \/ fs[p] # Absent /\ Written(p, fs[p])
           \/ /\ (fs[p] = Absent /\ UNCHANGED faults) \/ Fault("open")
              /\ HandledBadly
              /\ UNCHANGED fs
    /\ UNCHANGED <<version, wanted, pushes, last, upgrade>>

\* unlink(path); rename(swname, path): the old file is gone whether or not
\* there is a new one.
Installed(f) ==
    LET unlinked == [fs EXCEPT ![f] = Absent]
    IN  [unlinked EXCEPT ![f] = unlinked[Temp(f)], ![Temp(f)] = Absent]

Finish(f) == [version |-> Msg.version, clean |-> Msg.clean]

HandleEnd ==
    /\ Handling("end")
    /\ Msg.file \in {"bcf", "blf"}
    /\ fs' = Installed(Msg.file)
    /\ last' = [last EXCEPT ![Msg.file] = Finish(Msg.file)]
    /\ Handled
    /\ UNCHANGED <<version, wanted, pushes, upgrade, faults>>

\* The end of handle_upgrade_fw: the GUI installs what has been collected.
HandleUpgrade ==
    /\ Handling("end")
    /\ Msg.file = "fw"
    /\ fs' = [fs EXCEPT !["fw"] = Absent]
    /\ upgrade' = fs[Temp("fw")]
    /\ last' = [last EXCEPT !["fw"] = Finish("fw")]
    /\ Handled
    /\ UNCHANGED <<version, wanted, pushes, faults>>

\* The extension board restarts: what it had received and not handled is lost,
\* and a file is lost if it was between unlink and rename.
Reset ==
    /\ Fault("reset")
    /\ list_rx' = <<>>
    /\ \/ UNCHANGED <<fs, last>>
       \/ /\ Handling("end") /\ Msg.file \in {"bcf", "blf"}
          /\ fs' = [fs EXCEPT ![Msg.file] = Absent]
          /\ last' = [last EXCEPT ![Msg.file] = NoJob]
    /\ LET hit(f) == \E i \in DOMAIN list_rx : list_rx[i].file = f
       IN  /\ list_tx' = [i \in DOMAIN list_tx |->
                  IF hit(list_tx[i].file) THEN Spoiled(list_tx, list_tx[i].file)[i]
                  ELSE list_tx[i]]
           /\ job' = [t \in Threads |->
                  IF job[t] # NoJob /\ hit(job[t].file)
                  THEN SpoiledJobs(list_tx, job[t].file)[t] ELSE job[t]]
    /\ UNCHANGED <<version, wanted, pushes, upgrade>>

MainStep == \/ \E f \in Requests : AnswerRequest(f)
            \/ \E t \in Threads : SendBlock(t)
ExtStep == HandleStart \/ HandleContinue \/ HandleEnd \/ HandleUpgrade

Next == \/ \E f \in Requests \union Pushes : NewVersion(f) \/ Request(f) \/ Push(f)
        \/ MainStep
        \/ \E t \in Threads : Abandon(t)
        \/ Deliver \/ LinkCancels \/ LinkFails
        \/ ExtStep \/ Reset

Spec == Init /\ [][Next]_vars

(***************************************************************************)
(* Both event loops and thread_tx run for ever, the GUI thread finishes    *)
(* the push it is in, and the extension board's GUI keeps asking.          *)
(***************************************************************************)
Fairness ==
    /\ \A f \in Requests : WF_vars(Request(f)) /\ WF_vars(AnswerRequest(f))
    /\ \A t \in Threads : WF_vars(SendBlock(t))
    /\ WF_vars(Deliver)
    /\ WF_vars(ExtStep)

FairSpec == Spec /\ Fairness

-----------------------------------------------------------------------------
\* What a file may hold: blocks, in whatever order they were written.
Contents == Seq((Versions \X Nat) \union {Torn})

\* Types; a transfer under way is at a block its file has, so that its end is
\* sent right behind the last one.
TypeOK ==
    /\ version \in [Files -> Versions]
    /\ wanted \subseteq Requests
    /\ job \in [Threads -> {NoJob} \union
                [file : Files, version : Versions, next : Nat, clean : BOOLEAN]]
    /\ \A t \in Threads :
           job[t] # NoJob => job[t].next <= 1 \/ job[t].next <= Blocks[job[t].version]
    /\ list_tx \in Seq(Messages) /\ list_rx \in Seq(Messages)
    /\ fs \in [Paths -> {Absent} \union Contents]
    /\ last \in [Files -> {NoJob} \union [version : Versions, clean : BOOLEAN]]
    /\ upgrade \in {Absent} \union Contents
    /\ pushes \in 0 .. MaxPushes /\ faults \in 0 .. MaxFaults

Good(f, content) ==
    last[f] # NoJob /\ last[f].clean => content = Content(last[f].version)

\* However many transfers of blf.xml or of the firmware were torn, mixed up or
\* abandoned before (dropped messages, short writes, the event and the GUI thread
\* sending the same file at once, a restart in the middle), the next one that is
\* left alone puts exactly the main board's file in place: the start of
\* handle_ack_req_blf and handle_upgrade_fw forgets all that was collected.
CleanTransferInstalls == Good("blf", fs["blf"]) /\ Good("fw", upgrade)

\* The same of bcf.xml, as handle_ack_req_bcf's comments take for granted: after
\* the end the new file is there, its images are checked and those older than
\* it deleted.
BcfInstalls == Good("bcf", fs["bcf"])

\* As long as the GUI asks again, blf.xml ends up as it is on the main board once
\* faults, changes and pushes have ceased: no leftover of a broken transfer can
\* keep later ones from succeeding.
EventuallyCurrent == <>[](fs["blf"] = Content(version["blf"]))
=============================================================================
