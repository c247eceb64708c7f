----------------------------- MODULE AppSession -----------------------------
(***************************************************************************)
(* The session between the two boards in app/app_proto.c: how the          *)
(* extension board logs in to the main board, and how app_proto_process    *)
(* hands every message to the function it is meant for.                    *)
(*                                                                         *)
(* The main board lets a board log in once in two minutes and ignores      *)
(* further attempts without an answer; it keeps the time of the last login *)
(* in whole seconds (tv_sec) of its monotonic clock.  The GUI of the       *)
(* extension board repeats login_to_mainboard until it has been told       *)
(* LOGIN_SUCCESS.  Messages are queued by link_send and may get lost; both *)
(* boards may restart, the extension board with a new firmware.            *)
(*                                                                         *)
(* Time is kept relative to the last login the main board accepted: since  *)
(* is the difference of the tv_sec, elapsed the time that has really       *)
(* passed, in ticks; both stop counting when they no longer matter.        *)
(***************************************************************************)
EXTENDS Integers, Sequences

CONSTANTS
    Window,            \* 2 * 60
    TicksPerSecond,
    MaxFw,             \* bound on the firmware versions of the extension board
    MaxFaults,         \* bound on losses, failures and restarts
    MaxCalls,          \* bound on the calls of the GUIs other than the login
    MaxQueue           \* bound on the messages queued in one direction

ASSUME WindowAssumption == Window \in Nat \ {0} /\ TicksPerSecond \in Nat \ {0}
ASSUME SessionBoundsAssumption == MaxFw \in Nat \ {0} /\ {MaxFaults, MaxCalls, MaxQueue} \subseteq Nat

-----------------------------------------------------------------------------
(***************************************************************************)
(* The messages: the number in the low seven bits of the first byte and    *)
(* the bit 0x80, as the functions that send them build it.                 *)
(***************************************************************************)

MainCalls == {"status", "reset", "lcd", "led", "main_cmd",
              "bcf_block", "blf_block", "image_block", "fw_block"}
ExtCalls == {"req_blf", "req_image", "key", "ask_status", "ext_cmd"}
Calls == MainCalls \union ExtCalls \union {"login", "ack_login", "req_bcf"}

Plain(c) == CASE c = "login" -> 1 [] c = "req_bcf" -> 2 [] c = "req_blf" -> 3
              [] c = "req_image" -> 4 [] c = "key" -> 5 [] c = "status" -> 6
              [] c = "reset" -> 8 [] c = "ask_status" -> 13 [] c = "ext_cmd" -> 15
              [] OTHER -> 0

Acked(c) == CASE c = "ack_login" -> 1 [] c = "bcf_block" -> 2 [] c = "blf_block" -> 3
              [] c = "image_block" -> 4 [] c = "fw_block" -> 9 [] c = "lcd" -> 11
              [] c = "led" -> 12 [] c = "main_cmd" -> 14 [] OTHER -> 0

Code(c) == [ack |-> Acked(c) # 0, cmd |-> IF Acked(c) # 0 THEN Acked(c) ELSE Plain(c)]

\* The two switches of app_proto_process, with the cases that run into the next
\* one.  blf_block without 0x80 is m2e_send_blk, image_block m2e_send_image.
PlainHandler(cmd) ==
    CASE cmd = 1 -> "login" [] cmd = 2 -> "req_bcf" [] cmd = 3 -> "req_blf"
      [] cmd = 4 -> "req_image" [] cmd = 5 -> "key" [] cmd = 6 -> "status"
      [] cmd = 7 -> "blf_block" [] cmd = 8 -> "reset" [] cmd = 9 -> "fw_block"
      [] cmd = 10 -> "image_block" [] cmd = 13 -> "ask_status" [] cmd = 15 -> "ext_cmd"
      [] OTHER -> "none"

WrongAckHandler(cmd) ==
    CASE cmd = 1 -> "ack_login" [] cmd = 2 -> "bcf_block" [] cmd = 3 -> "blf_block"
      [] cmd = 4 -> "image_block" [] cmd = 11 -> "lcd"
      [] cmd \in {5, 6, 7, 8, 9, 12} -> "fw_block" [] cmd \in {10, 14} -> "main_cmd"
      [] OTHER -> "none"

AckHandler(cmd) ==
    CASE cmd = 1 -> "ack_login" [] cmd = 2 -> "bcf_block" [] cmd = 3 -> "blf_block"
      [] cmd = 4 -> "image_block" [] cmd = 11 -> "lcd" [] cmd = 12 -> "led"
      [] cmd \in {5, 6, 7, 8, 9} -> "fw_block" [] cmd \in {10, 14} -> "main_cmd"
      [] OTHER -> "none"

Handler(code) == IF code.ack THEN AckHandler(code.cmd) ELSE PlainHandler(code.cmd)

VARIABLES
    phase,                 \* ticks within the second of the main board's clock
    since, elapsed,        \* see above
    status,                \* clients_login_times[].status
    clients_fw_version,    \* 0 if not known
    fw_version,            \* of the extension board
    boots,                 \* restarts of either board: history
    logged_in,             \* its GUI has been told LOGIN_SUCCESS
    own,                   \* by the answer to a login, and neither board has restarted
                           \* since that login was sent: history.  An answer from before
                           \* a restart sets logged_in alone.
    bcf,                   \* it has a bcf.xml
    to_main, to_ext,       \* queued messages
    misrouted,             \* a message reached a function it was not meant for: history
    calls, faults

clock == <<phase, since, elapsed>>
mainVars == <<status, clients_fw_version>>
extVars == <<fw_version, boots, logged_in, own, bcf>>
vars == <<clock, mainVars, extVars, to_main, to_ext, misrouted, calls, faults>>

Message(c, fw, boot) == [call |-> c, code |-> Code(c), fw |-> fw, boot |-> boot]
Simple(c) == Message(c, 0, 0)


Init ==
    /\ phase \in 0 .. TicksPerSecond - 1 /\ since = 0 /\ elapsed = 0
    /\ status = 0 /\ clients_fw_version = 0
    /\ fw_version = 1 /\ boots = 0 /\ logged_in = FALSE /\ own = FALSE
    /\ bcf \in BOOLEAN
    /\ to_main = <<>> /\ to_ext = <<>>
    /\ misrouted = FALSE
    /\ calls = 0 /\ faults = 0

AtMost(n, max) == IF n > max THEN max ELSE n

\* By how much tv_sec grows at a tick that leads to phase p.
Seconds(p) == IF p = 0 THEN 1 ELSE 0

Tick ==
    /\ phase' = (phase + 1) % TicksPerSecond
    /\ since' = AtMost(since + Seconds(phase'), Window + 1)
    /\ elapsed' = AtMost(elapsed + 1, Window * TicksPerSecond + 1)
    /\ UNCHANGED <<mainVars, extVars, to_main, to_ext, misrouted, calls, faults>>

Fault == faults < MaxFaults /\ faults' = faults + 1

-----------------------------------------------------------------------------
\* login_to_mainboard, repeated by the GUI.
Login ==
    /\ ~logged_in /\ Len(to_main) < MaxQueue
    /\ to_main' = Append(to_main, Message("login", fw_version, boots))
    /\ UNCHANGED <<clock, mainVars, extVars, to_ext, misrouted, calls, faults>>

\* The other functions the GUIs call, and the blocks of files.
MainSends(c) ==
    /\ c \in MainCalls /\ calls < MaxCalls /\ Len(to_ext) < MaxQueue
    /\ to_ext' = Append(to_ext, Simple(c))
    /\ calls' = calls + 1
    /\ UNCHANGED <<clock, mainVars, extVars, to_main, misrouted, faults>>

ExtSends(c) ==
    /\ c \in ExtCalls /\ calls < MaxCalls /\ Len(to_main) < MaxQueue
    /\ to_main' = Append(to_main, Simple(c))
    /\ calls' = calls + 1
    /\ UNCHANGED <<clock, mainVars, extVars, to_ext, misrouted, faults>>

\* app_proto_process of the first message of queue q.
Dispatch(q, handler) ==
    /\ q # <<>> /\ Handler(Head(q).code) = handler
    /\ misrouted' = (misrouted \/ Head(q).call # handler)

\* depth_deal_login: the first login, or one more than Window seconds later.
WrongAllowed == status = 0 \/ since >= Window

Allowed == status = 0 \/ since > Window

\* The login time that depth_deal_login keeps for an accepted login is now.
WrongRecordedAt == since

RecordedAt == 0

\* handle_login: the time is taken before the answer is sent, which may fail.
AcceptLogin ==
    /\ Dispatch(to_main, "login") /\ Allowed
    /\ Len(to_ext) < MaxQueue
    /\ since' = RecordedAt /\ elapsed' = 0 /\ status' = 1
    /\ clients_fw_version' = Head(to_main).fw
    /\ \/ /\ to_ext' = Append(to_ext, Message("ack_login", 0, Head(to_main).boot))
          /\ UNCHANGED faults
       \/ Fault /\ UNCHANGED to_ext
    /\ to_main' = Tail(to_main)
    /\ UNCHANGED <<phase, extVars, calls>>

\* "it has logined": no answer.
WrongAnswer == Append(to_ext, Message("ack_login", 0, Head(to_main).boot))

Answer == to_ext

WrongRefusedAt == 0

RefusedAt == since

RefuseLogin ==
    /\ Dispatch(to_main, "login") /\ ~Allowed
    /\ to_ext' = Answer
    /\ since' = RefusedAt
    /\ to_main' = Tail(to_main)
    /\ UNCHANGED <<phase, elapsed, mainVars, extVars, calls, faults>>

\* handle_ack_login: bcf.xml is asked for if it is missing, or if the answer names a
\* later version than BCF_VERSION, a global that only the GUI can set.
HandleAckLogin ==
    /\ Dispatch(to_ext, "ack_login")
    /\ logged_in' = TRUE
    /\ own' = (own \/ Head(to_ext).boot = boots)
    /\ \/ bcf /\ UNCHANGED to_main
       \/ to_main' = Append(to_main, Simple("req_bcf"))
    /\ to_ext' = Tail(to_ext)
    /\ UNCHANGED <<clock, mainVars, fw_version, boots, bcf, calls, faults>>

\* Every other message ends in a callback of the GUI or in the file transfers of
\* AppFiles and AppImages.
MainHandles ==
    /\ \E h \in Calls \ {"login"} : Dispatch(to_main, h)
    /\ to_main' = Tail(to_main)
    /\ UNCHANGED <<clock, mainVars, extVars, to_ext, calls, faults>>

ExtHandles ==
    /\ \E h \in Calls \ {"ack_login"} : Dispatch(to_ext, h)
    /\ to_ext' = Tail(to_ext)
    /\ UNCHANGED <<clock, mainVars, extVars, to_main, calls, faults>>

-----------------------------------------------------------------------------
(***************************************************************************)
(* Faults.                                                                 *)
(***************************************************************************)

LinkLoses ==
    /\ Fault
    /\ \/ to_main # <<>> /\ to_main' = Tail(to_main) /\ UNCHANGED to_ext
       \/ to_ext # <<>> /\ to_ext' = Tail(to_ext) /\ UNCHANGED to_main
    /\ UNCHANGED <<clock, mainVars, extVars, misrouted, calls>>

\* The extension board restarts, perhaps with the firmware it was sent.  What it
\* had queued is gone unless it has reached the other board; what the main board
\* has queued arrives after the restart.
ExtRestarts ==
    /\ Fault
    /\ fw_version' \in {fw_version, fw_version + 1} \cap 1 .. MaxFw
    /\ boots' = boots + 1
    /\ logged_in' = FALSE /\ own' = FALSE
    /\ to_main' \in {to_main, <<>>}
    /\ UNCHANGED <<clock, mainVars, bcf, to_ext, misrouted, calls>>

\* The main board restarts and has forgotten who is logged in (app_proto_init).
MainRestarts ==
    /\ Fault
    /\ status' = 0 /\ clients_fw_version' = 0
    /\ since' = 0 /\ elapsed' = 0
    /\ own' = FALSE /\ boots' = boots + 1
    /\ to_ext' \in {to_ext, <<>>}
    /\ UNCHANGED <<phase, fw_version, logged_in, bcf, to_main, misrouted, calls>>

MainStep == AcceptLogin \/ RefuseLogin \/ MainHandles
ExtStep == HandleAckLogin \/ ExtHandles

Next == \/ Tick \/ Login
        \/ \E c \in Calls : MainSends(c) \/ ExtSends(c)
        \/ MainStep \/ ExtStep
        \/ LinkLoses \/ ExtRestarts \/ MainRestarts

Spec == Init /\ [][Next]_vars

\* Time passes, both event loops run for ever and the GUI keeps trying.
FairSpec == /\ Spec
            /\ WF_vars(Tick) /\ WF_vars(Login)
            /\ WF_vars(MainStep) /\ WF_vars(ExtStep)

-----------------------------------------------------------------------------
Messages == [call : Calls, code : [ack : BOOLEAN, cmd : 1 .. 15], fw : 0 .. MaxFw, boot : Nat]

\* Types; the difference of the whole seconds is less than a second away from the
\* time that has passed.
TypeOK ==
    /\ phase \in 0 .. TicksPerSecond - 1
    /\ since \in 0 .. Window + 1 /\ elapsed \in 0 .. Window * TicksPerSecond + 1
    /\ elapsed <= Window * TicksPerSecond =>
           /\ since * TicksPerSecond < elapsed + TicksPerSecond
           /\ elapsed < since * TicksPerSecond + TicksPerSecond
    /\ status \in {0, 1} /\ clients_fw_version \in 0 .. MaxFw
    /\ fw_version \in 1 .. MaxFw
    /\ to_main \in Seq(Messages) /\ to_ext \in Seq(Messages)

\* "Each peripheral may log in only once within two minutes", in real time: though
\* tv_sec cuts off up to a second at both ends, two logins that are accepted without
\* a restart in between are more than Window seconds apart.
OncePerWindow ==
    [][AcceptLogin /\ status = 1 => elapsed > Window * TicksPerSecond]_vars

\* A board that has been told LOGIN_SUCCESS in answer to its own login, with no restart
\* since, is known to the main board with the firmware it runs: no login repeated, refused
\* or left over from before a restart overwrites clients_fw_version.  Nothing is said of
\* a board that took the answer to an older login for its own.
KnownToMain == logged_in /\ own => clients_fw_version = fw_version

\* Each message is handled by the function that its sender means, whatever else is
\* queued: the cases of app_proto_process that run into the next one are never taken
\* by a message of either board.
RightHandler == ~misrouted

\* However often the answer gets lost or a board restarts, a board that keeps trying
\* is logged in in the end: attempts that are refused do not prolong the two minutes.
EventuallyLoggedIn == <>[]logged_in
=============================================================================
