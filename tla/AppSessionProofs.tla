-------------------------- MODULE AppSessionProofs --------------------------
(***************************************************************************)
(* Theorems about AppSession, for every length of the window, resolution   *)
(* of the clock and number of faults: the throttle of depth_deal_login is  *)
(* sound in real time, the dispatch of app_proto_process is right, and the *)
(* two boards agree on the firmware of a board that is logged in.          *)
(***************************************************************************)
EXTENDS AppSession, TLAPS

-----------------------------------------------------------------------------
(***************************************************************************)
(* Sequences and products.                                                 *)
(***************************************************************************)

\* Tail takes the first message out of a queue.
LEMMA TailFacts ==
    ASSUME NEW S, NEW s \in Seq(S), s # <<>>
    PROVE  /\ Tail(s) \in Seq(S)
           /\ \A i \in DOMAIN Tail(s) : i + 1 \in DOMAIN s /\ Tail(s)[i] = s[i + 1]
  OBVIOUS

\* The first message of a queue.
LEMMA HeadFacts ==
    ASSUME NEW S, NEW s \in Seq(S), s # <<>>
    PROVE  1 \in DOMAIN s /\ Head(s) = s[1] /\ Head(s) \in S
  OBVIOUS

\* link_send puts a message behind the others.
LEMMA AppendFacts ==
    ASSUME NEW S, NEW s \in Seq(S), NEW e \in S
    PROVE  /\ Append(s, e) \in Seq(S)
           /\ \A i \in DOMAIN Append(s, e) :
                  \/ i \in DOMAIN s /\ Append(s, e)[i] = s[i]
                  \/ i = Len(s) + 1 /\ Append(s, e)[i] = e
           /\ \A i \in DOMAIN s : i < Len(s) + 1
  OBVIOUS

\* Multiplication by the ticks of a second.
LEMMA TimesFacts ==
    ASSUME NEW t \in Nat \ {0}
    PROVE  /\ 0 * t = 0
           /\ \A n \in Nat : n * t \in Nat
           /\ \A n \in Nat : (n + 1) * t = n * t + t
           /\ \A n, k \in Nat : n <= k => n * t <= k * t
  OBVIOUS

-----------------------------------------------------------------------------
(***************************************************************************)
(* The numbers of the messages.                                            *)
(***************************************************************************)

\* Every number is one of app_cmd_t.
LEMMA NumberFacts ==
    ASSUME NEW c \in Calls
    PROVE  Acked(c) \in 0 .. 15 /\ (Acked(c) = 0 => Plain(c) \in 1 .. 15)
  BY DEF Calls, MainCalls, ExtCalls, Acked, Plain

\* The switches of app_proto_process lead from the number that the sender of a
\* message uses to the function that it means.
LEMMA SwitchFacts ==
    ASSUME NEW c \in Calls
    PROVE  IF Acked(c) # 0 THEN AckHandler(Acked(c)) = c ELSE PlainHandler(Plain(c)) = c
  BY DEF Calls, MainCalls, ExtCalls, Acked, AckHandler, Plain, PlainHandler

\* The same of the first byte of the message.
LEMMA CodeFacts ==
    ASSUME NEW c \in Calls
    PROVE  Code(c) \in [ack : BOOLEAN, cmd : 1 .. 15] /\ Handler(Code(c)) = c
<1> DEFINE number == IF Acked(c) # 0 THEN Acked(c) ELSE Plain(c)
<1>1. number \in 1 .. 15
  BY NumberFacts
<1>2. (Acked(c) # 0) \in BOOLEAN
  OBVIOUS
<1>3. Code(c) \in [ack : BOOLEAN, cmd : 1 .. 15]
  BY <1>1, <1>2, Zenon DEF Code
<1>4. Code(c).ack = (Acked(c) # 0) /\ Code(c).cmd = number
  BY Zenon DEF Code
<1>5. Handler(Code(c)) = c
  BY <1>4, SwitchFacts, Zenon DEF Handler
<1> QED  BY <1>3, <1>5

\* What link_send is given is a message, and carries the number of its call.
LEMMA MessageFacts ==
    ASSUME NEW c \in Calls, NEW fw \in 0 .. MaxFw, NEW boot \in Nat
    PROVE  /\ Message(c, fw, boot) \in Messages
           /\ Message(c, fw, boot).call = c
           /\ Message(c, fw, boot).code = Code(c)
           /\ Message(c, fw, boot).fw = fw
           /\ Message(c, fw, boot).boot = boot
  BY CodeFacts DEF Message, Messages

\* Messages without a version.
LEMMA SimpleFacts ==
    ASSUME NEW c \in Calls
    PROVE  Simple(c) \in Messages /\ Simple(c).call = c /\ Simple(c).code = Code(c)
  BY MessageFacts, SessionBoundsAssumption DEF Simple

\* The numbers of the restarts in a queue.
LEMMA BootFacts ==
    ASSUME NEW q \in Seq(Messages)
    PROVE  \A i \in DOMAIN q : q[i].boot \in Nat
<1>1. \A i \in DOMAIN q : q[i] \in Messages
  OBVIOUS
<1>2. \A m \in Messages : m.boot \in Nat
  BY DEF Messages
<1> QED  BY <1>1, <1>2

-----------------------------------------------------------------------------
(***************************************************************************)
(* The inductive invariant.                                                *)
(***************************************************************************)

Ticks(n) == n * TicksPerSecond

\* since * TicksPerSecond + phase - elapsed is the phase at the last login.
ClockInv ==
    /\ phase \in 0 .. TicksPerSecond - 1
    /\ since \in 0 .. Window + 1 /\ elapsed \in 0 .. Ticks(Window) + 1
    /\ elapsed <= Ticks(Window) =>
           /\ elapsed <= Ticks(since) + phase
           /\ Ticks(since) + phase < elapsed + TicksPerSecond

BoardInv ==
    /\ status \in {0, 1} /\ clients_fw_version \in 0 .. MaxFw
    /\ fw_version \in 1 .. MaxFw /\ boots \in Nat
    /\ logged_in \in BOOLEAN /\ own \in BOOLEAN

Coded(q) == \A i \in DOMAIN q : q[i].code = Code(q[i].call)

QueueInv == /\ to_main \in Seq(Messages) /\ to_ext \in Seq(Messages)
            /\ Coded(to_main) /\ Coded(to_ext)

IsLogin(m) == m.call = "login"

\* Logins are queued in the order of the restarts; one sent since the last restart
\* carries the present firmware.
LoginsInv ==
    \A i \in DOMAIN to_main : IsLogin(to_main[i]) =>
        /\ to_main[i].boot <= boots
        /\ to_main[i].boot = boots => to_main[i].fw = fw_version
        /\ \A j \in DOMAIN to_main :
               i < j /\ IsLogin(to_main[j]) => to_main[i].boot <= to_main[j].boot

\* The answer to a login sent since the last restart.
Fresh(m) == m.call = "ack_login" /\ m.boot = boots

AnswersInv ==
    \A i \in DOMAIN to_ext : to_ext[i].call = "ack_login" => to_ext[i].boot <= boots

AnyFresh == \E i \in DOMAIN to_ext : Fresh(to_ext[i])

Granted == own \/ AnyFresh

NoOldLogin == \A i \in DOMAIN to_main : IsLogin(to_main[i]) => to_main[i].boot = boots

\* Once a login sent since the last restart was accepted, no older one is left
\* that could be accepted after it.
GrantedInv ==
    Granted => clients_fw_version = fw_version /\ NoOldLogin

SessionInv == /\ ClockInv /\ BoardInv /\ QueueInv /\ LoginsInv
              /\ AnswersInv /\ GrantedInv /\ ~misrouted

-----------------------------------------------------------------------------
(***************************************************************************)
(* What each step does to the queues.                                      *)
(***************************************************************************)

\* Taking out the first message keeps the codes.
LEMMA CodedTail ==
    ASSUME NEW q \in Seq(Messages), q # <<>>, Coded(q)
    PROVE  Tail(q) \in Seq(Messages) /\ Coded(Tail(q))
  BY TailFacts DEF Coded

\* So does adding one that link_send is given.
LEMMA CodedAppend ==
    ASSUME NEW q \in Seq(Messages), Coded(q), NEW m \in Messages, m.code = Code(m.call)
    PROVE  Append(q, m) \in Seq(Messages) /\ Coded(Append(q, m))
  BY AppendFacts DEF Coded

\* And losing them all.
LEMMA CodedEmpty == <<>> \in Seq(Messages) /\ Coded(<<>>)
<1>1. <<>> \in Seq(Messages) /\ DOMAIN <<>> = {}
  OBVIOUS
<1> QED  BY <1>1, Zenon DEF Coded

\* A message is handled by the function it is meant for.
LEMMA DispatchFacts ==
    ASSUME NEW q \in Seq(Messages), Coded(q), ~misrouted, NEW h \in Calls, Dispatch(q, h)
    PROVE  q # <<>> /\ Head(q).call = h /\ ~misrouted'
<1>1. q # <<>> /\ Handler(Head(q).code) = h /\ (misrouted' <=> misrouted \/ Head(q).call # h)
  BY Zenon DEF Dispatch
<1>2. Head(q) \in Messages /\ Head(q).code = Code(Head(q).call)
  BY <1>1, HeadFacts DEF Coded
<1>3. Head(q).call \in Calls
  BY <1>2 DEF Messages
<1>4. Head(q).call = h
  BY <1>1, <1>2, <1>3, CodeFacts
<1> QED  BY <1>1, <1>4

\* Logins that leave to_main take nothing from what is known of the others.
LEMMA LoginsTail ==
    ASSUME QueueInv, LoginsInv, to_main # <<>>, to_main' = Tail(to_main),
           UNCHANGED <<boots, fw_version>>
    PROVE  LoginsInv' /\ (NoOldLogin => NoOldLogin')
<1>1. \A i \in DOMAIN to_main' : i + 1 \in DOMAIN to_main /\ to_main'[i] = to_main[i + 1]
  BY TailFacts DEF QueueInv
<1>2. \A i, j \in DOMAIN to_main' : i < j => i + 1 < j + 1
  BY TailFacts DEF QueueInv
<1> QED  BY <1>1, <1>2 DEF LoginsInv, NoOldLogin, IsLogin

\* A queue that grows by a login of this restart, or by a message that is no login.
LEMMA LoginsAppend ==
    ASSUME QueueInv, LoginsInv, NEW m \in Messages, to_main' = Append(to_main, m),
           UNCHANGED <<boots, fw_version>>, boots \in Nat,
           IsLogin(m) => m.boot = boots /\ m.fw = fw_version
    PROVE  LoginsInv' /\ (NoOldLogin => NoOldLogin')
<1>1. \A i \in DOMAIN to_main' :
          \/ i \in DOMAIN to_main /\ to_main'[i] = to_main[i]
          \/ i = Len(to_main) + 1 /\ to_main'[i] = m
  BY AppendFacts DEF QueueInv
<1>2. \A i \in DOMAIN to_main : i < Len(to_main) + 1
  BY DEF QueueInv
<1>3. Len(to_main) \in Nat /\ DOMAIN to_main = 1 .. Len(to_main)
  BY DEF QueueInv
<1>4. ASSUME NEW i \in DOMAIN to_main', IsLogin(to_main'[i])
      PROVE  /\ to_main'[i].boot <= boots
             /\ to_main'[i].boot = boots => to_main'[i].fw = fw_version
  BY <1>1, <1>4 DEF LoginsInv
<1>5. ASSUME NEW i \in DOMAIN to_main', NEW j \in DOMAIN to_main', i < j,
             IsLogin(to_main'[i]), IsLogin(to_main'[j])
      PROVE  to_main'[i].boot <= to_main'[j].boot
  <2>1. i \in DOMAIN to_main /\ to_main'[i] = to_main[i]
    BY <1>1, <1>3, <1>5
  <2>2. CASE j \in DOMAIN to_main /\ to_main'[j] = to_main[j]
    BY <1>5, <2>1, <2>2 DEF LoginsInv
  <2>3. CASE to_main'[j] = m
    BY <1>4, <1>5, <2>3
  <2> QED  BY <1>1, <2>2, <2>3
<1>6. LoginsInv'
  BY <1>4, <1>5 DEF LoginsInv, IsLogin
<1>7. ASSUME NoOldLogin, NEW i \in DOMAIN to_main', IsLogin(to_main'[i])
      PROVE  to_main'[i].boot = boots
  BY <1>1, <1>7 DEF NoOldLogin
<1> QED  BY <1>6, <1>7 DEF NoOldLogin, IsLogin

\* A queue of answers that gets shorter, or longer by something that is no answer to
\* a login, brings no new answer.
LEMMA AnswersTail ==
    ASSUME QueueInv, AnswersInv, to_ext # <<>>, to_ext' = Tail(to_ext), UNCHANGED boots
    PROVE  AnswersInv' /\ (AnyFresh' => AnyFresh)
<1>1. \A i \in DOMAIN to_ext' : i + 1 \in DOMAIN to_ext /\ to_ext'[i] = to_ext[i + 1]
  BY TailFacts DEF QueueInv
<1> QED  BY <1>1 DEF AnswersInv, AnyFresh, Fresh

LEMMA AnswersAppend ==
    ASSUME QueueInv, AnswersInv, NEW m \in Messages, to_ext' = Append(to_ext, m), UNCHANGED boots,
           m.call = "ack_login" => m.boot <= boots
    PROVE  AnswersInv' /\ (AnyFresh' => AnyFresh \/ Fresh(m))
<1>1. \A i \in DOMAIN to_ext' :
          \/ i \in DOMAIN to_ext /\ to_ext'[i] = to_ext[i]
          \/ to_ext'[i] = m
  BY AppendFacts DEF QueueInv
<1> QED  BY <1>1 DEF AnswersInv, AnyFresh, Fresh

\* A step after which no more is granted than before, and nothing is forgotten.
LEMMA GrantedKept ==
    ASSUME GrantedInv, Granted' => Granted, NoOldLogin => NoOldLogin',
           UNCHANGED <<clients_fw_version, fw_version>>
    PROVE  GrantedInv'
  BY DEF GrantedInv

\* After a restart of either board every login and every answer that is still queued
\* is an old one.
LEMMA RestartStep ==
    ASSUME SessionInv, boots' = boots + 1, ~own',
           to_main' = to_main \/ to_main' = <<>>, to_ext' = to_ext \/ to_ext' = <<>>
    PROVE  LoginsInv' /\ AnswersInv' /\ GrantedInv'
<1>1. boots \in Nat /\ to_main \in Seq(Messages) /\ to_ext \in Seq(Messages)
  BY DEF SessionInv, BoardInv, QueueInv
<1>2. /\ \A i \in DOMAIN to_main' : i \in DOMAIN to_main /\ to_main'[i] = to_main[i]
      /\ \A i \in DOMAIN to_ext' : i \in DOMAIN to_ext /\ to_ext'[i] = to_ext[i]
  OBVIOUS
<1>3. /\ \A i \in DOMAIN to_main : to_main[i].boot \in Nat
      /\ \A i \in DOMAIN to_ext : to_ext[i].boot \in Nat
  BY <1>1, BootFacts
<1>4. LoginsInv'
  BY <1>1, <1>2, <1>3 DEF SessionInv, LoginsInv, IsLogin
<1>5. AnswersInv' /\ ~AnyFresh'
  BY <1>1, <1>2, <1>3 DEF SessionInv, AnswersInv, AnyFresh, Fresh
<1> QED  BY <1>4, <1>5 DEF GrantedInv, Granted

-----------------------------------------------------------------------------
(***************************************************************************)
(* The invariant holds in every state.                                     *)
(***************************************************************************)

LEMMA SessionInit == Init => SessionInv
<1> SUFFICES ASSUME Init PROVE SessionInv
  OBVIOUS
<1> USE WindowAssumption, SessionBoundsAssumption DEF Init
<1>1. ClockInv
  BY TimesFacts DEF ClockInv, Ticks
<1>2. status \in {0, 1} /\ clients_fw_version \in 0 .. MaxFw /\ fw_version \in 1 .. MaxFw /\ boots \in Nat
  OBVIOUS
<1>3. ~misrouted /\ logged_in \in BOOLEAN /\ own \in BOOLEAN
  BY Zenon
<1>4. QueueInv
  BY CodedEmpty, Zenon DEF QueueInv
<1>5. LoginsInv /\ AnswersInv /\ GrantedInv
  BY DEF LoginsInv, AnswersInv, GrantedInv, Granted, AnyFresh
<1> QED  BY <1>1, <1>2, <1>3, <1>4, <1>5 DEF SessionInv, BoardInv

\* A tick: tv_sec grows when the phase comes round to 0, and neither counter has
\* stopped as long as elapsed is within the window.
LEMMA ClockTick ==
    ASSUME ClockInv, Tick PROVE ClockInv'
<1> DEFINE T == TicksPerSecond
<1> USE WindowAssumption, TimesFacts
<1>1. T \in Nat \ {0} /\ Window \in Nat /\ Ticks(Window) \in Nat /\ since \in Nat /\ Ticks(since) \in Nat
  BY DEF ClockInv, Ticks
<1>2. phase' = IF phase + 1 = T THEN 0 ELSE phase + 1
  BY <1>1 DEF ClockInv, Tick
<1>3. since' \in 0 .. Window + 1 /\ elapsed' \in 0 .. Ticks(Window) + 1 /\ phase' \in 0 .. T - 1
  BY <1>1, <1>2 DEF ClockInv, Tick, AtMost, Seconds, Ticks
<1>4. ASSUME elapsed' <= Ticks(Window)
      PROVE  elapsed' <= Ticks(since') + phase' /\ Ticks(since') + phase' < elapsed' + T
  <2>1. elapsed' = elapsed + 1 /\ elapsed \in Nat /\ elapsed < Ticks(Window)
    BY <1>1, <1>4 DEF ClockInv, Tick, AtMost, Ticks
  <2>2. elapsed <= Ticks(since) + phase /\ Ticks(since) + phase < elapsed + T
    BY <1>1, <2>1 DEF ClockInv
  <2>3. since <= Window
    <3>1. SUFFICES ASSUME Window + 1 <= since PROVE FALSE
      BY <1>1
    <3>2. Ticks(Window) + T <= Ticks(since)
      BY <1>1, <3>1 DEF Ticks
    <3> QED  BY <1>1, <2>1, <2>2, <3>2 DEF ClockInv
  <2>4. CASE phase' = 0
    <3>1. since' = since + 1 /\ phase + 1 = T
      BY <1>1, <1>2, <2>3, <2>4 DEF Tick, AtMost, Seconds, ClockInv
    <3>2. Ticks(since') = Ticks(since) + T
      BY <1>1, <3>1 DEF Ticks
    <3> QED  BY <1>1, <2>1, <2>2, <2>4, <3>1, <3>2 DEF ClockInv
  <2>5. CASE phase' # 0
    <3>1. since' = since /\ phase' = phase + 1
      BY <1>1, <1>2, <2>3, <2>5 DEF Tick, AtMost, Seconds
    <3> QED  BY <1>1, <2>1, <2>2, <3>1 DEF ClockInv
  <2> QED  BY <2>4, <2>5
<1> QED  BY <1>3, <1>4 DEF ClockInv, Ticks

\* A login or a restart sets both counters to 0.
LEMMA ClockReset ==
    ASSUME ClockInv, UNCHANGED phase, since' = 0, elapsed' = 0 PROVE ClockInv'
  BY WindowAssumption, TimesFacts DEF ClockInv, Ticks

LEMMA ClockStep ==
    ASSUME ClockInv, [Next]_vars PROVE ClockInv'
<1>1. CASE Tick
  BY <1>1, ClockTick
<1>2. CASE AcceptLogin \/ MainRestarts
  BY <1>2, ClockReset DEF AcceptLogin, RecordedAt, MainRestarts
<1>3. CASE UNCHANGED clock
  BY <1>3 DEF clock, ClockInv
<1>4. CASE RefuseLogin
  BY <1>4 DEF RefuseLogin, RefusedAt, ClockInv
<1> QED
  BY <1>1, <1>2, <1>3, <1>4 DEF Next, vars, clock, Login, MainSends, ExtSends, MainStep, ExtStep,
     HandleAckLogin, MainHandles, ExtHandles, LinkLoses, ExtRestarts

\* handle_login of a login that is accepted: those left in the queue are not older than
\* it, so after one sent since the last restart only such can follow.
LEMMA AcceptStep ==
    ASSUME SessionInv, AcceptLogin
    PROVE  BoardInv' /\ QueueInv' /\ LoginsInv' /\ AnswersInv' /\ GrantedInv' /\ ~misrouted'
<1> DEFINE m == Head(to_main)
           a == Message("ack_login", 0, m.boot)
<1>1. QueueInv /\ LoginsInv /\ AnswersInv /\ GrantedInv /\ BoardInv
  BY DEF SessionInv
<1>2. to_main # <<>> /\ m.call = "login" /\ ~misrouted'
  BY DispatchFacts, Zenon DEF SessionInv, QueueInv, AcceptLogin, Calls
<1>3. to_main \in Seq(Messages) /\ to_ext \in Seq(Messages)
  BY <1>1 DEF QueueInv
<1>4. 1 \in DOMAIN to_main /\ m = to_main[1] /\ m \in Messages
  BY <1>2, <1>3, HeadFacts
<1>5. m.boot \in Nat /\ m.fw \in 0 .. MaxFw /\ boots \in Nat
  BY <1>1, <1>4 DEF Messages, BoardInv
<1>6. a \in Messages /\ a.code = Code(a.call) /\ a.call = "ack_login" /\ a.boot = m.boot
  <2>1. "ack_login" \in Calls /\ 0 \in 0 .. MaxFw
    BY SessionBoundsAssumption DEF Calls
  <2> QED  BY <1>5, <2>1, MessageFacts
<1>7. to_main' = Tail(to_main) /\ UNCHANGED extVars /\ clients_fw_version' = m.fw /\ status' = 1
  BY DEF AcceptLogin
<1>8. to_ext' = Append(to_ext, a) \/ to_ext' = to_ext
  BY DEF AcceptLogin
<1>9. m.boot <= boots /\ (m.boot = boots => m.fw = fw_version)
  BY <1>1, <1>2, <1>4 DEF LoginsInv, IsLogin
<1>10. BoardInv'
  BY <1>1, <1>5, <1>7 DEF BoardInv, extVars
<1>11. QueueInv'
  <2>1. to_main' \in Seq(Messages) /\ Coded(to_main')
    BY <1>1, <1>2, <1>7, CodedTail DEF QueueInv
  <2>2. to_ext' \in Seq(Messages) /\ Coded(to_ext')
    <3>1. CASE to_ext' = to_ext
      BY <1>1, <3>1 DEF QueueInv
    <3>2. CASE to_ext' = Append(to_ext, a)
      BY <1>1, <1>6, <3>2, CodedAppend DEF QueueInv
    <3> QED  BY <1>8, <3>1, <3>2
  <2> QED  BY <2>1, <2>2 DEF QueueInv, Coded
<1>12. LoginsInv' /\ (NoOldLogin => NoOldLogin')
  BY <1>1, <1>2, <1>7, LoginsTail DEF extVars
<1>13. AnswersInv' /\ (AnyFresh' => AnyFresh \/ Fresh(a))
  <2>1. CASE to_ext' = to_ext
    BY <1>1, <1>7, <2>1 DEF AnswersInv, AnyFresh, Fresh, extVars
  <2>2. CASE to_ext' = Append(to_ext, a)
    BY <1>1, <1>6, <1>7, <1>9, <2>2, AnswersAppend DEF extVars
  <2> QED  BY <1>8, <2>1, <2>2
<1>14. ASSUME m.boot = boots PROVE NoOldLogin'
  <2>1. \A i \in DOMAIN to_main' : i + 1 \in DOMAIN to_main /\ to_main'[i] = to_main[i + 1] /\ 1 < i + 1
    BY <1>2, <1>3, <1>7, TailFacts
  <2>2. \A j \in DOMAIN to_main : to_main[j].boot \in Nat
    BY <1>3, BootFacts
  <2>3. \A j \in DOMAIN to_main : 1 < j /\ IsLogin(to_main[j]) => to_main[j].boot = boots
    BY <1>1, <1>2, <1>4, <1>5, <1>14, <2>2 DEF LoginsInv, IsLogin
  <2> QED  BY <1>7, <2>1, <2>3 DEF NoOldLogin, IsLogin, extVars
<1>15. ASSUME Granted' PROVE m.boot = boots
  <2>1. Granted \/ Fresh(a)
    BY <1>7, <1>13, <1>15 DEF Granted, extVars
  <2>2. CASE Granted
    BY <1>1, <1>2, <1>4, <2>2 DEF GrantedInv, NoOldLogin, IsLogin
  <2>3. CASE Fresh(a)
    BY <1>6, <2>3 DEF Fresh
  <2> QED  BY <2>1, <2>2, <2>3
<1>16. GrantedInv'
  BY <1>7, <1>9, <1>14, <1>15 DEF GrantedInv, extVars
<1> QED  BY <1>2, <1>10, <1>11, <1>12, <1>13, <1>16

\* A step that only takes a message out of the main board's queue.
LEMMA MainTailStep ==
    ASSUME SessionInv, to_main # <<>>, to_main' = Tail(to_main),
           UNCHANGED <<mainVars, extVars, to_ext>>
    PROVE  BoardInv' /\ QueueInv' /\ LoginsInv' /\ AnswersInv' /\ GrantedInv'
<1>1. QueueInv /\ LoginsInv /\ AnswersInv /\ GrantedInv /\ BoardInv
  BY DEF SessionInv
<1>2. BoardInv'
  BY <1>1 DEF BoardInv, mainVars, extVars
<1>3. QueueInv'
  BY <1>1, CodedTail DEF QueueInv, Coded
<1>4. LoginsInv' /\ (NoOldLogin => NoOldLogin')
  BY <1>1, LoginsTail DEF extVars
<1>5. AnswersInv' /\ (AnyFresh' => AnyFresh)
  BY <1>1 DEF AnswersInv, AnyFresh, Fresh, extVars
<1>6. GrantedInv'
  BY <1>1, <1>4, <1>5, GrantedKept DEF Granted, mainVars, extVars
<1> QED  BY <1>2, <1>3, <1>4, <1>5, <1>6

\* A step that only puts a message into it, the login of this restart or another.
LEMMA MainAppendStep ==
    ASSUME SessionInv, NEW m \in Messages, m.code = Code(m.call), to_main' = Append(to_main, m),
           IsLogin(m) => m.boot = boots /\ m.fw = fw_version,
           UNCHANGED <<mainVars, extVars, to_ext>>
    PROVE  BoardInv' /\ QueueInv' /\ LoginsInv' /\ AnswersInv' /\ GrantedInv'
<1>1. QueueInv /\ LoginsInv /\ AnswersInv /\ GrantedInv /\ BoardInv
  BY DEF SessionInv
<1>2. BoardInv'
  BY <1>1 DEF BoardInv, mainVars, extVars
<1>3. QueueInv'
  BY <1>1, CodedAppend DEF QueueInv, Coded
<1>4. LoginsInv' /\ (NoOldLogin => NoOldLogin')
  BY <1>1, LoginsAppend DEF extVars, BoardInv
<1>5. AnswersInv' /\ (AnyFresh' => AnyFresh)
  BY <1>1 DEF AnswersInv, AnyFresh, Fresh, extVars
<1>6. GrantedInv'
  BY <1>1, <1>4, <1>5, GrantedKept DEF Granted, mainVars, extVars
<1> QED  BY <1>2, <1>3, <1>4, <1>5, <1>6

\* The same of the queue of the extension board.
LEMMA ExtTailStep ==
    ASSUME SessionInv, to_ext # <<>>, to_ext' = Tail(to_ext),
           UNCHANGED <<mainVars, extVars, to_main>>
    PROVE  BoardInv' /\ QueueInv' /\ LoginsInv' /\ AnswersInv' /\ GrantedInv'
<1>1. QueueInv /\ LoginsInv /\ AnswersInv /\ GrantedInv /\ BoardInv
  BY DEF SessionInv
<1>2. BoardInv'
  BY <1>1 DEF BoardInv, mainVars, extVars
<1>3. QueueInv'
  BY <1>1, CodedTail DEF QueueInv, Coded
<1>4. LoginsInv' /\ (NoOldLogin => NoOldLogin')
  BY <1>1 DEF LoginsInv, NoOldLogin, IsLogin, extVars
<1>5. AnswersInv' /\ (AnyFresh' => AnyFresh)
  BY <1>1, AnswersTail DEF extVars
<1>6. GrantedInv'
  BY <1>1, <1>4, <1>5, GrantedKept DEF Granted, mainVars, extVars
<1> QED  BY <1>2, <1>3, <1>4, <1>5, <1>6

LEMMA ExtAppendStep ==
    ASSUME SessionInv, NEW m \in Messages, m.code = Code(m.call), to_ext' = Append(to_ext, m),
           m.call # "ack_login", UNCHANGED <<mainVars, extVars, to_main>>
    PROVE  BoardInv' /\ QueueInv' /\ LoginsInv' /\ AnswersInv' /\ GrantedInv'
<1>1. QueueInv /\ LoginsInv /\ AnswersInv /\ GrantedInv /\ BoardInv
  BY DEF SessionInv
<1>2. BoardInv'
  BY <1>1 DEF BoardInv, mainVars, extVars
<1>3. QueueInv'
  BY <1>1, CodedAppend DEF QueueInv, Coded
<1>4. LoginsInv' /\ (NoOldLogin => NoOldLogin')
  BY <1>1 DEF LoginsInv, NoOldLogin, IsLogin, extVars
<1>5. AnswersInv' /\ (AnyFresh' => AnyFresh)
  BY <1>1, AnswersAppend DEF extVars, Fresh
<1>6. GrantedInv'
  BY <1>1, <1>4, <1>5, GrantedKept DEF Granted, mainVars, extVars
<1> QED  BY <1>2, <1>3, <1>4, <1>5, <1>6

\* handle_ack_login: the answer to a login of this restart was granted already when it
\* was queued.
LEMMA AckStep ==
    ASSUME SessionInv, HandleAckLogin
    PROVE  BoardInv' /\ QueueInv' /\ LoginsInv' /\ AnswersInv' /\ GrantedInv' /\ ~misrouted'
<1> DEFINE m == Head(to_ext)
           r == Simple("req_bcf")
<1>1. QueueInv /\ LoginsInv /\ AnswersInv /\ GrantedInv /\ BoardInv
  BY DEF SessionInv
<1>2. to_ext # <<>> /\ m.call = "ack_login" /\ ~misrouted'
  BY DispatchFacts, Zenon DEF SessionInv, QueueInv, HandleAckLogin, Calls
<1>3. 1 \in DOMAIN to_ext /\ m = to_ext[1]
  BY <1>1, <1>2, HeadFacts DEF QueueInv
<1>4. r \in Messages /\ r.call = "req_bcf" /\ r.code = Code(r.call)
  BY SimpleFacts DEF Calls
<1>5. /\ to_ext' = Tail(to_ext) /\ UNCHANGED <<mainVars, fw_version, boots>>
      /\ to_main' = to_main \/ to_main' = Append(to_main, r)
  BY DEF HandleAckLogin
<1>6. logged_in' = TRUE /\ own' = (own \/ m.boot = boots)
  BY DEF HandleAckLogin
<1>7. logged_in' \in BOOLEAN /\ own' \in BOOLEAN
  BY <1>6, Zenon
<1>8. own' => Granted
  BY <1>2, <1>3, <1>6 DEF Granted, AnyFresh, Fresh
<1>9. BoardInv'
  BY <1>1, <1>5, <1>7 DEF BoardInv, mainVars
<1>10. QueueInv'
  <2>1. to_ext' \in Seq(Messages) /\ Coded(to_ext')
    BY <1>1, <1>2, <1>5, CodedTail DEF QueueInv
  <2>2. to_main' \in Seq(Messages) /\ Coded(to_main')
    <3>1. CASE to_main' = to_main
      BY <1>1, <3>1 DEF QueueInv
    <3>2. CASE to_main' = Append(to_main, r)
      BY <1>1, <1>4, <3>2, CodedAppend DEF QueueInv
    <3> QED  BY <1>5, <3>1, <3>2
  <2> QED  BY <2>1, <2>2 DEF QueueInv, Coded
<1>11. LoginsInv' /\ (NoOldLogin => NoOldLogin')
  <2>1. CASE to_main' = to_main
    BY <1>1, <1>5, <2>1 DEF LoginsInv, NoOldLogin, IsLogin
  <2>2. CASE to_main' = Append(to_main, r)
    BY <1>1, <1>4, <1>5, <2>2, LoginsAppend DEF IsLogin, BoardInv
  <2> QED  BY <1>5, <2>1, <2>2
<1>12. AnswersInv' /\ (AnyFresh' => AnyFresh)
  BY <1>1, <1>2, <1>5, AnswersTail
<1>13. GrantedInv'
  BY <1>1, <1>5, <1>8, <1>11, <1>12, GrantedKept DEF Granted, mainVars
<1> QED  BY <1>2, <1>9, <1>10, <1>11, <1>12, <1>13

\* Every step keeps the invariant.
LEMMA SessionStep == SessionInv /\ [Next]_vars => SessionInv'
<1> SUFFICES ASSUME SessionInv, [Next]_vars PROVE SessionInv'
  OBVIOUS
<1>1. ClockInv'
  BY ClockStep DEF SessionInv
<1>2. ~misrouted /\ QueueInv /\ BoardInv
  BY DEF SessionInv
<1>3. CASE UNCHANGED <<mainVars, extVars, to_main, to_ext, misrouted>>
  BY <1>1, <1>3 DEF SessionInv, mainVars, extVars, BoardInv, QueueInv, Coded, LoginsInv, IsLogin,
              AnswersInv, GrantedInv, Granted, AnyFresh, Fresh, NoOldLogin
<1>4. CASE Login
  <2> DEFINE m == Message("login", fw_version, boots)
  <2>1. "login" \in Calls /\ fw_version \in 0 .. MaxFw /\ boots \in Nat
    BY <1>2, SessionBoundsAssumption DEF Calls, BoardInv
  <2>2. m \in Messages /\ m.code = Code(m.call) /\ m.boot = boots /\ m.fw = fw_version
    BY <2>1, MessageFacts
  <2>3. to_main' = Append(to_main, m) /\ UNCHANGED <<mainVars, extVars, to_ext, misrouted>>
    BY <1>4 DEF Login
  <2> HIDE DEF m
  <2> QED  BY <1>1, <1>2, <2>2, <2>3, MainAppendStep DEF SessionInv
<1>5. ASSUME NEW c \in Calls, MainSends(c) PROVE SessionInv'
  <2>1. Simple(c) \in Messages /\ Simple(c).code = Code(Simple(c).call) /\ Simple(c).call # "ack_login"
    BY <1>5, SimpleFacts DEF MainSends, MainCalls
  <2>2. to_ext' = Append(to_ext, Simple(c)) /\ UNCHANGED <<mainVars, extVars, to_main, misrouted>>
    BY <1>5 DEF MainSends
  <2> QED  BY <1>1, <1>2, <2>1, <2>2, ExtAppendStep DEF SessionInv
<1>6. ASSUME NEW c \in Calls, ExtSends(c) PROVE SessionInv'
  <2>1. Simple(c) \in Messages /\ Simple(c).code = Code(Simple(c).call) /\ ~IsLogin(Simple(c))
    BY <1>6, SimpleFacts DEF ExtSends, ExtCalls, IsLogin
  <2>2. to_main' = Append(to_main, Simple(c)) /\ UNCHANGED <<mainVars, extVars, to_ext, misrouted>>
    BY <1>6 DEF ExtSends
  <2> QED  BY <1>1, <1>2, <2>1, <2>2, MainAppendStep DEF SessionInv
<1>7. CASE AcceptLogin
  BY <1>1, <1>7, AcceptStep DEF SessionInv
<1>8. CASE RefuseLogin
  <2>1. to_main # <<>> /\ ~misrouted'
    BY <1>2, <1>8, DispatchFacts, Zenon DEF QueueInv, RefuseLogin, Calls
  <2>2. to_main' = Tail(to_main) /\ UNCHANGED <<mainVars, extVars, to_ext>>
    BY <1>8 DEF RefuseLogin, Answer
  <2> QED  BY <1>1, <2>1, <2>2, MainTailStep DEF SessionInv
<1>9. CASE HandleAckLogin
  BY <1>1, <1>9, AckStep DEF SessionInv
<1>10. CASE MainHandles
  <2>1. PICK h \in Calls : Dispatch(to_main, h)
    BY <1>10 DEF MainHandles
  <2>2. to_main # <<>> /\ ~misrouted'
    BY <1>2, <2>1, DispatchFacts, Zenon DEF QueueInv
  <2>3. to_main' = Tail(to_main) /\ UNCHANGED <<mainVars, extVars, to_ext>>
    BY <1>10 DEF MainHandles
  <2> QED  BY <1>1, <2>2, <2>3, MainTailStep DEF SessionInv
<1>11. CASE ExtHandles
  <2>1. PICK h \in Calls : Dispatch(to_ext, h)
    BY <1>11 DEF ExtHandles
  <2>2. to_ext # <<>> /\ ~misrouted'
    BY <1>2, <2>1, DispatchFacts, Zenon DEF QueueInv
  <2>3. to_ext' = Tail(to_ext) /\ UNCHANGED <<mainVars, extVars, to_main>>
    BY <1>11 DEF ExtHandles
  <2> QED  BY <1>1, <2>2, <2>3, ExtTailStep DEF SessionInv
<1>12. CASE LinkLoses
  <2>1. UNCHANGED <<mainVars, extVars, misrouted>>
    BY <1>12 DEF LinkLoses
  <2>2. \/ to_main # <<>> /\ to_main' = Tail(to_main) /\ UNCHANGED to_ext
        \/ to_ext # <<>> /\ to_ext' = Tail(to_ext) /\ UNCHANGED to_main
    BY <1>12 DEF LinkLoses
  <2> QED  BY <1>1, <1>2, <2>1, <2>2, MainTailStep, ExtTailStep DEF SessionInv
<1>13. CASE ExtRestarts
  <2>1. /\ boots' = boots + 1 /\ to_main' \in {to_main, <<>>} /\ to_ext' = to_ext
        /\ fw_version' \in 1 .. MaxFw /\ UNCHANGED <<mainVars, misrouted>>
    BY <1>13 DEF ExtRestarts
  <2>2. ~own' /\ logged_in' \in BOOLEAN /\ own' \in BOOLEAN
    BY <1>13, Zenon DEF ExtRestarts
  <2>3. LoginsInv' /\ AnswersInv' /\ GrantedInv'
    BY <2>1, <2>2, RestartStep
  <2>4. BoardInv'
    BY <1>2, <2>1, <2>2 DEF BoardInv, mainVars
  <2>5. QueueInv'
    <3>1. to_main' \in Seq(Messages) /\ Coded(to_main')
      BY <1>2, <2>1, CodedEmpty, Zenon DEF QueueInv
    <3> QED  BY <1>2, <2>1, <3>1 DEF QueueInv, Coded
  <2> QED  BY <1>1, <1>2, <2>1, <2>3, <2>4, <2>5 DEF SessionInv
<1>14. CASE MainRestarts
  <2>1. /\ boots' = boots + 1 /\ to_ext' \in {to_ext, <<>>} /\ to_main' = to_main
        /\ status' = 0 /\ clients_fw_version' = 0 /\ UNCHANGED <<fw_version, logged_in, misrouted>>
    BY <1>14 DEF MainRestarts
  <2>2. ~own' /\ own' \in BOOLEAN
    BY <1>14, Zenon DEF MainRestarts
  <2>3. LoginsInv' /\ AnswersInv' /\ GrantedInv'
    BY <2>1, <2>2, RestartStep
  <2>4. BoardInv'
    BY <1>2, <2>1, <2>2, SessionBoundsAssumption DEF BoardInv
  <2>5. QueueInv'
    <3>1. to_ext' \in Seq(Messages) /\ Coded(to_ext')
      BY <1>2, <2>1, CodedEmpty, Zenon DEF QueueInv
    <3> QED  BY <1>2, <2>1, <3>1 DEF QueueInv, Coded
  <2> QED  BY <1>1, <1>2, <2>1, <2>3, <2>4, <2>5 DEF SessionInv
<1>15. CASE Tick
  BY <1>3, <1>15 DEF Tick
<1>16. CASE UNCHANGED vars
  BY <1>3, <1>16 DEF vars
<1> QED
  BY <1>4, <1>5, <1>6, <1>7, <1>8, <1>9, <1>10, <1>11, <1>12, <1>13, <1>14, <1>15, <1>16
     DEF Next, MainStep, ExtStep

-----------------------------------------------------------------------------
(***************************************************************************)
(* Theorems.                                                               *)
(***************************************************************************)

\* What the invariant says of the clock, in the form of TypeOK.
LEMMA SessionTypes == SessionInv => TypeOK
<1> SUFFICES ASSUME SessionInv PROVE TypeOK
  OBVIOUS
<1>1. TicksPerSecond \in Nat \ {0} /\ since \in Nat /\ since * TicksPerSecond \in Nat
  BY WindowAssumption, TimesFacts DEF SessionInv, ClockInv
<1>2. Window * TicksPerSecond \in Nat
  BY WindowAssumption, TimesFacts
<1>3. elapsed <= Window * TicksPerSecond =>
          /\ since * TicksPerSecond < elapsed + TicksPerSecond
          /\ elapsed < since * TicksPerSecond + TicksPerSecond
  BY <1>1, <1>2 DEF SessionInv, ClockInv, Ticks
<1> QED  BY <1>3 DEF TypeOK, SessionInv, ClockInv, BoardInv, QueueInv, Ticks

\* A difference of more than Window in the whole seconds is one in real time.
LEMMA ThrottleSound == SessionInv /\ AcceptLogin /\ status = 1 => elapsed > Window * TicksPerSecond
<1> SUFFICES ASSUME SessionInv, AcceptLogin, status = 1, elapsed <= Ticks(Window) PROVE FALSE
  BY WindowAssumption, TimesFacts DEF SessionInv, ClockInv, Ticks
<1> USE WindowAssumption, TimesFacts
<1>1. since \in Nat /\ Ticks(since) \in Nat /\ Ticks(Window) \in Nat
  BY DEF SessionInv, ClockInv, Ticks
<1>2. Window + 1 <= since
  BY <1>1 DEF AcceptLogin, Allowed
<1>3. Ticks(Window) + TicksPerSecond <= Ticks(since)
  BY <1>1, <1>2 DEF Ticks
<1> QED  BY <1>1, <1>3 DEF SessionInv, ClockInv

\* Types, and the difference of the whole seconds is less than a second away from the
\* time that has passed since the last login.
THEOREM SessionTypeCorrect == Spec => []TypeOK
  BY SessionInit, SessionStep, SessionTypes, PTL DEF Spec

\* depth_deal_login accepts no two logins within the window, whatever the resolution of
\* the clock and the moment of the first login within its second.
THEOREM LoginThrottled == Spec => OncePerWindow
<1>1. SessionInv /\ [Next]_vars => [AcceptLogin /\ status = 1 => elapsed > Window * TicksPerSecond]_vars
  BY ThrottleSound
<1> QED  BY <1>1, SessionInit, SessionStep, PTL DEF Spec, OncePerWindow

\* app_proto_process gives every message of either board to the function that its
\* sender means.
THEOREM RightDispatch == Spec => []RightHandler
<1>1. SessionInv => RightHandler
  BY DEF SessionInv, RightHandler
<1> QED  BY <1>1, SessionInit, SessionStep, PTL DEF Spec

\* Losses, refused attempts and any number of restarts of either board leave the boards
\* agreed on the firmware of a board that was granted its own login.
THEOREM BoardsAgree == Spec => []KnownToMain
<1>1. SessionInv => KnownToMain
  BY DEF SessionInv, GrantedInv, Granted, KnownToMain
<1> QED  BY <1>1, SessionInit, SessionStep, PTL DEF Spec
=============================================================================
