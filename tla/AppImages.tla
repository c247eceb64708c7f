----------------------------- MODULE AppImages ------------------------------
(***************************************************************************)
(* The images of blf.xml in app/app_proto.c.  When the extension board has *)
(* received a new blf.xml it looks for the images the file names, touches  *)
(* those it has, asks the main board for the others and counts them in     *)
(* blf_files_num; then it deletes every file of the image directory that   *)
(* is older than blf.xml.  Each image arrives in several messages, is      *)
(* collected in <image>.sw and put in place at the end; when the counter   *)
(* gets to 0 the GUI is started.                                           *)
(*                                                                         *)
(* The main board answers requests in its event thread while the GUI       *)
(* thread may send another blf.xml (app_send_blf), so that the messages of *)
(* a list and of an image mix.  The link may drop messages.  blf.xml is    *)
(* the set of images it names; AppFiles has the transfer of its blocks.    *)
(***************************************************************************)
EXTENDS Integers, Sequences, FiniteSets

CONSTANTS
    Images,        \* names of images
    MainImages,    \* those the main board has
    Chunks,        \* messages with content per image
    MaxPushes,     \* bound on the lists sent
    MaxLosses,     \* bound on the losses of the link
    MaxTime,       \* bound on the clock
    MaxQueue       \* bound on the messages queued in one direction

ASSUME ImagesAssumption == MainImages \subseteq Images /\ IsFiniteSet(Images) /\ "" \notin Images
ASSUME ChunksAssumption == Chunks \in Nat \ {0}
ASSUME ImageBoundsAssumption == {MaxPushes, MaxLosses, MaxTime, MaxQueue} \subseteq Nat

VARIABLES
    now,              \* time() on the extension board, in seconds
    have, sw,         \* modification times of <image> and <image>.sw, None if
                      \* there is no such file
    listed,           \* the images blf.xml names
    blf_sw,           \* blf.xml.sw: the list in it and its modification time
    blf_files_num, files_absence, init_flag,
    shown,            \* the list the GUI was last started with
    requests,         \* requests on their way to the main board
    image_job,        \* handle_req_image: the image and the messages sent of it
    blf_job,          \* handle_req_blf in the GUI thread: the list and the messages sent
    list_rx,          \* messages on their way to the extension board
    pushes, losses,
    lost              \* images counted in blf_files_num that will not be
                      \* counted off: history, for the properties

extVars == <<have, sw, listed, blf_sw, blf_files_num, files_absence, init_flag, shown>>
mainVars == <<image_job, blf_job, pushes>>
vars == <<now, extVars, mainVars, requests, list_rx, losses, lost>>

None == -1
NoList == {}
NoImage == [image |-> "", sent |-> 0]
NoBlf == [list |-> NoList, sent |-> None]

Init ==
    /\ now = 0
    /\ have = [i \in Images |-> None] /\ sw = [i \in Images |-> None]
    /\ listed = NoList /\ blf_sw = [list |-> NoList, mtime |-> None]
    /\ blf_files_num = 0 /\ files_absence = 0 /\ init_flag = -1
    /\ shown = NoList
    /\ requests = <<>> /\ list_rx = <<>>
    /\ image_job = NoImage /\ blf_job = NoBlf
    /\ pushes = 0 /\ losses = 0 /\ lost = 0

Tick ==
    /\ now < MaxTime
    /\ now' = now + 1
    /\ UNCHANGED <<extVars, mainVars, requests, list_rx, losses, lost>>

Message(kind, flag, image, list) ==
    [kind |-> kind, flag |-> flag, image |-> image, list |-> list]

-----------------------------------------------------------------------------
(***************************************************************************)
(* The main board.                                                         *)
(***************************************************************************)

\* app_send_blf, called by the GUI; the list has been edited before.
PushBlf(list) ==
    /\ blf_job = NoBlf /\ pushes < MaxPushes
    /\ blf_job' = [list |-> list, sent |-> 0]
    /\ pushes' = pushes + 1
    /\ UNCHANGED <<now, extVars, image_job, requests, list_rx, losses, lost>>

\* The two link_sends of handle_req_blf for a list that fits into one message.
SendBlf ==
    /\ blf_job # NoBlf /\ Len(list_rx) < MaxQueue
    /\ list_rx' = Append(list_rx,
           Message("blf", IF blf_job.sent = 0 THEN "start" ELSE "end", "", blf_job.list))
    /\ blf_job' = IF blf_job.sent = 0 THEN [blf_job EXCEPT !.sent = 1] ELSE NoBlf
    /\ UNCHANGED <<now, extVars, image_job, pushes, requests, losses, lost>>

\* handle_req_image: if the image cannot be opened nothing is answered.
AnswerRequest ==
    /\ requests # <<>> /\ image_job = NoImage
    /\ requests' = Tail(requests)
    /\ IF Head(requests) \in MainImages
       THEN image_job' = [image |-> Head(requests), sent |-> 0] /\ lost' = lost
       ELSE UNCHANGED image_job /\ lost' = lost + 1
    /\ UNCHANGED <<now, extVars, blf_job, pushes, list_rx, losses>>

WrongFlag(n) == IF n = 0 THEN "start" ELSE IF n <= Chunks THEN "continue" ELSE "end"

Flag(n) == IF n = 0 THEN "start" ELSE IF n < Chunks THEN "continue" ELSE "end"

SendImage ==
    /\ image_job # NoImage /\ Len(list_rx) < MaxQueue
    /\ LET flag == Flag(image_job.sent)
       IN  /\ list_rx' = Append(list_rx, Message("image", flag, image_job.image, NoList))
           /\ image_job' = IF flag = "end" THEN NoImage ELSE [image_job EXCEPT !.sent = @ + 1]
    /\ UNCHANGED <<now, extVars, blf_job, pushes, requests, losses, lost>>

-----------------------------------------------------------------------------
(***************************************************************************)
(* The link drops a message that was cancelled, or all that are queued.    *)
(***************************************************************************)

Ends(s) == {i \in DOMAIN s : s[i].kind = "image" /\ s[i].flag = "end"}

Lose == losses < MaxLosses /\ losses' = losses + 1

LoseRequests ==
    /\ requests # <<>> /\ Lose
    /\ \E n \in {1, Len(requests)} :
           /\ requests' = SubSeq(requests, n + 1, Len(requests))
           /\ lost' = lost + n
    /\ UNCHANGED <<now, extVars, mainVars, list_rx>>

LoseMessages ==
    /\ list_rx # <<>> /\ Lose
    /\ \E n \in {1, Len(list_rx)} :
           /\ list_rx' = SubSeq(list_rx, n + 1, Len(list_rx))
           /\ lost' = lost + Cardinality(Ends(SubSeq(list_rx, 1, n)))
    /\ UNCHANGED <<now, extVars, mainVars, requests>>

-----------------------------------------------------------------------------
(***************************************************************************)
(* The extension board.                                                    *)
(***************************************************************************)

Msg == Head(list_rx)

Handling(kind, flag) ==
    /\ list_rx # <<>> /\ Msg.kind = kind /\ Msg.flag = flag
    /\ list_rx' = Tail(list_rx)
    /\ UNCHANGED <<now, mainVars, losses>>

HandleBlfStart ==
    /\ Handling("blf", "start")
    /\ blf_sw' = [list |-> Msg.list, mtime |-> now]
    /\ UNCHANGED <<have, sw, listed, blf_files_num, files_absence, init_flag, shown,
                   requests, lost>>

\* images_check_and_update: utime() for the images that are there.
Touched(list) == [i \in Images |-> IF i \in list /\ have[i] # None THEN now ELSE have[i]]

Missing(list) == {i \in list : have[i] = None}

\* What the comment on delete_older_files says: files whose time is later.
WrongKept(times, mtime) == [i \in Images |-> IF times[i] > mtime THEN None ELSE times[i]]

\* delete_older_files: what is older than blf.xml, finished or not.
Kept(times, mtime) == [i \in Images |-> IF times[i] < mtime THEN None ELSE times[i]]

\* The images of a set, in the order in which blf.xml may name them.
Orders(set) == {s \in [1 .. Cardinality(set) -> set] : \A i \in set : \E n \in DOMAIN s : s[n] = i}

\* unlink(blf.xml) and rename(blf.xml.sw, blf.xml) of handle_ack_req_blf, with
\* images_check_and_update and delete_older_files behind it.
HandleBlfEnd ==
    /\ Handling("blf", "end")
    /\ blf_sw.mtime # None
    /\ LET list == blf_sw.list
           missing == Missing(list)
       IN  /\ listed' = list
           /\ blf_files_num' = blf_files_num + Cardinality(missing)
           /\ files_absence' = files_absence + (IF init_flag < 0 THEN Cardinality(missing) ELSE 0)
           /\ \E order \in Orders(missing) : requests' = requests \o order
           /\ shown' = IF blf_files_num' = 0 THEN list ELSE shown
           /\ have' = Kept(Touched(list), blf_sw.mtime)
           /\ sw' = Kept(sw, blf_sw.mtime)
    /\ blf_sw' = [list |-> NoList, mtime |-> None]
    /\ UNCHANGED <<init_flag, lost>>

\* The same without blf.xml.sw: the rename fails and the old blf.xml is gone.
HandleBlfEndFails ==
    /\ Handling("blf", "end")
    /\ blf_sw.mtime = None
    /\ listed' = NoList
    /\ UNCHANGED <<have, sw, blf_sw, blf_files_num, files_absence, init_flag, shown, requests, lost>>

HandleImageStart ==
    /\ Handling("image", "start")
    /\ sw' = [sw EXCEPT ![Msg.image] = now]
    /\ UNCHANGED <<have, listed, blf_sw, blf_files_num, files_absence, init_flag, shown,
                   requests, lost>>

HandleImageContinue ==
    /\ Handling("image", "continue")
    /\ sw' = [sw EXCEPT ![Msg.image] = IF @ = None THEN None ELSE now]
    /\ UNCHANGED <<have, listed, blf_sw, blf_files_num, files_absence, init_flag, shown,
                   requests, lost>>

\* core_gui_start_gui when no image is missing any more.
WrongShown(num) == shown

Shown(num) == IF num = 0 THEN listed ELSE shown

HandleImageEnd ==
    /\ Handling("image", "end")
    /\ sw[Msg.image] # None
    /\ have' = [have EXCEPT ![Msg.image] = sw[Msg.image]]
    /\ sw' = [sw EXCEPT ![Msg.image] = None]
    /\ IF init_flag < 0
       THEN /\ files_absence' = files_absence - 1
            /\ init_flag' = IF files_absence' = 0 THEN 1 ELSE init_flag
       ELSE UNCHANGED <<files_absence, init_flag>>
    /\ blf_files_num' = blf_files_num - 1
    /\ shown' = Shown(blf_files_num')
    /\ UNCHANGED <<listed, blf_sw, requests, lost>>

\* The rename fails: the image is not there, an older one is gone, and the
\* counters are left as they are.
WrongCountAfterFailure == blf_files_num - 1

CountAfterFailure == blf_files_num

HandleImageEndFails ==
    /\ Handling("image", "end")
    /\ sw[Msg.image] = None
    /\ have' = [have EXCEPT ![Msg.image] = None]
    /\ blf_files_num' = CountAfterFailure
    /\ lost' = lost + 1
    /\ UNCHANGED <<sw, listed, blf_sw, files_absence, init_flag, shown, requests>>

ExtStep == \/ HandleBlfStart \/ HandleBlfEnd \/ HandleBlfEndFails
           \/ HandleImageStart \/ HandleImageContinue
           \/ HandleImageEnd \/ HandleImageEndFails

Next == \/ Tick
        \/ \E list \in SUBSET Images : PushBlf(list)
        \/ SendBlf \/ AnswerRequest \/ SendImage
        \/ LoseRequests \/ LoseMessages
        \/ ExtStep

Spec == Init /\ [][Next]_vars

\* The event threads of both boards run for ever, and the GUI thread ends the
\* push it has begun.
FairSpec == /\ Spec
            /\ WF_vars(SendBlf) /\ WF_vars(AnswerRequest) /\ WF_vars(SendImage)
            /\ WF_vars(ExtStep)

-----------------------------------------------------------------------------
Times == None .. MaxTime

\* Types; the image being sent is one the main board has, and none of its messages
\* is sent behind the last.
TypeOK ==
    /\ now \in 0 .. MaxTime
    /\ have \in [Images -> Times] /\ sw \in [Images -> Times]
    /\ listed \in SUBSET Images /\ shown \in SUBSET Images
    /\ blf_sw \in [list : SUBSET Images, mtime : Times]
    /\ blf_files_num \in Nat /\ files_absence \in Nat /\ init_flag \in {-1, 1}
    /\ requests \in Seq(Images)
    /\ image_job = NoImage \/ image_job \in [image : MainImages, sent : 0 .. Chunks]
    /\ blf_job = NoBlf \/ blf_job \in [list : SUBSET Images, sent : {0, 1}]

Waiting == Len(requests) + (IF image_job = NoImage THEN 0 ELSE 1) + Cardinality(Ends(list_rx))

\* blf_files_num is the number of images that are still to come or never will:
\* a list that arrives while the images of an earlier one are on their way, an
\* image asked for twice or an end without its start make it neither too small,
\* which would start the GUI early, nor negative.  Until the first complete set
\* files_absence agrees with it.
CountExact ==
    /\ blf_files_num = Waiting + lost
    /\ init_flag < 0 => files_absence = blf_files_num

\* Whenever the counter is 0, which is when core_gui_start_gui is called, every
\* image blf.xml names is there.
CountCovers == blf_files_num = 0 => \A i \in listed : have[i] # None

\* delete_older_files never deletes an image that the new blf.xml names: utime in
\* images_check_and_update has made it no older than the file, and only what is
\* older goes, not what is later, as the comment on delete_older_files has it.
ListedKept ==
    [][HandleBlfEnd => \A i \in listed' : have[i] # None => have'[i] # None]_vars

\* Unless an image got lost on the way, was not on the main board, or had its .sw
\* deleted by delete_older_files while it was being collected, the GUI is in the end
\* started with the images of the blf.xml that is in place.
EventuallyShown == <>[](lost = 0 /\ listed # NoList => shown = listed)
=============================================================================
