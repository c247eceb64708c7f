-------------------------- MODULE AppImagesProofs ---------------------------
(***************************************************************************)
(* Theorems about AppImages, for any images, any number of messages per    *)
(* image, any number of lists and losses and any queue.  The counter       *)
(* blf_files_num is compared with a sum over three places where a request  *)
(* can be: among the requests, in the hands of handle_req_image, or as the *)
(* end of an image on its way back.  What is missing of blf.xml is in one  *)
(* of them unless something was lost.                                      *)
(***************************************************************************)
EXTENDS AppImages, FiniteSetTheorems, SequenceTheorems, TLAPS

Flags == {"start", "continue", "end"}
Messages ==
    {m \in [kind : {"blf", "image"}, flag : Flags, image : Images \union {""}, list : SUBSET Images] :
        m.kind = "image" => m.image \in Images}

\* Images are only sent of images, and blf.xml.sw is not from the future.
RxInv == /\ list_rx \in Seq(Messages)
         /\ lost \in Nat /\ pushes \in Nat /\ losses \in Nat
         /\ blf_sw.mtime <= now

\* An image is asked for, being sent, or its end is on the way.
OnTheWay(i) == \/ \E k \in DOMAIN requests : requests[k] = i
               \/ image_job # NoImage /\ image_job.image = i
               \/ \E k \in Ends(list_rx) : list_rx[k].image = i

Covered == lost = 0 => \A i \in listed : have[i] = None => OnTheWay(i)

ImageInv == TypeOK /\ RxInv /\ CountExact /\ Covered

IsEnd(m) == m.kind = "image" /\ m.flag = "end"

-----------------------------------------------------------------------------
\* The ends among the messages of a queue can be counted.
LEMMA EndsFinite ==
    ASSUME NEW s \in Seq(Messages)
    PROVE  /\ Ends(s) = {k \in 1 .. Len(s) : IsEnd(s[k])}
           /\ IsFiniteSet(Ends(s)) /\ Cardinality(Ends(s)) \in Nat
<1>1. DOMAIN s = 1 .. Len(s) /\ 1 \in Int /\ Len(s) \in Int
  OBVIOUS
<1>2. Ends(s) = {k \in 1 .. Len(s) : IsEnd(s[k])}
  BY <1>1 DEF Ends, IsEnd
<1>3. IsFiniteSet(1 .. Len(s))
  BY <1>1, FS_Interval
<1>4. Ends(s) \in SUBSET (1 .. Len(s))
  BY <1>2
<1>5. IsFiniteSet(Ends(s))
  BY <1>3, <1>4, FS_Subset
<1> QED BY <1>2, <1>5, FS_CardinalityType

\* A message more.
LEMMA EndsAppend ==
    ASSUME NEW s \in Seq(Messages), NEW m \in Messages
    PROVE  /\ Append(s, m) \in Seq(Messages)
           /\ Cardinality(Ends(Append(s, m))) = Cardinality(Ends(s)) + (IF IsEnd(m) THEN 1 ELSE 0)
           /\ \A k \in Ends(s) : k \in Ends(Append(s, m)) /\ Append(s, m)[k] = s[k]
           /\ IsEnd(m) => \E k \in Ends(Append(s, m)) : Append(s, m)[k] = m
<1>1. /\ Append(s, m) \in Seq(Messages) /\ Len(s) \in Nat
      /\ Len(Append(s, m)) = Len(s) + 1 /\ Append(s, m)[Len(s) + 1] = m
      /\ \A k \in 1 .. Len(s) : Append(s, m)[k] = s[k]
  OBVIOUS
<1>2. /\ Ends(s) = {k \in 1 .. Len(s) : IsEnd(s[k])}
      /\ Ends(Append(s, m)) = {k \in 1 .. Len(s) + 1 : IsEnd(Append(s, m)[k])}
      /\ IsFiniteSet(Ends(s)) /\ Cardinality(Ends(s)) \in Nat
  BY <1>1, EndsFinite
<1>3. CASE IsEnd(m)
  <2>1. Ends(Append(s, m)) = Ends(s) \union {Len(s) + 1} /\ Len(s) + 1 \notin Ends(s)
    BY <1>1, <1>2, <1>3
  <2>2. Cardinality(Ends(Append(s, m))) = Cardinality(Ends(s)) + 1
    BY <1>2, <2>1, FS_AddElement
  <2> QED BY <1>1, <1>2, <1>3, <2>1, <2>2
<1>4. CASE ~IsEnd(m)
  <2>1. Ends(Append(s, m)) = Ends(s)
    BY <1>1, <1>2, <1>4
  <2>2. Cardinality(Ends(s)) = Cardinality(Ends(s)) + 0
    BY <1>2
  <2>3. \A k \in Ends(s) : Append(s, m)[k] = s[k]
    BY <1>1, <1>2
  <2> QED BY <1>1, <1>4, <2>1, <2>2, <2>3, Zenon
<1> QED BY <1>3, <1>4

\* A queue cut in two: the ends of the two parts are the ends of the whole.
LEMMA EndsCut ==
    ASSUME NEW s \in Seq(Messages), NEW n \in 1 .. Len(s)
    PROVE  /\ SubSeq(s, 1, n) \in Seq(Messages) /\ SubSeq(s, n + 1, Len(s)) \in Seq(Messages)
           /\ Cardinality(Ends(s)) =
                  Cardinality(Ends(SubSeq(s, 1, n))) + Cardinality(Ends(SubSeq(s, n + 1, Len(s))))
           /\ \A k \in Ends(s) :
                  \/ k \in Ends(SubSeq(s, 1, n))
                  \/ \E l \in Ends(SubSeq(s, n + 1, Len(s))) : SubSeq(s, n + 1, Len(s))[l] = s[k]
<1> DEFINE front == SubSeq(s, 1, n)
           back  == SubSeq(s, n + 1, Len(s))
           A == Ends(front)
           B == Ends(back)
           C == {i + n : i \in B}
           shift == [i \in B |-> i + n]
<1>1. /\ front \in Seq(Messages) /\ back \in Seq(Messages)
      /\ Len(front) = n /\ Len(back) = Len(s) - n /\ Len(s) \in Nat
      /\ \A k \in 1 .. n : front[k] = s[k]
      /\ \A k \in 1 .. Len(s) - n : back[k] = s[k + n]
  OBVIOUS
<1> HIDE DEF front, back
<1>2. /\ Ends(s) = {k \in 1 .. Len(s) : IsEnd(s[k])}
      /\ A = {k \in 1 .. n : IsEnd(s[k])}
      /\ B = {k \in 1 .. Len(s) - n : IsEnd(s[k + n])}
      /\ IsFiniteSet(A) /\ IsFiniteSet(B) /\ Cardinality(A) \in Nat /\ Cardinality(B) \in Nat
  BY <1>1, EndsFinite
<1> HIDE DEF A, B
<1>3. ASSUME NEW k \in Ends(s) PROVE k \in A \/ (k - n \in B /\ k = (k - n) + n)
  BY <1>1, <1>2, <1>3
<1>4. Ends(s) = A \union C
  <2>1. \A i \in B : i + n \in Ends(s)
    BY <1>1, <1>2
  <2>2. \A i \in A : i \in Ends(s)
    BY <1>1, <1>2
  <2> QED BY <1>3, <2>1, <2>2
<1>5. A \cap C = {}
  BY <1>1, <1>2
<1>6. Cardinality(C) = Cardinality(B) /\ IsFiniteSet(C)
  <2>1. shift \in Bijection(B, C)
    <3>1. \A i \in B : i \in Int
      BY <1>2
    <3>2. \A i, j \in B : shift[i] = shift[j] => i = j
      BY <3>1
    <3> QED BY <3>2 DEF Bijection, Injection, Surjection, IsInjective
  <2>2. ExistsBijection(B, C)
    BY <2>1 DEF ExistsBijection
  <2> HIDE DEF C
  <2> QED BY <1>2, <2>2, FS_Bijection
<1> HIDE DEF C
<1>7. Cardinality(Ends(s)) = Cardinality(A) + Cardinality(B)
  <2>1. Cardinality(A \union C) = Cardinality(A) + Cardinality(C) - Cardinality(A \cap C)
    BY <1>2, <1>6, FS_Union
  <2>2. Cardinality(A \cap C) = 0
    BY <1>5, FS_EmptySet
  <2>3. \A x, y \in Nat : x + y - 0 = x + y
    OBVIOUS
  <2>4. Cardinality(Ends(s)) = Cardinality(A) + Cardinality(B) - 0
    BY <1>4, <1>6, <2>1, <2>2, Zenon
  <2> QED BY <1>2, <2>3, <2>4, Zenon
<1>8. ASSUME NEW k \in Ends(s) PROVE k \in A \/ \E l \in B : back[l] = s[k]
  BY <1>1, <1>2, <1>3, <1>8, SMTT(60)
<1> QED BY <1>1, <1>7, <1>8 DEF A, B, front, back

\* A message taken from the front.
LEMMA EndsTail ==
    ASSUME NEW s \in Seq(Messages), s # <<>>
    PROVE  /\ Tail(s) \in Seq(Messages) /\ Head(s) \in Messages
           /\ Cardinality(Ends(s)) = Cardinality(Ends(Tail(s))) + (IF IsEnd(Head(s)) THEN 1 ELSE 0)
           /\ \A k \in Ends(s) : \/ s[k] = Head(s) /\ IsEnd(Head(s))
                                 \/ \E l \in Ends(Tail(s)) : Tail(s)[l] = s[k]
<1>1. /\ Tail(s) = SubSeq(s, 1 + 1, Len(s)) /\ 1 \in 1 .. Len(s) /\ Head(s) = s[1]
      /\ Head(s) \in Messages /\ Tail(s) \in Seq(Messages)
  OBVIOUS
<1> DEFINE front == SubSeq(s, 1, 1)
<1>2. front \in Seq(Messages) /\ Len(front) = 1 /\ front[1] = s[1]
  BY <1>1
<1> HIDE DEF front
<1>3. /\ Cardinality(Ends(s)) = Cardinality(Ends(front)) + Cardinality(Ends(Tail(s)))
      /\ \A k \in Ends(s) : k \in Ends(front) \/ \E l \in Ends(Tail(s)) : Tail(s)[l] = s[k]
  <2>1. /\ Cardinality(Ends(s)) = Cardinality(Ends(SubSeq(s, 1, 1)))
                                    + Cardinality(Ends(SubSeq(s, 1 + 1, Len(s))))
        /\ \A k \in Ends(s) :
               \/ k \in Ends(SubSeq(s, 1, 1))
               \/ \E l \in Ends(SubSeq(s, 1 + 1, Len(s))) : SubSeq(s, 1 + 1, Len(s))[l] = s[k]
    BY <1>1, EndsCut, Zenon
  <2> QED BY <1>1, <2>1, Zenon DEF front
<1>4. Ends(front) = {k \in 1 .. 1 : IsEnd(front[k])}
  BY <1>2, EndsFinite
<1>5. Cardinality(Ends(Tail(s))) \in Nat
  BY <1>1, EndsFinite
<1>6. CASE IsEnd(Head(s))
  <2>1. Ends(front) = {1}
    BY <1>1, <1>2, <1>4, <1>6
  <2>2. Cardinality(Ends(front)) = 1
    BY <2>1, FS_Singleton
  <2>3. \A x \in Nat : 1 + x = x + 1
    OBVIOUS
  <2>4. Cardinality(Ends(s)) = Cardinality(Ends(Tail(s))) + 1
    BY <1>3, <1>5, <2>2, <2>3, Zenon
  <2>5. \A k \in Ends(s) : s[k] = Head(s) \/ \E l \in Ends(Tail(s)) : Tail(s)[l] = s[k]
    BY <1>1, <1>3, <2>1, Zenon
  <2> QED BY <1>1, <1>6, <2>4, <2>5, Zenon
<1>7. CASE ~IsEnd(Head(s))
  <2>1. Ends(front) = {}
    BY <1>1, <1>2, <1>4, <1>7
  <2>2. Cardinality(Ends(front)) = 0
    BY <2>1, FS_EmptySet
  <2>3. \A x \in Nat : 0 + x = x + 0
    OBVIOUS
  <2>4. Cardinality(Ends(s)) = Cardinality(Ends(Tail(s))) + 0
    BY <1>3, <1>5, <2>2, <2>3, Zenon
  <2>5. \A k \in Ends(s) : \E l \in Ends(Tail(s)) : Tail(s)[l] = s[k]
    BY <1>3, <2>1, Zenon
  <2> QED BY <1>1, <1>7, <2>4, <2>5, Zenon
<1> QED BY <1>6, <1>7

-----------------------------------------------------------------------------
\* An image being sent is not the mark for none.
LEMMA JobFacts ==
    ASSUME NEW job, job \in [image : MainImages, sent : 0 .. Chunks]
    PROVE  job # NoImage /\ job.image \in Images /\ job.sent \in Nat
<1>1. job.image \in MainImages
  OBVIOUS
<1>2. job.image \in Images /\ job.image # ""
  BY <1>1, ImagesAssumption
<1>4. job.sent \in 0 .. Chunks
  OBVIOUS
<1>5. job.sent \in Nat
  BY <1>4, ChunksAssumption
<1>3. NoImage.image = ""
  BY DEF NoImage
<1> QED BY <1>2, <1>3, <1>5

\* The message types of handle_req_blf and handle_req_image.
LEMMA MessageType ==
    /\ \A flag \in Flags, list \in SUBSET Images :
          Message("blf", flag, "", list) \in Messages /\ ~IsEnd(Message("blf", flag, "", list))
    /\ \A flag \in Flags, i \in Images :
          /\ Message("image", flag, i, NoList) \in Messages
          /\ IsEnd(Message("image", flag, i, NoList)) <=> flag = "end"
          /\ Message("image", flag, i, NoList).image = i
BY DEF Message, Messages, IsEnd, NoList

\* Nothing is listed and nothing is on the way.
LEMMA ImagesInit == Init => ImageInv
<1> SUFFICES ASSUME Init PROVE ImageInv
  OBVIOUS
<1> USE ImageBoundsAssumption
<1>1. TypeOK
  BY DEF TypeOK, Times, Init, NoList, None
<1>2. RxInv
  BY DEF RxInv, Init, None
<1>3. Cardinality(Ends(list_rx)) = 0
  <2>1. Ends(list_rx) = {}
    BY DEF Ends, Init
  <2> QED BY <2>1, FS_EmptySet
<1>4. CountExact
  <2>1. /\ Len(requests) = 0 /\ image_job = NoImage /\ lost = 0
        /\ blf_files_num = 0 /\ files_absence = 0
    BY DEF Init
  <2> QED BY <1>3, <2>1 DEF CountExact, Waiting
<1>5. Covered
  BY DEF Covered, Init, NoList
<1> QED BY <1>1, <1>2, <1>4, <1>5 DEF ImageInv

\* The clock, and a push before its first message.
LEMMA ImagesTick ==
    ASSUME ImageInv, Tick \/ \E list \in SUBSET Images : PushBlf(list) PROVE ImageInv'
<1> USE ImageBoundsAssumption DEF Tick, PushBlf, extVars, mainVars, ImageInv
<1>1. TypeOK'
  BY SMTT(60) DEF TypeOK, Times, None
<1>2. RxInv'
  <2>1. blf_sw.mtime \in Int /\ now \in Int /\ blf_sw.mtime <= now
    BY DEF RxInv, TypeOK, Times, None
  <2>2. blf_sw' = blf_sw /\ (now' = now \/ now' = now + 1)
    OBVIOUS
  <2>3. blf_sw'.mtime <= now'
    BY <2>1, <2>2
  <2> QED BY <2>3 DEF RxInv
<1>3. CountExact'
  BY DEF CountExact, Waiting
<1>4. Covered'
  BY DEF Covered, OnTheWay
<1> QED BY <1>1, <1>2, <1>3, <1>4

\* The messages of a list are not counted.
LEMMA ImagesSendBlf == ASSUME ImageInv, SendBlf PROVE ImageInv'
<1> USE DEF ImageInv
<1>1. PICK flag \in Flags, list \in SUBSET Images :
         list_rx' = Append(list_rx, Message("blf", flag, "", list))
  BY DEF SendBlf, Flags, TypeOK
<1>2. PICK m \in Messages : ~IsEnd(m) /\ list_rx' = Append(list_rx, m)
  BY <1>1, MessageType
<1>3. UNCHANGED <<now, extVars, image_job, pushes, requests, losses, lost>>
  BY DEF SendBlf
<1>4. /\ list_rx' \in Seq(Messages)
      /\ Cardinality(Ends(list_rx')) = Cardinality(Ends(list_rx)) + 0
      /\ \A k \in Ends(list_rx) : k \in Ends(list_rx') /\ list_rx'[k] = list_rx[k]
  BY <1>2, EndsAppend DEF RxInv
<1>5. Cardinality(Ends(list_rx)) \in Nat
  BY EndsFinite DEF RxInv
<1>6. TypeOK'
  <2>1. blf_job' = NoBlf \/ blf_job' \in [list : SUBSET Images, sent : {0, 1}]
    BY DEF SendBlf, TypeOK
  <2> QED BY <1>3, <2>1 DEF TypeOK, extVars
<1>7. RxInv'
  BY <1>3, <1>4 DEF RxInv, extVars
<1>8. CountExact'
  BY <1>3, <1>4, <1>5 DEF CountExact, Waiting, extVars
<1>9. Covered'
  BY <1>3, <1>4 DEF Covered, OnTheWay, extVars
<1> QED BY <1>6, <1>7, <1>8, <1>9

\* A request becomes an image being sent, or is not answered and lost.
LEMMA ImagesAnswer == ASSUME ImageInv, AnswerRequest PROVE ImageInv'
<1> USE DEF ImageInv
<1>1. /\ requests \in Seq(Images) /\ requests # <<>> /\ requests' = Tail(requests)
      /\ image_job = NoImage /\ UNCHANGED <<now, extVars, blf_job, pushes, list_rx, losses>>
  BY DEF AnswerRequest, TypeOK
<1>2. /\ Tail(requests) \in Seq(Images) /\ Len(Tail(requests)) = Len(requests) - 1
      /\ Len(requests) \in Nat /\ Head(requests) = requests[1]
      /\ \A k \in DOMAIN requests : k = 1 \/ (k - 1 \in DOMAIN Tail(requests)
                                              /\ Tail(requests)[k - 1] = requests[k])
  BY <1>1
<1>3. PICK e : e = Cardinality(Ends(list_rx)) /\ e \in Nat
  BY EndsFinite DEF RxInv
<1>4. lost \in Nat /\ blf_files_num = Len(requests) + e + lost
  BY <1>1, <1>2, <1>3 DEF CountExact, Waiting, RxInv
<1>5. CASE Head(requests) \in MainImages
  <2>1. PICK job : job = [image |-> Head(requests), sent |-> 0]
    OBVIOUS
  <2>2. /\ image_job' = job /\ lost' = lost
        /\ job \in [image : MainImages, sent : 0 .. Chunks] /\ job.image = Head(requests)
    BY <1>5, <2>1, ChunksAssumption DEF AnswerRequest
  <2>3. job # NoImage
    BY <2>2, JobFacts
  <2>4. TypeOK'
    BY <1>1, <1>2, <2>2 DEF TypeOK, extVars
  <2>5. RxInv'
    BY <1>1, <2>2 DEF RxInv, extVars
  <2>6. CountExact'
    BY <1>1, <1>2, <1>3, <1>4, <2>2, <2>3 DEF CountExact, Waiting, extVars
  <2>7. ASSUME NEW i, OnTheWay(i) PROVE OnTheWay(i)'
    <3>1. CASE \E k \in DOMAIN requests : requests[k] = i
      BY <1>1, <1>2, <2>2, <2>3, <3>1 DEF OnTheWay
    <3>2. CASE \E k \in Ends(list_rx) : list_rx[k].image = i
      BY <1>1, <3>2 DEF OnTheWay
    <3> QED BY <1>1, <2>7, <3>1, <3>2 DEF OnTheWay
  <2>8. Covered'
    BY <1>1, <2>2, <2>7 DEF Covered, extVars
  <2> QED BY <2>4, <2>5, <2>6, <2>8
<1>6. CASE Head(requests) \notin MainImages
  <2>1. image_job' = image_job /\ lost' = lost + 1
    BY <1>6 DEF AnswerRequest
  <2>2. TypeOK'
    BY <1>1, <1>2, <2>1 DEF TypeOK, extVars
  <2>3. RxInv'
    BY <1>1, <2>1 DEF RxInv, extVars
  <2>4. CountExact'
    BY <1>1, <1>2, <1>3, <1>4, <2>1 DEF CountExact, Waiting, extVars
  <2>5. Covered'
    BY <1>4, <2>1 DEF Covered
  <2> QED BY <2>2, <2>3, <2>4, <2>5
<1> QED BY <1>5, <1>6

\* The last message of an image takes the place of the image being sent.
LEMMA ImagesSend == ASSUME ImageInv, SendImage PROVE ImageInv'
<1> USE DEF ImageInv
<1>1. /\ image_job \in [image : MainImages, sent : 0 .. Chunks] /\ image_job # NoImage
      /\ UNCHANGED <<now, extVars, blf_job, pushes, requests, losses, lost>>
  BY DEF SendImage, TypeOK
<1>2. PICK flag : flag = Flag(image_job.sent)
  OBVIOUS
<1>3. flag \in Flags /\ image_job.image \in Images /\ image_job.sent \in Nat
  BY <1>1, <1>2, JobFacts DEF Flag, Flags
<1>4. PICK m : m = Message("image", flag, image_job.image, NoList)
  OBVIOUS
<1>5. m \in Messages /\ (IsEnd(m) <=> flag = "end") /\ m.image = image_job.image
  BY <1>3, <1>4, MessageType
<1>6. /\ list_rx' = Append(list_rx, m)
      /\ image_job' = IF flag = "end" THEN NoImage ELSE [image_job EXCEPT !.sent = @ + 1]
  BY <1>2, <1>4 DEF SendImage
<1>7. /\ list_rx' \in Seq(Messages)
      /\ Cardinality(Ends(list_rx')) = Cardinality(Ends(list_rx)) + (IF IsEnd(m) THEN 1 ELSE 0)
      /\ \A k \in Ends(list_rx) : k \in Ends(list_rx') /\ list_rx'[k] = list_rx[k]
      /\ IsEnd(m) => \E k \in Ends(list_rx') : list_rx'[k] = m
  BY <1>5, <1>6, EndsAppend DEF RxInv
<1>8. PICK e : e = Cardinality(Ends(list_rx)) /\ e \in Nat
  BY EndsFinite DEF RxInv
<1>9. Len(requests) \in Nat /\ lost \in Nat /\ blf_files_num = Len(requests) + 1 + e + lost
  BY <1>1, <1>8 DEF CountExact, Waiting, RxInv, TypeOK
<1>10. RxInv'
  BY <1>1, <1>7 DEF RxInv, extVars
<1>11. CASE flag = "end"
  <2>1. image_job' = NoImage /\ Cardinality(Ends(list_rx')) = e + 1
    BY <1>5, <1>6, <1>7, <1>8, <1>11
  <2>2. TypeOK'
    BY <1>1, <2>1 DEF TypeOK, extVars
  <2>3. CountExact'
    BY <1>1, <1>8, <1>9, <2>1 DEF CountExact, Waiting, extVars
  <2>4. Covered'
    BY <1>1, <1>5, <1>7, <1>11, <2>1 DEF Covered, OnTheWay, extVars
  <2> QED BY <1>10, <2>2, <2>3, <2>4
<1>12. CASE flag # "end"
  <2>1. PICK job : job = [image_job EXCEPT !.sent = @ + 1]
    OBVIOUS
  <2>2. image_job' = job /\ Cardinality(Ends(list_rx')) = e
    BY <1>5, <1>6, <1>7, <1>8, <1>12, <2>1
  <2>3. job \in [image : MainImages, sent : 0 .. Chunks] /\ job.image = image_job.image
    BY <1>1, <1>2, <1>12, <2>1, ChunksAssumption DEF Flag
  <2>4. job # NoImage
    BY <2>3, JobFacts
  <2>5. TypeOK'
    BY <1>1, <2>2, <2>3 DEF TypeOK, extVars
  <2>6. CountExact'
    BY <1>1, <1>8, <1>9, <2>2, <2>4 DEF CountExact, Waiting, extVars
  <2>7. Covered'
    BY <1>1, <1>7, <2>2, <2>3, <2>4 DEF Covered, OnTheWay, extVars
  <2> QED BY <1>10, <2>5, <2>6, <2>7
<1> QED BY <1>11, <1>12

\* Requests that the link drops are counted as lost.
LEMMA ImagesLoseRequests == ASSUME ImageInv, LoseRequests PROVE ImageInv'
<1> USE DEF ImageInv
<1>1. PICK n \in {1, Len(requests)} :
         /\ requests' = SubSeq(requests, n + 1, Len(requests)) /\ lost' = lost + n
  BY DEF LoseRequests
<1>2. requests \in Seq(Images) /\ requests # <<>> /\ n \in 1 .. Len(requests) /\ Len(requests) \in Nat
  BY DEF LoseRequests, TypeOK
<1>3. requests' \in Seq(Images) /\ Len(requests') = Len(requests) - n
  BY <1>1, <1>2
<1>4. UNCHANGED <<now, extVars, mainVars, list_rx>> /\ losses' = losses + 1
  BY DEF LoseRequests, Lose
<1>5. PICK e : e = Cardinality(Ends(list_rx)) /\ e \in Nat
  BY EndsFinite DEF RxInv
<1>6. TypeOK'
  BY <1>3, <1>4 DEF TypeOK, extVars, mainVars
<1>7. RxInv'
  BY <1>1, <1>2, <1>4 DEF RxInv, extVars, mainVars
<1>8. CountExact'
  <2>1. lost \in Nat /\ blf_files_num = Len(requests) + (IF image_job = NoImage THEN 0 ELSE 1) + e + lost
    BY <1>5 DEF RxInv, CountExact, Waiting
  <2>2. /\ UNCHANGED <<image_job, list_rx, blf_files_num, files_absence, init_flag>>
        /\ lost' = lost + n /\ n \in Nat /\ Len(requests') = Len(requests) - n
    BY <1>1, <1>2, <1>3, <1>4 DEF extVars, mainVars
  <2>3. blf_files_num' = Len(requests') + (IF image_job' = NoImage THEN 0 ELSE 1) + e + lost'
    BY <1>2, <1>5, <2>1, <2>2
  <2> QED BY <1>5, <2>2, <2>3 DEF CountExact, Waiting
<1>9. Covered'
  BY <1>1, <1>2 DEF Covered, RxInv
<1> QED BY <1>6, <1>7, <1>8, <1>9

\* So are the ends among the messages it drops.
LEMMA ImagesLoseMessages == ASSUME ImageInv, LoseMessages PROVE ImageInv'
<1> USE DEF ImageInv
<1>1. PICK n \in {1, Len(list_rx)} :
         /\ list_rx' = SubSeq(list_rx, n + 1, Len(list_rx))
         /\ lost' = lost + Cardinality(Ends(SubSeq(list_rx, 1, n)))
  BY DEF LoseMessages
<1>2. list_rx \in Seq(Messages) /\ n \in 1 .. Len(list_rx)
  BY DEF LoseMessages, RxInv
<1>3. UNCHANGED <<now, extVars, mainVars, requests>> /\ losses' = losses + 1
  BY DEF LoseMessages, Lose
<1>4. PICK front : front = SubSeq(list_rx, 1, n)
  OBVIOUS
<1>5. /\ front \in Seq(Messages) /\ list_rx' \in Seq(Messages)
      /\ Cardinality(Ends(list_rx)) = Cardinality(Ends(front)) + Cardinality(Ends(list_rx'))
      /\ \A k \in Ends(list_rx) :
             k \in Ends(front) \/ \E l \in Ends(list_rx') : list_rx'[l] = list_rx[k]
  BY <1>1, <1>2, <1>4, EndsCut, Zenon
<1>6. PICK d : d = Cardinality(Ends(front)) /\ d \in Nat
  BY <1>5, EndsFinite
<1>7. PICK e : e = Cardinality(Ends(list_rx')) /\ e \in Nat
  BY <1>5, EndsFinite
<1>8. lost' = lost + d /\ Cardinality(Ends(list_rx)) = d + e
  BY <1>1, <1>4, <1>5, <1>6, <1>7
<1>9. TypeOK'
  BY <1>3 DEF TypeOK, extVars, mainVars
<1>10. RxInv'
  BY <1>3, <1>5, <1>6, <1>8 DEF RxInv, extVars, mainVars
<1>11. CountExact'
  <2>1. Len(requests) \in Nat /\ lost \in Nat
    BY DEF TypeOK, RxInv
  <2> QED BY <1>3, <1>6, <1>7, <1>8, <2>1 DEF CountExact, Waiting, extVars, mainVars
<1>12. Covered'
  <2>1. CASE d = 0
    <3>1. Ends(front) = {}
      BY <1>5, <1>6, <2>1, EndsFinite, FS_EmptySet
    <3>2. \A k \in Ends(list_rx) : \E l \in Ends(list_rx') : list_rx'[l] = list_rx[k]
      BY <1>5, <3>1, Zenon
    <3>3. lost' = lost
      BY <1>8, <2>1 DEF RxInv
    <3> QED BY <1>3, <3>2, <3>3 DEF Covered, OnTheWay, extVars, mainVars
  <2>2. CASE d # 0
    BY <1>6, <1>8, <2>2 DEF Covered, RxInv
  <2> QED BY <2>1, <2>2
<1> QED BY <1>9, <1>10, <1>11, <1>12

-----------------------------------------------------------------------------
\* What every handler of the extension board does to the queue.
LEMMA HandlingFacts ==
    ASSUME ImageInv, NEW kind, NEW flag, Handling(kind, flag)
    PROVE  /\ list_rx' \in Seq(Messages) /\ Msg \in Messages /\ Msg.kind = kind /\ Msg.flag = flag
           /\ kind = "image" => Msg.image \in Images
           /\ Cardinality(Ends(list_rx')) \in Nat
           /\ Cardinality(Ends(list_rx)) = Cardinality(Ends(list_rx')) + (IF IsEnd(Msg) THEN 1 ELSE 0)
           /\ \A k \in Ends(list_rx) : \/ list_rx[k] = Msg /\ IsEnd(Msg)
                                       \/ \E l \in Ends(list_rx') : list_rx'[l] = list_rx[k]
           /\ UNCHANGED <<now, image_job, blf_job, pushes, losses>>
<1>1. list_rx \in Seq(Messages) /\ list_rx # <<>> /\ list_rx' = Tail(list_rx)
  BY DEF Handling, ImageInv, RxInv
<1>2. /\ list_rx' \in Seq(Messages) /\ Msg \in Messages
      /\ Cardinality(Ends(list_rx)) = Cardinality(Ends(list_rx')) + (IF IsEnd(Msg) THEN 1 ELSE 0)
      /\ \A k \in Ends(list_rx) : \/ list_rx[k] = Msg /\ IsEnd(Msg)
                                  \/ \E l \in Ends(list_rx') : list_rx'[l] = list_rx[k]
  BY <1>1, EndsTail, Zenon DEF Msg
<1>3. Cardinality(Ends(list_rx')) \in Nat
  BY <1>2, EndsFinite
<1>4. Msg.kind = kind /\ Msg.flag = flag /\ UNCHANGED <<now, image_job, blf_job, pushes, losses>>
  BY DEF Handling, mainVars
<1>5. kind = "image" => Msg.image \in Images
  BY <1>2, <1>4 DEF Messages
<1> QED BY <1>2, <1>3, <1>4, <1>5, Zenon

\* A message that is no end leaves everything on the way that was.
LEMMA NoEndKeeps ==
    ASSUME ImageInv, NEW kind, NEW flag, Handling(kind, flag), ~(kind = "image" /\ flag = "end"),
           UNCHANGED requests
    PROVE  /\ Cardinality(Ends(list_rx')) = Cardinality(Ends(list_rx))
           /\ Waiting' = Waiting
           /\ \A i : OnTheWay(i) => OnTheWay(i)'
<1>1. ~IsEnd(Msg)
  BY HandlingFacts DEF IsEnd
<1>2. Cardinality(Ends(list_rx')) = Cardinality(Ends(list_rx))
  BY <1>1, HandlingFacts
<1>3. \A k \in Ends(list_rx) : \E l \in Ends(list_rx') : list_rx'[l] = list_rx[k]
  BY <1>1, HandlingFacts, Zenon
<1>4. UNCHANGED image_job
  BY HandlingFacts
<1>5. Waiting' = Waiting
  BY <1>2, <1>4 DEF Waiting
<1>6. \A i : OnTheWay(i) => OnTheWay(i)'
  BY <1>3, <1>4 DEF OnTheWay
<1> QED BY <1>2, <1>5, <1>6

\* The start of a list, an end without it, and the beginning of an image.
LEMMA ImagesCollect ==
    ASSUME ImageInv,
           HandleBlfStart \/ HandleBlfEndFails \/ HandleImageStart \/ HandleImageContinue
    PROVE  ImageInv'
<1>1. PICK kind, flag : Handling(kind, flag) /\ ~(kind = "image" /\ flag = "end")
  BY DEF HandleBlfStart, HandleBlfEndFails, HandleImageStart, HandleImageContinue
<1>2. UNCHANGED <<have, blf_files_num, files_absence, init_flag, shown, requests, lost>>
  BY DEF HandleBlfStart, HandleBlfEndFails, HandleImageStart, HandleImageContinue
<1>3. list_rx' \in Seq(Messages) /\ Msg \in Messages /\ UNCHANGED <<now, image_job, blf_job, pushes, losses>>
  BY <1>1, HandlingFacts
<1>4. Waiting' = Waiting /\ \A i : OnTheWay(i) => OnTheWay(i)'
  BY <1>1, <1>2, NoEndKeeps
<1>5. now \in Times /\ now \in Int /\ None \in Times
  BY ImageBoundsAssumption DEF ImageInv, TypeOK, Times, None
<1>6. sw' \in [Images -> Times]
  <2>1. CASE HandleBlfStart \/ HandleBlfEndFails
    BY <2>1 DEF HandleBlfStart, HandleBlfEndFails, ImageInv, TypeOK
  <2>2. CASE HandleImageStart \/ HandleImageContinue
    <3>1. Msg.image \in Images
      BY <2>2, HandlingFacts DEF HandleImageStart, HandleImageContinue
    <3> QED BY <1>5, <2>2, <3>1 DEF HandleImageStart, HandleImageContinue, ImageInv, TypeOK
  <2> QED BY <2>1, <2>2
<1>7. blf_sw' \in [list : SUBSET Images, mtime : Times] /\ blf_sw'.mtime <= now'
  <2>1. Msg.list \in SUBSET Images
    BY <1>3 DEF Messages
  <2> QED BY <1>3, <1>5, <2>1 DEF HandleBlfStart, HandleBlfEndFails, HandleImageStart,
             HandleImageContinue, ImageInv, TypeOK, RxInv
<1>8. listed' = listed \/ listed' = {}
  BY DEF HandleBlfStart, HandleBlfEndFails, HandleImageStart, HandleImageContinue, NoList
<1>9. TypeOK'
  BY <1>2, <1>3, <1>6, <1>7, <1>8 DEF ImageInv, TypeOK
<1>10. RxInv'
  BY <1>2, <1>3, <1>7 DEF ImageInv, RxInv
<1>11. CountExact'
  BY <1>2, <1>4 DEF ImageInv, CountExact
<1>12. Covered'
  BY <1>2, <1>4, <1>8 DEF ImageInv, Covered
<1> QED BY <1>9, <1>10, <1>11, <1>12 DEF ImageInv

\* delete_older_files leaves the images that images_check_and_update has touched.
LEMMA TouchedKept ==
    ASSUME ImageInv, NEW list \in SUBSET Images, NEW i \in list, have[i] # None
    PROVE  Kept(Touched(list), blf_sw.mtime)[i] # None
<1>1. now \in Nat /\ blf_sw.mtime \in Int /\ blf_sw.mtime <= now
  BY ImageBoundsAssumption DEF ImageInv, TypeOK, RxInv, Times, None
<1>2. Touched(list)[i] = now
  BY DEF Touched
<1>3. Kept(Touched(list), blf_sw.mtime)[i] = now
  BY <1>1, <1>2 DEF Kept
<1> QED BY <1>1, <1>3 DEF None

\* The requests for what is missing: each image once, in some order.
LEMMA OrderFacts ==
    ASSUME NEW set \in SUBSET Images, NEW order \in Orders(set)
    PROVE  /\ Cardinality(set) \in Nat
           /\ order \in Seq(Images) /\ Len(order) = Cardinality(set)
           /\ \A i \in set : \E n \in DOMAIN order : order[n] = i
<1>1. Cardinality(set) \in Nat
  BY ImagesAssumption, FS_Subset, FS_CardinalityType
<1>2. /\ order \in [1 .. Cardinality(set) -> set]
      /\ \A i \in set : \E n \in DOMAIN order : order[n] = i
  BY DEF Orders
<1>3. order \in [1 .. Cardinality(set) -> Images]
  BY <1>2
<1>4. order \in Seq(Images) /\ Len(order) = Cardinality(set)
  BY <1>1, <1>3
<1> QED BY <1>1, <1>2, <1>4

\* The end of a list: what is missing is counted and asked for.
LEMMA ImagesListed == ASSUME ImageInv, HandleBlfEnd PROVE ImageInv'
<1>1. PICK list : list = blf_sw.list
  OBVIOUS
<1>2. list \in SUBSET Images
  BY <1>1 DEF ImageInv, TypeOK
<1>3. PICK missing : missing = Missing(list)
  OBVIOUS
<1>4. missing \in SUBSET Images /\ \A i \in list : have[i] = None <=> i \in missing
  BY <1>2, <1>3 DEF Missing
<1>5. PICK order \in Orders(missing) : requests' = requests \o order
  BY <1>1, <1>3 DEF HandleBlfEnd
<1>6. PICK c : c = Cardinality(missing)
  OBVIOUS
<1>7. /\ c \in Nat /\ order \in Seq(Images) /\ Len(order) = c
      /\ \A i \in missing : \E n \in DOMAIN order : order[n] = i
  BY <1>4, <1>5, <1>6, OrderFacts
<1>8. /\ listed' = list /\ blf_files_num' = blf_files_num + c
      /\ files_absence' = files_absence + (IF init_flag < 0 THEN c ELSE 0)
      /\ shown' = (IF blf_files_num' = 0 THEN list ELSE shown)
      /\ have' = Kept(Touched(list), blf_sw.mtime) /\ sw' = Kept(sw, blf_sw.mtime)
      /\ blf_sw' = [list |-> NoList, mtime |-> None]
      /\ init_flag' = init_flag /\ lost' = lost
      /\ Handling("blf", "end")
  BY <1>1, <1>3, <1>6 DEF HandleBlfEnd
<1>9. list_rx' \in Seq(Messages) /\ UNCHANGED <<now, image_job, blf_job, pushes, losses>>
  BY <1>8, HandlingFacts
<1>10. PICK e : e = Cardinality(Ends(list_rx)) /\ e \in Nat
  BY EndsFinite DEF ImageInv, RxInv
<1>11. Cardinality(Ends(list_rx')) = e
  <2>1. ~IsEnd(Msg)
    BY <1>8, HandlingFacts DEF IsEnd
  <2> QED BY <1>8, <1>10, <2>1, HandlingFacts
<1>12. /\ requests \in Seq(Images) /\ requests' \in Seq(Images) /\ Len(requests) \in Nat
       /\ Len(requests') = Len(requests) + c
  <2>1. requests \in Seq(Images)
    BY DEF ImageInv, TypeOK
  <2>2. requests \o order \in Seq(Images) /\ Len(requests \o order) = Len(requests) + Len(order)
    BY <1>7, <2>1, ConcatProperties
  <2>3. Len(requests) \in Nat
    BY <2>1, LenProperties
  <2> QED BY <1>5, <1>7, <2>1, <2>2, <2>3
<1>13. TypeOK'
  <2>1. now \in Times /\ None \in Times
    BY ImageBoundsAssumption DEF ImageInv, TypeOK, Times, None
  <2>2. have' \in [Images -> Times] /\ sw' \in [Images -> Times]
    BY <1>8, <2>1 DEF Kept, Touched, ImageInv, TypeOK
  <2>3. blf_sw' \in [list : SUBSET Images, mtime : Times]
    BY <1>8, <2>1 DEF NoList
  <2>4. blf_files_num' \in Nat /\ files_absence' \in Nat
    BY <1>7, <1>8 DEF ImageInv, TypeOK
  <2> QED BY <1>2, <1>8, <1>9, <1>12, <2>2, <2>3, <2>4 DEF ImageInv, TypeOK
<1>14. RxInv'
  <2>1. now \in Nat
    BY ImageBoundsAssumption DEF ImageInv, TypeOK
  <2>2. blf_sw'.mtime <= now'
    BY <1>8, <1>9, <2>1 DEF None
  <2> QED BY <1>8, <1>9, <2>2 DEF ImageInv, RxInv
<1>15. CountExact'
  <2>1. lost \in Nat /\ blf_files_num = Len(requests) + (IF image_job = NoImage THEN 0 ELSE 1) + e + lost
    BY <1>10 DEF ImageInv, RxInv, CountExact, Waiting
  <2>2. PICK j \in {0, 1} : j = (IF image_job = NoImage THEN 0 ELSE 1)
    OBVIOUS
  <2>3. PICK r \in Nat : r = Len(requests)
    BY <1>12
  <2>4. blf_files_num' = Len(requests') + (IF image_job' = NoImage THEN 0 ELSE 1) + e + lost'
    <3>1. blf_files_num' = (r + j + e + lost) + c
      BY <1>8, <2>1, <2>2, <2>3
    <3>2. Len(requests') = r + c /\ (IF image_job' = NoImage THEN 0 ELSE 1) = j /\ lost' = lost
      BY <1>8, <1>9, <1>12, <2>2, <2>3
    <3>3. c \in Nat /\ e \in Nat /\ j \in Nat /\ lost \in Nat
      BY <1>7, <1>10, <2>1
    <3>4. (r + j + e + lost) + c = (r + c) + j + e + lost
      BY <3>3
    <3>5. (r + c) + j + e + lost = Len(requests') + (IF image_job' = NoImage THEN 0 ELSE 1) + e + lost'
      BY <3>2
    <3> QED BY <3>1, <3>4, <3>5
  <2>5. init_flag' < 0 => files_absence' = blf_files_num'
    BY <1>8 DEF ImageInv, CountExact
  <2> QED BY <1>11, <2>4, <2>5 DEF CountExact, Waiting
<1>16. Covered'
  <2> SUFFICES ASSUME NEW i \in list, have'[i] = None PROVE OnTheWay(i)'
    BY <1>8 DEF Covered
  <2>1. i \in missing
    BY <1>2, <1>4, <1>8, TouchedKept
  <2>2. PICK n \in DOMAIN order : order[n] = i
    BY <1>7, <2>1
  <2>3. Len(requests) + n \in DOMAIN requests' /\ requests'[Len(requests) + n] = i
    BY <1>5, <1>7, <1>12, <2>2
  <2> QED BY <2>3 DEF OnTheWay
<1> QED BY <1>13, <1>14, <1>15, <1>16 DEF ImageInv

\* The end of an image puts it in place and counts it off.
LEMMA ImagesEnd == ASSUME ImageInv, HandleImageEnd PROVE ImageInv'
<1>1. /\ Handling("image", "end") /\ UNCHANGED <<listed, blf_sw, requests, lost>>
      /\ blf_files_num' = blf_files_num - 1
  BY DEF HandleImageEnd
<1>2. IsEnd(Msg) /\ Msg.image \in Images
  BY <1>1, HandlingFacts DEF IsEnd
<1>3. list_rx' \in Seq(Messages) /\ UNCHANGED <<now, image_job, blf_job, pushes, losses>>
  BY <1>1, HandlingFacts
<1>4. PICK e : e = Cardinality(Ends(list_rx')) /\ e \in Nat
  BY <1>1, HandlingFacts
<1>5. Cardinality(Ends(list_rx)) = e + 1
  BY <1>1, <1>2, <1>4, HandlingFacts
<1>6. /\ lost \in Nat /\ Len(requests) \in Nat
      /\ blf_files_num = Len(requests) + (IF image_job = NoImage THEN 0 ELSE 1) + (e + 1) + lost
  BY <1>5 DEF ImageInv, RxInv, CountExact, Waiting, TypeOK
<1>7. /\ blf_files_num' = Len(requests) + (IF image_job = NoImage THEN 0 ELSE 1) + e + lost
      /\ blf_files_num' \in Nat
  BY <1>1, <1>4, <1>6, SMTT(60)
<1>8. CountExact' /\ files_absence' \in Nat /\ init_flag' \in {-1, 1}
  <2>1. blf_files_num' = Waiting' + lost'
    BY <1>1, <1>3, <1>4, <1>7 DEF Waiting
  <2>2. files_absence \in Nat /\ init_flag \in {-1, 1} /\ (init_flag < 0 => files_absence = blf_files_num)
    BY DEF ImageInv, TypeOK, CountExact
  <2>3. CASE init_flag < 0
    BY <1>1, <1>7, <2>1, <2>2, <2>3 DEF HandleImageEnd, CountExact
  <2>4. CASE ~(init_flag < 0)
    BY <2>1, <2>2, <2>4 DEF HandleImageEnd, CountExact
  <2> QED BY <2>3, <2>4
<1>9. TypeOK'
  <2>1. None \in Times /\ sw[Msg.image] \in Times
    BY <1>2, ImageBoundsAssumption DEF ImageInv, TypeOK, Times, None
  <2>2. have' \in [Images -> Times] /\ sw' \in [Images -> Times]
    BY <1>2, <2>1 DEF HandleImageEnd, ImageInv, TypeOK
  <2>3. shown' \in SUBSET Images
    BY DEF HandleImageEnd, Shown, ImageInv, TypeOK
  <2> QED BY <1>1, <1>3, <1>7, <1>8, <2>2, <2>3 DEF ImageInv, TypeOK
<1>10. RxInv'
  BY <1>1, <1>3 DEF ImageInv, RxInv
<1>11. Covered'
  <2> SUFFICES ASSUME lost = 0, NEW i \in listed, have'[i] = None PROVE OnTheWay(i)'
    BY <1>1 DEF Covered
  <2>1. i \in Images /\ i # Msg.image /\ have[i] = None
    BY <1>2 DEF HandleImageEnd, ImageInv, TypeOK
  <2>2. OnTheWay(i)
    BY <2>1 DEF ImageInv, Covered
  <2>3. ASSUME NEW k \in Ends(list_rx), list_rx[k].image = i
        PROVE  \E l \in Ends(list_rx') : list_rx'[l].image = i
    <3>1. list_rx[k] # Msg
      BY <2>1, <2>3
    <3> QED BY <1>1, <2>3, <3>1, HandlingFacts, Zenon
  <2> QED BY <1>1, <1>3, <2>2, <2>3 DEF OnTheWay
<1> QED BY <1>8, <1>9, <1>10, <1>11 DEF ImageInv

\* An end without its .sw is counted as lost.
LEMMA ImagesEndFails == ASSUME ImageInv, HandleImageEndFails PROVE ImageInv'
<1>1. /\ Handling("image", "end") /\ lost' = lost + 1 /\ blf_files_num' = blf_files_num
      /\ UNCHANGED <<sw, listed, blf_sw, files_absence, init_flag, shown, requests>>
  BY DEF HandleImageEndFails, CountAfterFailure
<1>2. IsEnd(Msg) /\ Msg.image \in Images
  BY <1>1, HandlingFacts DEF IsEnd
<1>3. list_rx' \in Seq(Messages) /\ UNCHANGED <<now, image_job, blf_job, pushes, losses>>
  BY <1>1, HandlingFacts
<1>4. PICK e : e = Cardinality(Ends(list_rx')) /\ e \in Nat
  BY <1>1, HandlingFacts
<1>5. Cardinality(Ends(list_rx)) = e + 1
  BY <1>1, <1>2, <1>4, HandlingFacts
<1>6. /\ lost \in Nat /\ Len(requests) \in Nat
      /\ blf_files_num = Len(requests) + (IF image_job = NoImage THEN 0 ELSE 1) + (e + 1) + lost
  BY <1>5 DEF ImageInv, RxInv, CountExact, Waiting, TypeOK
<1>7. blf_files_num' = Len(requests) + (IF image_job = NoImage THEN 0 ELSE 1) + e + lost'
  BY <1>1, <1>4, <1>6
<1>8. CountExact'
  BY <1>1, <1>3, <1>4, <1>7 DEF Waiting, ImageInv, CountExact
<1>9. TypeOK'
  <2>1. None \in Times
    BY ImageBoundsAssumption DEF Times, None
  <2>2. have' \in [Images -> Times]
    BY <1>2, <2>1 DEF HandleImageEndFails, ImageInv, TypeOK
  <2> QED BY <1>1, <1>3, <2>2 DEF ImageInv, TypeOK
<1>10. RxInv'
  BY <1>1, <1>3 DEF ImageInv, RxInv
<1>11. Covered'
  BY <1>1, <1>6 DEF Covered
<1> QED BY <1>8, <1>9, <1>10, <1>11 DEF ImageInv

-----------------------------------------------------------------------------
\* Every step of either board and of the link keeps the invariant.
LEMMA ImagesStep == ImageInv /\ [Next]_vars => ImageInv'
<1>1. ASSUME ImageInv, UNCHANGED vars PROVE ImageInv'
  BY <1>1 DEF vars, extVars, mainVars, ImageInv, TypeOK, RxInv, CountExact, Covered, OnTheWay, Waiting
<1> QED BY <1>1, ImagesTick, ImagesSendBlf, ImagesAnswer, ImagesSend, ImagesLoseRequests,
           ImagesLoseMessages, ImagesCollect, ImagesListed, ImagesEnd, ImagesEndFails
        DEF Next, ExtStep

\* Types; the counters are never negative.
THEOREM ImagesTypeCorrect == Spec => []TypeOK
  BY ImagesInit, ImagesStep, PTL DEF Spec, ImageInv

\* blf_files_num is the number of images still to come, or lost, at any moment.
THEOREM CountIsExact == Spec => []CountExact
  BY ImagesInit, ImagesStep, PTL DEF Spec, ImageInv

\* Whenever blf_files_num is 0, every image of blf.xml is there: the GUI is never
\* started with an image missing.
THEOREM CountIsCovering == Spec => []CountCovers
<1>1. ImageInv => CountCovers
  <2> SUFFICES ASSUME ImageInv, blf_files_num = 0, NEW i \in listed, have[i] = None PROVE FALSE
    BY DEF CountCovers
  <2>1. PICK e : e = Cardinality(Ends(list_rx)) /\ e \in Nat
    BY EndsFinite DEF ImageInv, RxInv
  <2>2. /\ lost \in Nat /\ Len(requests) \in Nat /\ requests \in Seq(Images)
        /\ 0 = Len(requests) + (IF image_job = NoImage THEN 0 ELSE 1) + e + lost
    BY <2>1 DEF ImageInv, CountExact, Waiting, RxInv, TypeOK
  <2>3. lost = 0 /\ Len(requests) = 0 /\ image_job = NoImage /\ e = 0
    BY <2>1, <2>2
  <2>4. Ends(list_rx) = {}
    BY <2>1, <2>3, EndsFinite, FS_EmptySet DEF ImageInv, RxInv
  <2>5. OnTheWay(i)
    BY <2>3 DEF ImageInv, Covered
  <2> QED BY <2>2, <2>3, <2>4, <2>5 DEF OnTheWay
<1> QED BY <1>1, ImagesInit, ImagesStep, PTL DEF Spec

\* delete_older_files never deletes an image that the new blf.xml names, although
\* it compares whole seconds.
THEOREM ListedAreKept == Spec => ListedKept
<1>1. ImageInv /\ [Next]_vars =>
         [HandleBlfEnd => \A i \in listed' : have[i] # None => have'[i] # None]_vars
  <2> SUFFICES ASSUME ImageInv, HandleBlfEnd, NEW i \in listed', have[i] # None
               PROVE  have'[i] # None
    OBVIOUS
  <2>1. /\ listed' = blf_sw.list /\ have' = Kept(Touched(blf_sw.list), blf_sw.mtime)
        /\ blf_sw.list \in SUBSET Images
    BY DEF HandleBlfEnd, ImageInv, TypeOK
  <2> QED BY <2>1, TouchedKept
<1> QED BY <1>1, ImagesInit, ImagesStep, PTL DEF Spec, ListedKept
=============================================================================
