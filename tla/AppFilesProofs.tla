--------------------------- MODULE AppFilesProofs ---------------------------
(***************************************************************************)
(* Theorems about AppFiles, for any number of versions of any length, any  *)
(* faults, pushes and queue.  The messages on their way are taken as one   *)
(* queue, the received ones before those still to be sent.  The heart of   *)
(* the invariant is that a clean message stands right behind the one that  *)
(* the file must have before it, or else that this is what has been        *)
(* collected on the extension board.                                       *)
(***************************************************************************)
EXTENDS AppFiles, SequenceTheorems, TLAPS

Jobs == [file : Files, version : Versions, next : Nat, clean : BOOLEAN]

queue == list_rx \o list_tx

\* Messages of version v of a file before its end: an empty file has one, too.
Steps(v) == IF Blocks[v] = 0 THEN 1 ELSE Blocks[v]

\* Which message of its transfer m is.
Number(m) == IF m.flag = "start" THEN 1 ELSE IF m.flag = "end" THEN Steps(m.version) + 1
             ELSE m.block

\* What handle_req_bcf, handle_req_blf and app_send_upgrade put into a message.
WellFormed(m) ==
    /\ m \in Messages
    /\ m.block = IF Number(m) > Blocks[m.version] THEN 0 ELSE Number(m)
    /\ m.flag = "continue" => Number(m) \in 2 .. Blocks[m.version]

\* The bytes of the first n messages of version v.
FirstBlocks(v, n) == [i \in 1 .. (IF n > Blocks[v] THEN Blocks[v] ELSE n) |-> <<v, i>>]

\* The last message of f before position i of q is number n of a transfer of version
\* v and clean, or there is none and content is that of the first n messages.
Behind(q, i, f, v, n, content) ==
    \/ \E j \in 1 .. i - 1 : /\ q[j].file = f /\ q[j].version = v /\ q[j].clean
                             /\ Number(q[j]) = n
                             /\ \A k \in j + 1 .. i - 1 : q[k].file # f
    \/ /\ \A j \in 1 .. i - 1 : q[j].file # f
       /\ content = FirstBlocks(v, n)

\* The messages of q when the files are as in files.
QueueOk(q, files) ==
    \A i \in 1 .. Len(q) :
        /\ WellFormed(q[i])
        /\ q[i].clean /\ q[i].flag # "start" =>
               Behind(q, i, q[i].file, q[i].version, Number(q[i]) - 1, files[Temp(q[i].file)])

QueueInv == QueueOk(queue, fs)

\* The next message of a clean transfer will be right behind the last one; no other
\* thread sends the file.
JobOk(j, q, files) ==
    j.next > 0 => Behind(q, Len(q) + 1, j.file, j.version, j.next, files[Temp(j.file)])

JobsInv ==
    \A t \in Threads : job[t] # NoJob /\ job[t].clean =>
        /\ JobOk(job[t], queue, fs)
        /\ \A u \in Threads \ {t} : job[u] # NoJob => job[u].file # job[t].file

FilesInv == TypeOK /\ QueueInv /\ JobsInv /\ CleanTransferInstalls

-----------------------------------------------------------------------------
(***************************************************************************)
(* Messages.                                                               *)
(***************************************************************************)

LEMMA VersionFacts ==
    ASSUME NEW v \in Versions PROVE Blocks[v] \in Nat /\ Steps(v) \in Nat \ {0} /\ Steps(v) >= Blocks[v]
<1>1. Blocks[v] \in Nat
  BY BlocksAssumption DEF Versions
<1> QED BY <1>1 DEF Steps

LEMMA NumberFacts ==
    ASSUME NEW m, WellFormed(m)
    PROVE  /\ m.file \in Files /\ m.version \in Versions /\ m.clean \in BOOLEAN
           /\ Number(m) \in Nat \ {0}
           /\ m.flag = "start" <=> Number(m) = 1
           /\ m.flag = "end" <=> Number(m) = Steps(m.version) + 1
           /\ Number(m) <= Steps(m.version) + 1
<1>1. /\ m.file \in Files /\ m.version \in Versions /\ m.clean \in BOOLEAN
      /\ m.flag \in {"start", "continue", "end"} /\ m.block \in Nat
  BY DEF WellFormed, Messages
<1>2. Blocks[m.version] \in Nat /\ Steps(m.version) \in Nat \ {0} /\ Steps(m.version) >= Blocks[m.version]
  BY <1>1, VersionFacts
<1>3. CASE m.flag = "start"
  BY <1>1, <1>2, <1>3 DEF Number
<1>4. CASE m.flag = "end"
  BY <1>1, <1>2, <1>4 DEF Number
<1>5. CASE m.flag = "continue"
  <2>1. Number(m) \in 2 .. Blocks[m.version]
    BY <1>5 DEF WellFormed
  <2> QED BY <1>1, <1>2, <1>5, <2>1
<1> QED BY <1>1, <1>3, <1>4, <1>5

\* m with what it says of the history forgotten.
Dirty(m) == [m EXCEPT !.clean = FALSE]

LEMMA DirtyFacts ==
    ASSUME NEW m \in Messages
    PROVE  /\ Dirty(m) \in Messages /\ Dirty(m).file = m.file /\ Dirty(m).flag = m.flag
           /\ Dirty(m).clean = FALSE
           /\ WellFormed(m) => WellFormed(Dirty(m))
<1>1. /\ Dirty(m) \in Messages /\ Dirty(m).file = m.file /\ Dirty(m).flag = m.flag
      /\ Dirty(m).version = m.version /\ Dirty(m).block = m.block /\ Dirty(m).clean = FALSE
  BY DEF Dirty, Messages
<1>2. Number(Dirty(m)) = Number(m)
  BY <1>1 DEF Number
<1> QED BY <1>1, <1>2 DEF WellFormed

-----------------------------------------------------------------------------
(***************************************************************************)
(* What the operations on the queue keep.                                  *)
(***************************************************************************)

\* A message at the end of the queue.
LEMMA BehindAppend ==
    ASSUME NEW q \in Seq(Messages), NEW m \in Messages, NEW r, r = Append(q, m),
           NEW f, NEW v, NEW n, NEW c
    PROVE  /\ \A i \in 1 .. Len(q) + 1 : Behind(q, i, f, v, n, c) => Behind(r, i, f, v, n, c)
           /\ m.file # f /\ Behind(q, Len(q) + 1, f, v, n, c) => Behind(r, Len(q) + 2, f, v, n, c)
           /\ m.file = f /\ m.version = v /\ m.clean /\ Number(m) = n
                  => Behind(r, Len(q) + 2, f, v, n, c)
<1>1. Len(q) \in Nat /\ \A i \in 1 .. Len(q) : r[i] = q[i]
  BY LenProperties, AppendProperties
<1>2. r[Len(q) + 1] = m
  BY AppendProperties
<1>3. ASSUME NEW i \in 1 .. Len(q) + 1, Behind(q, i, f, v, n, c) PROVE Behind(r, i, f, v, n, c)
  <2>1. \A j \in 1 .. i - 1 : j \in 1 .. Len(q) /\ r[j] = q[j]
    BY <1>1
  <2>2. \A j \in 1 .. i - 1 : \A k \in j + 1 .. i - 1 : k \in 1 .. i - 1
    BY <1>1
  <2> QED BY <1>3, <2>1, <2>2 DEF Behind
<1>4. ASSUME m.file # f, Behind(q, Len(q) + 1, f, v, n, c) PROVE Behind(r, Len(q) + 2, f, v, n, c)
  <2>1. (Len(q) + 1) - 1 = Len(q) /\ (Len(q) + 2) - 1 = Len(q) + 1
    BY <1>1
  <2>2. CASE \E j \in 1 .. Len(q) : /\ q[j].file = f /\ q[j].version = v /\ q[j].clean
                                    /\ Number(q[j]) = n
                                    /\ \A k \in j + 1 .. Len(q) : q[k].file # f
    <3>1. PICK j \in 1 .. Len(q) : /\ q[j].file = f /\ q[j].version = v /\ q[j].clean
                                   /\ Number(q[j]) = n
                                   /\ \A k \in j + 1 .. Len(q) : q[k].file # f
      BY <2>2
    <3>2. j \in 1 .. Len(q) + 1 /\ r[j] = q[j]
      BY <1>1
    <3>3. ASSUME NEW k \in j + 1 .. Len(q) + 1 PROVE r[k].file # f
      <4>1. CASE k = Len(q) + 1
        BY <1>2, <1>4, <4>1
      <4>2. CASE k # Len(q) + 1
        <5>1. k \in j + 1 .. Len(q) /\ k \in 1 .. Len(q)
          BY <1>1, <4>2
        <5> QED BY <1>1, <3>1, <5>1
      <4> QED BY <4>1, <4>2
    <3> QED BY <2>1, <3>1, <3>2, <3>3 DEF Behind
  <2>3. CASE c = FirstBlocks(v, n) /\ \A j \in 1 .. Len(q) : q[j].file # f
    <3>1. ASSUME NEW j \in 1 .. Len(q) + 1 PROVE r[j].file # f
      <4>1. CASE j = Len(q) + 1
        BY <1>2, <1>4, <4>1
      <4>2. CASE j # Len(q) + 1
        <5>1. j \in 1 .. Len(q)
          BY <1>1, <4>2
        <5> QED BY <1>1, <2>3, <5>1
      <4> QED BY <4>1, <4>2
    <3> QED BY <2>1, <2>3, <3>1 DEF Behind
  <2> QED BY <1>4, <2>1, <2>2, <2>3 DEF Behind
<1>5. ASSUME m.file = f, m.version = v, m.clean, Number(m) = n
      PROVE  Behind(r, Len(q) + 2, f, v, n, c)
  <2>1. Len(q) + 1 \in 1 .. (Len(q) + 2) - 1 /\ (Len(q) + 1) + 1 .. (Len(q) + 2) - 1 = {}
    BY <1>1
  <2> QED BY <1>2, <1>5, <2>1 DEF Behind
<1> QED BY <1>3, <1>4, <1>5

\* The first message of the queue has been handled, and content c became d.
LEMMA BehindTake ==
    ASSUME NEW q \in Seq(Messages), q # <<>>, NEW r, r = Tail(q), NEW i \in 1 .. Len(q),
           NEW f, NEW v, NEW n, NEW c, NEW d, Behind(q, i + 1, f, v, n, c),
           q[1].file # f => d = c,
           q[1].file = f /\ q[1].version = v /\ q[1].clean /\ Number(q[1]) = n
               => d = FirstBlocks(v, n)
    PROVE  Behind(r, i, f, v, n, d)
<1>1. Len(q) \in Nat /\ Len(r) = Len(q) - 1 /\ \A k \in 1 .. Len(q) - 1 : r[k] = q[k + 1]
  BY LenProperties, HeadTailProperties
<1>2. (i + 1) - 1 = i /\ 1 \in 1 .. i /\ i \in Nat
  BY <1>1
<1>3. \A k \in 1 .. i - 1 : r[k] = q[k + 1]
  <2>1. \A k \in 1 .. i - 1 : k \in 1 .. Len(q) - 1
    BY <1>1
  <2> QED BY <1>1, <2>1
<1>4. CASE \E j \in 1 .. i : /\ q[j].file = f /\ q[j].version = v /\ q[j].clean
                             /\ Number(q[j]) = n
                             /\ \A k \in j + 1 .. i : q[k].file # f
  <2>1. PICK j \in 1 .. i : /\ q[j].file = f /\ q[j].version = v /\ q[j].clean
                            /\ Number(q[j]) = n
                            /\ \A k \in j + 1 .. i : q[k].file # f
    BY <1>4
  <2>2. ASSUME NEW k \in 1 .. i - 1, k + 1 > j PROVE r[k].file # f
    <3>1. k + 1 \in j + 1 .. i
      BY <1>2, <2>2
    <3> QED BY <1>3, <2>1, <3>1
  <2>3. CASE j = 1
    <3>1. \A k \in 1 .. i - 1 : r[k].file # f
      BY <1>2, <2>2, <2>3
    <3>2. d = FirstBlocks(v, n)
      BY <2>1, <2>3
    <3> QED BY <3>1, <3>2 DEF Behind
  <2>4. CASE j # 1
    <3>1. j - 1 \in 1 .. i - 1 /\ (j - 1) + 1 = j
      BY <1>2, <2>4
    <3>2. r[j - 1] = q[j]
      BY <1>3, <3>1
    <3>3. \A k \in (j - 1) + 1 .. i - 1 : k \in 1 .. i - 1 /\ k + 1 > j
      BY <1>2, <2>4
    <3> QED BY <2>1, <2>2, <3>1, <3>2, <3>3 DEF Behind
  <2> QED BY <2>3, <2>4
<1>5. CASE c = FirstBlocks(v, n) /\ \A j \in 1 .. i : q[j].file # f
  <2>1. \A k \in 1 .. i - 1 : k + 1 \in 1 .. i
    BY <1>2
  <2>2. \A k \in 1 .. i - 1 : r[k].file # f
    BY <1>3, <1>5, <2>1
  <2>3. d = c
    BY <1>2, <1>5
  <2> QED BY <1>5, <2>2, <2>3 DEF Behind
<1> QED BY <1>2, <1>4, <1>5 DEF Behind

\* Between positions a and i of q a transfer of f begins.
Started(q, a, i, f) == \E k \in a + 1 .. i : q[k].file = f /\ q[k].flag = "start"

\* q lost what is at a + 1 .. b, all of it messages of the files in hit, and what was
\* behind that of these files is not clean any more up to the next start.
Cut(q, r, a, b, hit) ==
    /\ a \in Nat /\ b \in a .. Len(q) /\ Len(r) = Len(q) - (b - a)
    /\ \A i \in 1 .. a : r[i] = q[i]
    /\ \A i \in a + 1 .. b : q[i].file \in hit
    /\ \A i \in a + 1 .. Len(r) :
           r[i] = IF q[i + (b - a)].file \in hit /\ ~Started(r, a, i, q[i + (b - a)].file)
                  THEN Dirty(q[i + (b - a)]) ELSE q[i + (b - a)]

LEMMA BehindCut ==
    ASSUME NEW q \in Seq(Messages), NEW r \in Seq(Messages), NEW a, NEW b, NEW hit,
           Cut(q, r, a, b, hit), NEW i \in a + 1 .. Len(r) + 1,
           NEW f, NEW v, NEW n, NEW c, NEW d, Behind(q, i + (b - a), f, v, n, c),
           (f \notin hit /\ d = c) \/ Started(r, a, i - 1, f)
    PROVE  Behind(r, i, f, v, n, d)
<1> DEFINE w == b - a
<1>1. /\ Len(q) \in Nat /\ Len(r) \in Nat /\ a \in Nat /\ b \in Nat /\ w \in Nat /\ i \in Nat
      /\ b = a + w /\ Len(r) = Len(q) - w /\ i >= a + 1 /\ i <= Len(r) + 1
  BY LenProperties DEF Cut
<1>2. \A j \in 1 .. a : r[j] = q[j]
  BY DEF Cut
<1>3. \A j \in a + 1 .. b : q[j].file \in hit
  BY DEF Cut
<1>4. ASSUME NEW j \in a + 1 .. Len(r)
      PROVE  /\ r[j].file = q[j + w].file
             /\ r[j].file \notin hit \/ Started(r, a, j, r[j].file) => r[j] = q[j + w]
  <2>1. j + w \in 1 .. Len(q)
    BY <1>1
  <2>2. q[j + w] \in Messages
    BY <2>1, LenProperties
  <2>3. r[j] = IF q[j + w].file \in hit /\ ~Started(r, a, j, q[j + w].file)
               THEN Dirty(q[j + w]) ELSE q[j + w]
    BY DEF Cut
  <2>4. r[j].file = q[j + w].file
    <3>1. PICK m : m = q[j + w]
      OBVIOUS
    <3>2. Dirty(m).file = m.file
      BY <2>2, <3>1, DirtyFacts
    <3> QED BY <2>3, <3>1, <3>2
  <2> QED BY <2>3, <2>4
<1> HIDE DEF w
<1>5. \A k \in 1 .. i - 1 : k \in 1 .. a \/ k \in a + 1 .. Len(r)
  BY <1>1
<1>6. CASE f \notin hit /\ d = c
  <2>1. ASSUME NEW j \in 1 .. (i + w) - 1, q[j].file = f
        PROVE  \E g \in 1 .. i - 1 : /\ (j \in 1 .. a /\ g = j) \/ (j > b /\ g + w = j)
                                     /\ r[g] = q[j]
    <3>1. CASE j \in 1 .. a
      <4>1. j \in 1 .. i - 1
        BY <1>1, <3>1
      <4> QED BY <1>2, <3>1, <4>1
    <3>2. CASE j \in a + 1 .. b
      BY <1>3, <1>6, <2>1, <3>2
    <3>3. CASE j > b
      <4>1. j - w \in a + 1 .. Len(r) /\ j - w \in 1 .. i - 1 /\ (j - w) + w = j
        BY <1>1, <3>3
      <4>2. r[j - w].file = f /\ r[j - w] = q[j]
        BY <1>4, <1>6, <2>1, <4>1
      <4> QED BY <3>3, <4>1, <4>2
    <3>4. j \in 1 .. a \/ j \in a + 1 .. b \/ j > b
      BY <1>1
    <3> QED BY <3>1, <3>2, <3>3, <3>4
  <2>2. ASSUME NEW g \in 1 .. i - 1, r[g].file = f
        PROVE  \E j \in 1 .. (i + w) - 1 : /\ (g \in 1 .. a /\ j = g) \/ (g > a /\ j = g + w)
                                           /\ q[j].file = f
    <3>1. CASE g \in 1 .. a
      <4>1. g \in 1 .. (i + w) - 1
        BY <1>1, <3>1
      <4> QED BY <1>2, <2>2, <3>1, <4>1
    <3>2. CASE g \in a + 1 .. Len(r)
      <4>1. g + w \in 1 .. (i + w) - 1 /\ g > a
        BY <1>1, <3>2
      <4> QED BY <1>4, <2>2, <3>2, <4>1
    <3> QED BY <1>5, <3>1, <3>2
  <2>3. CASE \E j \in 1 .. (i + w) - 1 : /\ q[j].file = f /\ q[j].version = v /\ q[j].clean
                                         /\ Number(q[j]) = n
                                         /\ \A k \in j + 1 .. (i + w) - 1 : q[k].file # f
    <3>1. PICK j \in 1 .. (i + w) - 1 : /\ q[j].file = f /\ q[j].version = v /\ q[j].clean
                                        /\ Number(q[j]) = n
                                        /\ \A k \in j + 1 .. (i + w) - 1 : q[k].file # f
      BY <2>3
    <3>2. PICK g \in 1 .. i - 1 : /\ (j \in 1 .. a /\ g = j) \/ (j > b /\ g + w = j)
                                  /\ r[g] = q[j]
      BY <2>1, <3>1
    <3>3. ASSUME NEW k \in g + 1 .. i - 1, r[k].file = f PROVE FALSE
      <4>1. k \in 1 .. i - 1
        BY <1>1, <3>2
      <4>2. PICK l \in 1 .. (i + w) - 1 : /\ (k \in 1 .. a /\ l = k) \/ (k > a /\ l = k + w)
                                          /\ q[l].file = f
        BY <2>2, <3>3, <4>1
      <4>3. l \in j + 1 .. (i + w) - 1
        BY <1>1, <3>2, <4>2
      <4> QED BY <3>1, <4>2, <4>3
    <3> QED BY <3>1, <3>2, <3>3 DEF Behind
  <2>4. CASE c = FirstBlocks(v, n) /\ \A j \in 1 .. (i + w) - 1 : q[j].file # f
    <3>1. \A g \in 1 .. i - 1 : r[g].file # f
      BY <2>2, <2>4
    <3> QED BY <1>6, <2>4, <3>1 DEF Behind
  <2> QED BY <2>3, <2>4 DEF Behind, w
<1>7. CASE Started(r, a, i - 1, f)
  <2>1. PICK s \in a + 1 .. i - 1 : r[s].file = f /\ r[s].flag = "start"
    BY <1>7 DEF Started
  <2>2. s \in a + 1 .. Len(r) /\ s + w \in 1 .. (i + w) - 1
    BY <1>1
  <2>3. q[s + w].file = f
    BY <1>4, <2>1, <2>2
  <2>4. PICK j \in 1 .. (i + w) - 1 : /\ q[j].file = f /\ q[j].version = v /\ q[j].clean
                                      /\ Number(q[j]) = n
                                      /\ \A k \in j + 1 .. (i + w) - 1 : q[k].file # f
    BY <2>2, <2>3 DEF Behind, w
  <2>5. j >= s + w
    <3> SUFFICES ASSUME j < s + w PROVE FALSE
      BY <1>1
    <3>1. s + w \in j + 1 .. (i + w) - 1
      BY <1>1, <2>2
    <3> QED BY <2>3, <2>4, <3>1
  <2>6. /\ j - w \in a + 1 .. Len(r) /\ j - w \in 1 .. i - 1 /\ (j - w) + w = j
        /\ s \in a + 1 .. j - w
    BY <1>1, <2>5
  <2>7. r[j - w].file = f /\ Started(r, a, j - w, f)
    BY <1>4, <2>1, <2>4, <2>6 DEF Started
  <2>8. r[j - w] = q[j]
    BY <1>4, <2>6, <2>7
  <2>9. ASSUME NEW k \in (j - w) + 1 .. i - 1 PROVE r[k].file # f
    <3>1. k \in a + 1 .. Len(r) /\ k + w \in j + 1 .. (i + w) - 1
      BY <1>1, <2>6
    <3> QED BY <1>4, <2>4, <3>1
  <2> QED BY <2>4, <2>6, <2>8, <2>9 DEF Behind
<1> QED BY <1>6, <1>7

\* Files keep their collected part, unless the lost messages were the first.
Spares(a, hit, files, filesNew) ==
    \A f \in Files : filesNew[Temp(f)] = files[Temp(f)] \/ (a = 0 /\ f \in hit)

LEMMA QueueCut ==
    ASSUME NEW q \in Seq(Messages), NEW r \in Seq(Messages), NEW a, NEW b, NEW hit,
           Cut(q, r, a, b, hit), NEW files, NEW filesNew, Spares(a, hit, files, filesNew),
           QueueOk(q, files)
    PROVE  QueueOk(r, filesNew)
<1>1. /\ Len(q) \in Nat /\ Len(r) \in Nat /\ a \in Nat /\ b \in Nat /\ b - a \in Nat
      /\ Len(r) = Len(q) - (b - a) /\ a <= Len(r)
  BY LenProperties DEF Cut
<1> SUFFICES ASSUME NEW i \in 1 .. Len(r)
             PROVE  /\ WellFormed(r[i])
                    /\ r[i].clean /\ r[i].flag # "start" =>
                          Behind(r, i, r[i].file, r[i].version, Number(r[i]) - 1,
                                 filesNew[Temp(r[i].file)])
  BY DEF QueueOk
<1>2. CASE i \in 1 .. a
  <2>1. r[i] = q[i] /\ i \in 1 .. Len(q) /\ a # 0
    BY <1>1, <1>2 DEF Cut
  <2>2. WellFormed(r[i])
    BY <2>1 DEF QueueOk
  <2>3. filesNew[Temp(r[i].file)] = files[Temp(r[i].file)]
    BY <2>1, <2>2, NumberFacts DEF Spares
  <2>4. \A j \in 1 .. i - 1 : r[j] = q[j]
    <3>1. \A j \in 1 .. i - 1 : j \in 1 .. a
      BY <1>1, <1>2
    <3> QED BY <3>1 DEF Cut
  <2>5. \A j \in 1 .. i - 1 : \A k \in j + 1 .. i - 1 : k \in 1 .. i - 1
    BY <1>1
  <2>6. ASSUME NEW f, NEW v, NEW n, NEW c, Behind(q, i, f, v, n, c)
        PROVE  Behind(r, i, f, v, n, c)
    BY <2>4, <2>5, <2>6 DEF Behind
  <2> QED BY <2>1, <2>2, <2>3, <2>6 DEF QueueOk
<1>3. CASE i \in a + 1 .. Len(r)
  <2>1. PICK m : m = q[i + (b - a)]
    OBVIOUS
  <2>2. i + (b - a) \in 1 .. Len(q)
    BY <1>1
  <2>3. WellFormed(m) /\ m \in Messages
    BY <2>1, <2>2 DEF QueueOk, WellFormed
  <2>4. r[i] = IF m.file \in hit /\ ~Started(r, a, i, m.file) THEN Dirty(m) ELSE m
    BY <1>3, <2>1 DEF Cut
  <2>5. WellFormed(r[i])
    BY <2>3, <2>4, DirtyFacts
  <2>6. ASSUME r[i].clean, r[i].flag # "start"
        PROVE  Behind(r, i, r[i].file, r[i].version, Number(r[i]) - 1, filesNew[Temp(r[i].file)])
    <3>1. r[i] = m /\ (m.file \in hit => Started(r, a, i, m.file))
      BY <2>3, <2>4, <2>6, DirtyFacts
    <3>2. Behind(q, i + (b - a), m.file, m.version, Number(m) - 1, files[Temp(m.file)])
      BY <2>1, <2>2, <2>6, <3>1 DEF QueueOk
    <3>3. m.file \in hit => Started(r, a, i - 1, m.file)
      <4> SUFFICES ASSUME m.file \in hit PROVE Started(r, a, i - 1, m.file)
        OBVIOUS
      <4>1. PICK k \in a + 1 .. i : r[k].file = m.file /\ r[k].flag = "start"
        BY <3>1 DEF Started
      <4>2. k # i
        BY <2>6, <4>1
      <4>3. k \in a + 1 .. i - 1
        BY <1>1, <4>2
      <4> QED BY <4>1, <4>3 DEF Started
    <3>4. m.file \notin hit => filesNew[Temp(m.file)] = files[Temp(m.file)]
      BY <2>3, NumberFacts DEF Spares
    <3>5. i \in a + 1 .. Len(r) + 1
      BY <1>1, <1>3
    <3>6. PICK c : c = files[Temp(m.file)]
      OBVIOUS
    <3>7. PICK d : d = filesNew[Temp(m.file)]
      OBVIOUS
    <3>8. (m.file \notin hit /\ d = c) \/ Started(r, a, i - 1, m.file)
      BY <3>3, <3>4, <3>6, <3>7
    <3>9. Behind(r, i, m.file, m.version, Number(m) - 1, d)
      BY <3>2, <3>5, <3>6, <3>8, BehindCut
    <3> QED BY <3>1, <3>7, <3>9
  <2> QED BY <2>5, <2>6
<1> QED BY <1>1, <1>2, <1>3

\* A clean job is behind its last message as before, if the cut left it alone.
LEMMA JobCut ==
    ASSUME NEW q \in Seq(Messages), NEW r \in Seq(Messages), NEW a, NEW b, NEW hit,
           Cut(q, r, a, b, hit), NEW files, NEW filesNew, Spares(a, hit, files, filesNew),
           NEW j \in Jobs, JobOk(j, q, files),
           j.next > 0 /\ j.file \in hit => Started(r, a, Len(r), j.file)
    PROVE  JobOk(j, r, filesNew)
<1> SUFFICES ASSUME j.next > 0
             PROVE  Behind(r, Len(r) + 1, j.file, j.version, j.next, filesNew[Temp(j.file)])
  BY DEF JobOk
<1>1. /\ Len(q) \in Nat /\ Len(r) \in Nat /\ a \in Nat /\ b \in Nat /\ b - a \in Nat
      /\ Len(r) = Len(q) - (b - a) /\ a <= Len(r)
  BY LenProperties DEF Cut
<1>2. /\ Len(r) + 1 \in a + 1 .. Len(r) + 1 /\ (Len(r) + 1) + (b - a) = Len(q) + 1
      /\ (Len(r) + 1) - 1 = Len(r)
  BY <1>1
<1>3. PICK c : c = files[Temp(j.file)]
  OBVIOUS
<1>4. PICK d : d = filesNew[Temp(j.file)]
  OBVIOUS
<1>5. Behind(q, (Len(r) + 1) + (b - a), j.file, j.version, j.next, c)
  BY <1>2, <1>3 DEF JobOk
<1>6. (j.file \notin hit /\ d = c) \/ Started(r, a, (Len(r) + 1) - 1, j.file)
  BY <1>2, <1>3, <1>4 DEF Spares, Jobs
<1>7. Behind(r, Len(r) + 1, j.file, j.version, j.next, d)
  BY <1>2, <1>5, <1>6, BehindCut
<1> QED BY <1>4, <1>7

-----------------------------------------------------------------------------
(***************************************************************************)
(* Each loss is a cut.                                                     *)
(***************************************************************************)

\* r is z, seen from position a on, as far as files and flags go.
LEMMA StartedSame ==
    ASSUME NEW r, NEW z, NEW a \in Nat, NEW i \in Nat, NEW f,
           \A k \in 1 .. i : r[a + k].file = z[k].file /\ r[a + k].flag = z[k].flag
    PROVE  Started(r, a, a + i, f) <=> Started(z, 0, i, f)
<1>1. ASSUME Started(r, a, a + i, f) PROVE Started(z, 0, i, f)
  <2>1. PICK k \in a + 1 .. a + i : r[k].file = f /\ r[k].flag = "start"
    BY <1>1 DEF Started
  <2>2. k - a \in 1 .. i /\ k - a \in 0 + 1 .. i /\ a + (k - a) = k
    BY <2>1
  <2>3. z[k - a].file = f /\ z[k - a].flag = "start"
    BY <2>1, <2>2
  <2> QED BY <2>2, <2>3 DEF Started
<1>2. ASSUME Started(z, 0, i, f) PROVE Started(r, a, a + i, f)
  <2>1. PICK k \in 0 + 1 .. i : z[k].file = f /\ z[k].flag = "start"
    BY <1>2 DEF Started
  <2>2. a + k \in a + 1 .. a + i /\ k \in 1 .. i
    BY <2>1
  <2>3. r[a + k].file = f /\ r[a + k].flag = "start"
    BY <2>1, <2>2
  <2> QED BY <2>2, <2>3 DEF Started
<1> QED BY <1>1, <1>2

\* z with the messages of f up to the next start dirty.
Dirtied(z, f, i) == IF z[i].file = f /\ ~Started(z, 0, i, f) THEN Dirty(z[i]) ELSE z[i]

LEMMA DirtiedFacts ==
    ASSUME NEW z \in Seq(Messages), NEW f, NEW i \in 1 .. Len(z)
    PROVE  /\ Dirtied(z, f, i) \in Messages
           /\ Dirtied(z, f, i).file = z[i].file /\ Dirtied(z, f, i).flag = z[i].flag
<1>1. PICK m : m = z[i]
  OBVIOUS
<1>2. m \in Messages
  BY <1>1, LenProperties
<1>3. Dirty(m) \in Messages /\ Dirty(m).file = m.file /\ Dirty(m).flag = m.flag
  BY <1>2, DirtyFacts
<1> QED BY <1>1, <1>2, <1>3 DEF Dirtied

LEMMA StartsInFacts ==
    ASSUME NEW s \in Seq(Messages), NEW f PROVE StartsIn(s, f) <=> Started(s, 0, Len(s), f)
<1>1. Len(s) \in Nat /\ DOMAIN s = 0 + 1 .. Len(s)
  BY LenProperties
<1> QED BY <1>1 DEF StartsIn, Started

LEMMA SpoiledFacts ==
    ASSUME NEW s \in Seq(Messages), NEW f
    PROVE  /\ Spoiled(s, f) \in Seq(Messages) /\ Len(Spoiled(s, f)) = Len(s)
           /\ \A i \in 1 .. Len(s) : Spoiled(s, f)[i] = Dirtied(s, f, i)
<1>1. Len(s) \in Nat /\ DOMAIN s = 1 .. Len(s)
  BY LenProperties
<1>2. ASSUME NEW i \in 1 .. Len(s) PROVE StartsIn(SubSeq(s, 1, i), f) <=> Started(s, 0, i, f)
  <2>1. PICK p : p = SubSeq(s, 1, i)
    OBVIOUS
  <2>2. \A k \in 1 .. i : s[k] \in Messages
    BY <1>1, LenProperties
  <2>3. /\ p \in Seq(Messages) /\ Len(p) = IF 1 <= i THEN i - 1 + 1 ELSE 0
        /\ \A k \in 1 .. i - 1 + 1 : p[k] = s[1 + k - 1]
    BY <2>1, <2>2, SubSeqProperties
  <2>4. DOMAIN p = 1 .. i /\ \A k \in 1 .. i : p[k] = s[k]
    <3>1. i - 1 + 1 = i /\ 1 <= i /\ i \in Nat
      BY <1>1
    <3>2. \A k \in 1 .. i : p[k] = s[1 + k - 1] /\ 1 + k - 1 = k
      BY <2>3, <3>1
    <3>3. Len(p) = i
      BY <2>3, <3>1
    <3>4. DOMAIN p = 1 .. i
      BY <2>3, <3>3, LenProperties
    <3> QED BY <3>2, <3>4
  <2>5. 0 + 1 .. i = 1 .. i
    OBVIOUS
  <2> QED BY <2>1, <2>4, <2>5 DEF StartsIn, Started
<1>3. ASSUME NEW i \in 1 .. Len(s) PROVE Spoiled(s, f)[i] = Dirtied(s, f, i)
  BY <1>1, <1>2 DEF Spoiled, Dirtied, Dirty
<1>4. \A i \in 1 .. Len(s) : Dirtied(s, f, i) \in Messages
  BY DirtiedFacts
<1>5. PICK x : x = Spoiled(s, f)
  OBVIOUS
<1>6. DOMAIN x = 1 .. Len(s) /\ \A i \in 1 .. Len(s) : x[i] \in Messages
  BY <1>1, <1>3, <1>4, <1>5 DEF Spoiled
<1>7. x \in [1 .. Len(s) -> Messages]
  BY <1>5, <1>6 DEF Spoiled
<1>8. x \in Seq(Messages) /\ Len(x) = Len(s)
  BY <1>1, <1>7
<1> QED BY <1>3, <1>5, <1>8

\* q lost messages of f at a + 1 .. b; what is behind them is z.
CutBefore(q, r, z, a, b, f) ==
    /\ a \in Nat /\ b \in Nat /\ a <= b
    /\ Len(q) = b + Len(z) /\ Len(r) = a + Len(z)
    /\ \A i \in 1 .. a : r[i] = q[i]
    /\ \A i \in a + 1 .. b : q[i].file = f
    /\ \A i \in 1 .. Len(z) : q[b + i] = z[i] /\ r[a + i] = Dirtied(z, f, i)

LEMMA CutByPosition ==
    ASSUME NEW q \in Seq(Messages), NEW r \in Seq(Messages), NEW z \in Seq(Messages),
           NEW a, NEW b, NEW f, CutBefore(q, r, z, a, b, f)
    PROVE  /\ Cut(q, r, a, b, {f})
           /\ \A g : Started(r, a, Len(r), g) <=> StartsIn(z, g)
<1> USE DEF CutBefore
<1>1. /\ Len(z) \in Nat /\ Len(q) \in Nat /\ Len(r) \in Nat /\ a \in Nat /\ b \in Nat /\ a <= b
      /\ Len(q) = b + Len(z) /\ Len(r) = a + Len(z)
  BY LenProperties
<1>2. \A i \in 1 .. Len(z) : r[a + i].file = z[i].file /\ r[a + i].flag = z[i].flag
  BY DirtiedFacts
<1>3. \A i \in 1 .. Len(z) : q[b + i] = z[i] /\ r[a + i] = Dirtied(z, f, i)
  OBVIOUS
<1>4. (\A i \in 1 .. a : r[i] = q[i]) /\ \A i \in a + 1 .. b : q[i].file = f
  OBVIOUS
<1> HIDE DEF CutBefore
<1>5. ASSUME NEW i \in 1 .. Len(z), NEW g PROVE Started(r, a, a + i, g) <=> Started(z, 0, i, g)
  <2>1. i \in Nat /\ \A k \in 1 .. i : k \in 1 .. Len(z)
    BY <1>1
  <2>2. \A k \in 1 .. i : r[a + k].file = z[k].file /\ r[a + k].flag = z[k].flag
    BY <1>2, <2>1
  <2> QED BY <1>1, <2>1, <2>2, StartedSame
<1>6. ASSUME NEW i \in a + 1 .. Len(r)
      PROVE  r[i] = IF q[i + (b - a)].file \in {f} /\ ~Started(r, a, i, q[i + (b - a)].file)
                    THEN Dirty(q[i + (b - a)]) ELSE q[i + (b - a)]
  <2>1. PICK k : k = i - a
    OBVIOUS
  <2>2. k \in 1 .. Len(z) /\ a + k = i /\ b + k = i + (b - a)
    BY <1>1, <2>1
  <2>3. r[i] = Dirtied(z, f, k) /\ q[i + (b - a)] = z[k]
    BY <1>3, <2>2
  <2>4. Started(r, a, i, f) <=> Started(z, 0, k, f)
    BY <1>5, <2>2
  <2> QED BY <2>3, <2>4 DEF Dirtied
<1>7. b \in a .. Len(q) /\ Len(r) = Len(q) - (b - a)
  BY <1>1
<1>8. ASSUME NEW g PROVE Started(r, a, Len(r), g) <=> StartsIn(z, g)
  <2>1. Started(r, a, a + Len(z), g) <=> Started(z, 0, Len(z), g)
    BY <1>1, <1>2, StartedSame
  <2> QED BY <1>1, <2>1, StartsInFacts
<1>9. Cut(q, r, a, b, {f})
  BY <1>1, <1>6, <1>7, <1>4 DEF Cut
<1> QED BY <1>8, <1>9

\* What x \o y is made of.
LEMMA JoinFacts ==
    ASSUME NEW x \in Seq(Messages), NEW y \in Seq(Messages)
    PROVE  /\ x \o y \in Seq(Messages) /\ Len(x \o y) = Len(x) + Len(y)
           /\ Len(x) \in Nat /\ Len(y) \in Nat
           /\ \A i \in 1 .. Len(x) : (x \o y)[i] = x[i]
           /\ \A i \in 1 .. Len(y) : (x \o y)[Len(x) + i] = y[i]
<1>1. Len(x) \in Nat /\ Len(y) \in Nat
  BY LenProperties
<1>2. /\ x \o y \in Seq(Messages) /\ Len(x \o y) = Len(x) + Len(y)
      /\ \A i \in 1 .. Len(x) + Len(y) : (x \o y)[i] = IF i <= Len(x) THEN x[i] ELSE y[i - Len(x)]
  BY ConcatProperties
<1>3. ASSUME NEW i \in 1 .. Len(y) PROVE (x \o y)[Len(x) + i] = y[i]
  <2>1. Len(x) + i \in 1 .. Len(x) + Len(y) /\ ~(Len(x) + i <= Len(x)) /\ (Len(x) + i) - Len(x) = i
    BY <1>1
  <2> QED BY <1>2, <2>1
<1>4. ASSUME NEW i \in 1 .. Len(x) PROVE (x \o y)[i] = x[i]
  BY <1>1, <1>2
<1> QED BY <1>1, <1>2, <1>3, <1>4

LEMMA TailFacts ==
    ASSUME NEW s \in Seq(Messages), s # <<>>
    PROVE  /\ Head(s) \in Messages /\ Head(s) = s[1] /\ Len(s) \in Nat \ {0}
           /\ Tail(s) \in Seq(Messages) /\ Len(Tail(s)) = Len(s) - 1
           /\ \A i \in 1 .. Len(s) - 1 : Tail(s)[i] = s[i + 1]
<1>1. Len(s) \in Nat \ {0}
  BY EmptySeq
<1>2. /\ Head(s) \in Messages /\ Tail(s) \in Seq(Messages) /\ Len(Tail(s)) = Len(s) - 1
      /\ \A i \in 1 .. Len(Tail(s)) : Tail(s)[i] = s[i + 1]
  BY HeadTailProperties
<1>3. Head(s) = s[1]
  OBVIOUS
<1> QED BY <1>1, <1>2, <1>3

\* HandledBadly: the first message is lost.
LEMMA CutFirst ==
    ASSUME NEW x \in Seq(Messages), NEW y \in Seq(Messages), x # <<>>, NEW f, f = Head(x).file,
           NEW x2, x2 = Spoiled(Tail(x), f),
           NEW y2, y2 = IF StartsIn(Tail(x), f) THEN y ELSE Spoiled(y, f)
    PROVE  /\ x2 \o y2 \in Seq(Messages)
           /\ Cut(x \o y, x2 \o y2, 0, 1, {f})
           /\ \A g : Started(x2 \o y2, 0, Len(x2 \o y2), g) <=> StartsIn(Tail(x) \o y, g)
<1>1. PICK t : t = Tail(x)
  OBVIOUS
<1>2. /\ t \in Seq(Messages) /\ Len(t) = Len(x) - 1 /\ x[1].file = f /\ Len(x) \in Nat \ {0}
      /\ Len(t) \in Nat /\ \A i \in 1 .. Len(t) : t[i] = x[i + 1]
  BY <1>1, TailFacts
<1>3. x2 \in Seq(Messages) /\ Len(x2) = Len(t) /\ \A i \in 1 .. Len(t) : x2[i] = Dirtied(t, f, i)
  BY <1>1, <1>2, SpoiledFacts
<1>4. /\ y2 \in Seq(Messages) /\ Len(y2) = Len(y) /\ Len(y) \in Nat
      /\ \A i \in 1 .. Len(y) :
             y2[i] = IF Started(t, 0, Len(t), f) THEN y[i] ELSE Dirtied(y, f, i)
  <2>1. StartsIn(t, f) <=> Started(t, 0, Len(t), f)
    BY <1>2, StartsInFacts
  <2>2. /\ Spoiled(y, f) \in Seq(Messages) /\ Len(Spoiled(y, f)) = Len(y)
        /\ \A i \in 1 .. Len(y) : Spoiled(y, f)[i] = Dirtied(y, f, i)
    BY SpoiledFacts
  <2> QED BY <1>1, <2>1, <2>2, LenProperties
<1>5. PICK q : q = x \o y
  OBVIOUS
<1>6. PICK r : r = x2 \o y2
  OBVIOUS
<1>7. PICK z : z = t \o y
  OBVIOUS
<1>8. /\ q \in Seq(Messages) /\ Len(q) = Len(x) + Len(y)
      /\ \A i \in 1 .. Len(x) : q[i] = x[i]
      /\ \A i \in 1 .. Len(y) : q[Len(x) + i] = y[i]
  BY <1>5, JoinFacts
<1>9. /\ r \in Seq(Messages) /\ Len(r) = Len(t) + Len(y)
      /\ \A i \in 1 .. Len(t) : r[i] = x2[i]
      /\ \A i \in 1 .. Len(y) : r[Len(t) + i] = y2[i]
  <2>1. /\ r \in Seq(Messages) /\ Len(r) = Len(x2) + Len(y2)
        /\ \A i \in 1 .. Len(x2) : r[i] = x2[i]
        /\ \A i \in 1 .. Len(y2) : r[Len(x2) + i] = y2[i]
    <3>1. x2 \in Seq(Messages) /\ y2 \in Seq(Messages)
      BY <1>3, <1>4
    <3> QED BY <1>6, <3>1, JoinFacts
  <2>2. Len(x2) = Len(t) /\ Len(y2) = Len(y)
    BY <1>3, <1>4
  <2> QED BY <2>1, <2>2
<1>10. /\ z \in Seq(Messages) /\ Len(z) = Len(t) + Len(y)
       /\ \A i \in 1 .. Len(t) : z[i] = t[i]
       /\ \A i \in 1 .. Len(y) : z[Len(t) + i] = y[i]
  BY <1>2, <1>7, JoinFacts
<1>11. ASSUME NEW i \in 1 .. Len(z) PROVE q[1 + i] = z[i] /\ r[0 + i] = Dirtied(z, f, i)
  <2>1. CASE i \in 1 .. Len(t)
    <3>1. 1 + i \in 1 .. Len(x) /\ 1 + i = i + 1
      BY <1>2, <2>1
    <3>2. q[1 + i] = z[i]
      BY <1>2, <1>8, <1>10, <2>1, <3>1
    <3>3. Started(z, 0, i, f) <=> Started(t, 0, i, f)
      <4>1. \A k \in 0 + 1 .. i : z[k] = t[k]
        <5>1. \A k \in 0 + 1 .. i : k \in 1 .. Len(t)
          BY <1>2, <2>1
        <5> QED BY <1>10, <5>1
      <4> QED BY <4>1 DEF Started
    <3>4. r[i] = Dirtied(t, f, i)
      BY <1>3, <1>9, <2>1
    <3> QED BY <1>10, <2>1, <3>2, <3>3, <3>4 DEF Dirtied
  <2>2. CASE i \in Len(t) + 1 .. Len(t) + Len(y)
    <3>1. PICK k : k = i - Len(t)
      OBVIOUS
    <3>2. k \in 1 .. Len(y) /\ Len(t) + k = i /\ Len(x) + k = 1 + i
      BY <1>2, <1>4, <2>2, <3>1
    <3>3. q[1 + i] = z[i] /\ z[i] = y[k] /\ r[i] = y2[k]
      BY <1>8, <1>9, <1>10, <3>2
    <3>4. Started(z, 0, i, f) <=> Started(t, 0, Len(t), f) \/ Started(y, 0, k, f)
      <4>1. ASSUME Started(z, 0, i, f) PROVE Started(t, 0, Len(t), f) \/ Started(y, 0, k, f)
        <5>1. PICK l \in 0 + 1 .. i : z[l].file = f /\ z[l].flag = "start"
          BY <4>1 DEF Started
        <5>2. CASE l \in 1 .. Len(t)
          BY <1>10, <5>1, <5>2 DEF Started
        <5>3. CASE l \in Len(t) + 1 .. i
          <6>1. l - Len(t) \in 0 + 1 .. k /\ l - Len(t) \in 1 .. Len(y) /\ Len(t) + (l - Len(t)) = l
            BY <1>2, <1>4, <3>2, <5>3
          <6>2. y[l - Len(t)] = z[l]
            BY <1>10, <6>1
          <6> QED BY <5>1, <6>1, <6>2 DEF Started
        <5>4. l \in 1 .. Len(t) \/ l \in Len(t) + 1 .. i
          BY <1>2
        <5> QED BY <5>2, <5>3, <5>4
      <4>2. ASSUME Started(t, 0, Len(t), f) PROVE Started(z, 0, i, f)
        <5>1. PICK l \in 0 + 1 .. Len(t) : t[l].file = f /\ t[l].flag = "start"
          BY <4>2 DEF Started
        <5>2. l \in 1 .. Len(t) /\ l \in 0 + 1 .. i
          BY <1>2, <2>2
        <5> QED BY <1>10, <5>1, <5>2 DEF Started
      <4>3. ASSUME Started(y, 0, k, f) PROVE Started(z, 0, i, f)
        <5>1. PICK l \in 0 + 1 .. k : y[l].file = f /\ y[l].flag = "start"
          BY <4>3 DEF Started
        <5>2. l \in 1 .. Len(y) /\ Len(t) + l \in 0 + 1 .. i
          BY <1>2, <1>4, <3>2
        <5> QED BY <1>10, <5>1, <5>2 DEF Started
      <4> QED BY <4>1, <4>2, <4>3
    <3>5. y2[k] = IF Started(t, 0, Len(t), f) THEN y[k] ELSE Dirtied(y, f, k)
      BY <1>4, <3>2
    <3>6. r[i] = Dirtied(z, f, i)
      BY <3>3, <3>4, <3>5 DEF Dirtied
    <3> QED BY <3>3, <3>6
  <2>3. i \in 1 .. Len(t) \/ i \in Len(t) + 1 .. Len(t) + Len(y)
    BY <1>2, <1>4, <1>10
  <2> QED BY <2>1, <2>2, <2>3
<1>12. /\ Len(q) = 1 + Len(z) /\ Len(r) = 0 + Len(z)
       /\ \A i \in 1 .. 0 : r[i] = q[i]
       /\ \A i \in 0 + 1 .. 1 : q[i].file = f
  <2>1. 1 \in 1 .. Len(x)
    BY <1>2
  <2>2. q[1].file = f
    BY <1>2, <1>8, <2>1
  <2>3. Len(q) = 1 + Len(z) /\ Len(r) = 0 + Len(z)
    BY <1>2, <1>4, <1>8, <1>9, <1>10
  <2> QED BY <2>2, <2>3
<1>13. /\ Cut(q, r, 0, 1, {f})
       /\ \A g : Started(r, 0, Len(r), g) <=> StartsIn(z, g)
  <2>1. q \in Seq(Messages) /\ r \in Seq(Messages) /\ z \in Seq(Messages)
    BY <1>8, <1>9, <1>10
  <2>2. 0 \in Nat /\ 1 \in Nat /\ 0 <= 1
    OBVIOUS
  <2>3. CutBefore(q, r, z, 0, 1, f)
    BY <1>11, <1>12, <2>2 DEF CutBefore
  <2> QED BY <2>1, <2>3, CutByPosition
<1> QED BY <1>1, <1>5, <1>6, <1>7, <1>9, <1>13

\* LinkCancels: the first message of list_tx is lost.
LEMMA CutMiddle ==
    ASSUME NEW x \in Seq(Messages), NEW y \in Seq(Messages), y # <<>>, NEW f, f = Head(y).file,
           NEW y2, y2 = Spoiled(Tail(y), f)
    PROVE  /\ y2 \in Seq(Messages)
           /\ Cut(x \o y, x \o y2, Len(x), Len(x) + 1, {f})
           /\ \A g : Started(x \o y2, Len(x), Len(x \o y2), g) <=> StartsIn(Tail(y), g)
<1>1. PICK t : t = Tail(y)
  OBVIOUS
<1>2. /\ t \in Seq(Messages) /\ Len(t) = Len(y) - 1 /\ y[1].file = f /\ Len(y) \in Nat \ {0}
      /\ Len(t) \in Nat /\ \A i \in 1 .. Len(t) : t[i] = y[i + 1]
  BY <1>1, TailFacts
<1>3. y2 \in Seq(Messages) /\ Len(y2) = Len(t) /\ \A i \in 1 .. Len(t) : y2[i] = Dirtied(t, f, i)
  BY <1>1, <1>2, SpoiledFacts
<1>4. PICK q : q = x \o y
  OBVIOUS
<1>5. PICK r : r = x \o y2
  OBVIOUS
<1>6. /\ q \in Seq(Messages) /\ Len(q) = Len(x) + Len(y) /\ Len(x) \in Nat
      /\ \A i \in 1 .. Len(x) : q[i] = x[i]
      /\ \A i \in 1 .. Len(y) : q[Len(x) + i] = y[i]
  BY <1>4, JoinFacts
<1>7. /\ r \in Seq(Messages) /\ Len(r) = Len(x) + Len(t)
      /\ \A i \in 1 .. Len(x) : r[i] = x[i]
      /\ \A i \in 1 .. Len(t) : r[Len(x) + i] = y2[i]
  BY <1>3, <1>5, JoinFacts
<1>8. ASSUME NEW i \in 1 .. Len(t)
      PROVE  q[(Len(x) + 1) + i] = t[i] /\ r[Len(x) + i] = Dirtied(t, f, i)
  <2>1. i + 1 \in 1 .. Len(y) /\ (Len(x) + 1) + i = Len(x) + (i + 1)
    BY <1>2, <1>6
  <2> QED BY <1>2, <1>3, <1>6, <1>7, <2>1
<1>9. /\ Len(q) = (Len(x) + 1) + Len(t) /\ Len(x) + 1 \in Nat /\ Len(x) <= Len(x) + 1
      /\ \A i \in Len(x) + 1 .. Len(x) + 1 : i = Len(x) + 1
      /\ 1 \in 1 .. Len(y)
  BY <1>2, <1>6
<1>10. \A i \in Len(x) + 1 .. Len(x) + 1 : q[i].file = f
  BY <1>2, <1>6, <1>9
<1>11. \A i \in 1 .. Len(x) : r[i] = q[i]
  BY <1>6, <1>7
<1>12. /\ Cut(q, r, Len(x), Len(x) + 1, {f})
       /\ \A g : Started(r, Len(x), Len(r), g) <=> StartsIn(t, g)
  <2>1. /\ q \in Seq(Messages) /\ r \in Seq(Messages) /\ t \in Seq(Messages)
        /\ Len(x) \in Nat /\ Len(r) = Len(x) + Len(t)
    BY <1>2, <1>6, <1>7
  <2>2. CutBefore(q, r, t, Len(x), Len(x) + 1, f)
    BY <1>8, <1>9, <1>10, <1>11, <2>1 DEF CutBefore
  <2> QED BY <2>1, <2>2, CutByPosition
<1> QED BY <1>1, <1>3, <1>4, <1>5, <1>12

\* LinkFails: all of list_tx is lost, or all but the first message.
LEMMA CutLast ==
    ASSUME NEW x \in Seq(Messages), NEW y \in Seq(Messages), y # <<>>,
           NEW x2, x2 = x \/ x2 = Append(x, Head(y)),
           NEW hit, \A i \in DOMAIN y : y[i].file \in hit
    PROVE  /\ x2 \in Seq(Messages)
           /\ Cut(x \o y, x2 \o <<>>, Len(x2), Len(x \o y), hit)
<1>1. Head(y) \in Messages /\ Head(y) = y[1] /\ Len(y) \in Nat \ {0} /\ Len(x) \in Nat
  BY TailFacts, LenProperties
<1>2. PICK q : q = x \o y
  OBVIOUS
<1>3. /\ q \in Seq(Messages) /\ Len(q) = Len(x) + Len(y)
      /\ \A i \in 1 .. Len(x) : q[i] = x[i]
      /\ \A i \in 1 .. Len(y) : q[Len(x) + i] = y[i]
  BY <1>2, JoinFacts
<1>4. /\ x2 \in Seq(Messages) /\ Len(x2) \in Len(x) .. Len(x) + 1
      /\ \A i \in 1 .. Len(x2) : x2[i] = q[i]
  <2>1. CASE x2 = x
    BY <1>1, <1>3, <2>1
  <2>2. CASE x2 = Append(x, Head(y))
    <3>1. /\ x2 \in Seq(Messages) /\ Len(x2) = Len(x) + 1
          /\ \A i \in 1 .. Len(x) : x2[i] = x[i]
          /\ x2[Len(x) + 1] = y[1]
      BY <1>1, <2>2, AppendProperties
    <3>2. 1 \in 1 .. Len(y)
      BY <1>1
    <3>3. \A i \in 1 .. Len(x) + 1 : i \in 1 .. Len(x) \/ i = Len(x) + 1
      BY <1>1
    <3> QED BY <1>1, <1>3, <3>1, <3>2, <3>3
  <2> QED BY <2>1, <2>2
<1>5. ASSUME NEW i \in Len(x2) + 1 .. Len(q) PROVE q[i].file \in hit
  <2>1. i - Len(x) \in 1 .. Len(y) /\ Len(x) + (i - Len(x)) = i
    BY <1>1, <1>3, <1>4
  <2>2. DOMAIN y = 1 .. Len(y)
    BY LenProperties
  <2> QED BY <1>3, <2>1, <2>2
<1>6. x2 \o <<>> = x2
  BY <1>4, ConcatEmptySeq
<1>7. Len(x2) \in Nat /\ Len(q) \in Len(x2) .. Len(q) /\ Len(x2) = Len(q) - (Len(q) - Len(x2))
  BY <1>1, <1>3, <1>4
<1>8. Cut(q, x2, Len(x2), Len(q), hit)
  <2>1. \A k \in Nat : k + 1 .. k = {}
    OBVIOUS
  <2>2. Len(x2) + 1 .. Len(x2) = {}
    BY <1>7, <2>1
  <2> QED BY <1>4, <1>5, <1>7, <2>2 DEF Cut
<1> QED BY <1>2, <1>4, <1>6, <1>8

\* Reset: all of list_rx is lost.
LEMMA CutReceived ==
    ASSUME NEW x \in Seq(Messages), NEW y \in Seq(Messages),
           NEW hit, \A f : f \in hit <=> \E i \in DOMAIN x : x[i].file = f,
           NEW y2, y2 = [i \in DOMAIN y |->
                            IF y[i].file \in hit THEN Spoiled(y, y[i].file)[i] ELSE y[i]]
    PROVE  /\ y2 \in Seq(Messages)
           /\ Cut(x \o y, <<>> \o y2, 0, Len(x), hit)
           /\ \A g : Started(<<>> \o y2, 0, Len(<<>> \o y2), g) <=> StartsIn(y, g)
<1>1. Len(x) \in Nat /\ Len(y) \in Nat /\ DOMAIN x = 1 .. Len(x) /\ DOMAIN y = 1 .. Len(y)
  BY LenProperties
<1>2. ASSUME NEW i \in 1 .. Len(y)
      PROVE  /\ y2[i] = IF y[i].file \in hit THEN Dirtied(y, y[i].file, i) ELSE y[i]
             /\ y2[i] \in Messages /\ y2[i].file = y[i].file /\ y2[i].flag = y[i].flag
  <2>1. PICK f : f = y[i].file
    OBVIOUS
  <2>2. Spoiled(y, f)[i] = Dirtied(y, f, i)
    BY SpoiledFacts
  <2>3. /\ Dirtied(y, f, i) \in Messages
        /\ Dirtied(y, f, i).file = y[i].file /\ Dirtied(y, f, i).flag = y[i].flag
    BY DirtiedFacts
  <2>4. y[i] \in Messages
    BY LenProperties
  <2>5. y2[i] = IF f \in hit THEN Dirtied(y, f, i) ELSE y[i]
    BY <1>1, <2>1, <2>2
  <2> QED BY <2>1, <2>3, <2>4, <2>5
<1>3. y2 \in Seq(Messages) /\ Len(y2) = Len(y)
  <2>1. DOMAIN y2 = 1 .. Len(y) /\ \A i \in 1 .. Len(y) : y2[i] \in Messages
    BY <1>1, <1>2
  <2>2. y2 \in [1 .. Len(y) -> Messages]
    BY <2>1
  <2> QED BY <1>1, <2>2
<1>4. <<>> \o y2 = y2
  BY <1>3, ConcatEmptySeq
<1>5. PICK q : q = x \o y
  OBVIOUS
<1>6. /\ q \in Seq(Messages) /\ Len(q) = Len(x) + Len(y)
      /\ \A i \in 1 .. Len(x) : q[i] = x[i]
      /\ \A i \in 1 .. Len(y) : q[Len(x) + i] = y[i]
  BY <1>5, JoinFacts
<1>7. ASSUME NEW i \in 1 .. Len(y), NEW g PROVE Started(y2, 0, i, g) <=> Started(y, 0, i, g)
  <2>1. \A k \in 0 + 1 .. i : y2[k].file = y[k].file /\ y2[k].flag = y[k].flag
    <3>1. \A k \in 0 + 1 .. i : k \in 1 .. Len(y)
      BY <1>1
    <3> QED BY <1>2, <3>1
  <2> QED BY <2>1 DEF Started
<1>8. ASSUME NEW i \in 0 + 1 .. Len(y2)
      PROVE  y2[i] = IF q[i + (Len(x) - 0)].file \in hit /\ ~Started(y2, 0, i, q[i + (Len(x) - 0)].file)
                     THEN Dirty(q[i + (Len(x) - 0)]) ELSE q[i + (Len(x) - 0)]
  <2>1. i \in 1 .. Len(y) /\ i + (Len(x) - 0) = Len(x) + i
    BY <1>1, <1>3
  <2>2. q[i + (Len(x) - 0)] = y[i]
    BY <1>6, <2>1
  <2>3. y2[i] = IF y[i].file \in hit THEN Dirtied(y, y[i].file, i) ELSE y[i]
    BY <1>2, <2>1
  <2>4. Started(y2, 0, i, y[i].file) <=> Started(y, 0, i, y[i].file)
    BY <1>7, <2>1
  <2> QED BY <2>2, <2>3, <2>4 DEF Dirtied
<1>9. /\ 0 \in Nat /\ Len(x) \in 0 .. Len(q) /\ Len(y2) = Len(q) - (Len(x) - 0)
      /\ 1 .. 0 = {}
  BY <1>1, <1>3, <1>6
<1>10. \A i \in 0 + 1 .. Len(x) : q[i].file \in hit
  <2> SUFFICES ASSUME NEW i \in 0 + 1 .. Len(x) PROVE q[i].file \in hit
    OBVIOUS
  <2>1. i \in DOMAIN x /\ q[i] = x[i]
    BY <1>1, <1>6
  <2> QED BY <2>1
<1>11. Cut(q, y2, 0, Len(x), hit)
  BY <1>8, <1>9, <1>10 DEF Cut
<1>12. ASSUME NEW g PROVE Started(y2, 0, Len(y2), g) <=> StartsIn(y, g)
  <2>1. Started(y2, 0, Len(y2), g) <=> Started(y, 0, Len(y), g)
    <3>1. \A k \in 0 + 1 .. Len(y) : y2[k].file = y[k].file /\ y2[k].flag = y[k].flag
      BY <1>2
    <3> QED BY <1>3, <3>1, ZenonT(60) DEF Started
  <2> QED BY <2>1, StartsInFacts
<1> QED BY <1>3, <1>4, <1>5, <1>11, <1>12

-----------------------------------------------------------------------------
(***************************************************************************)
(* Contents of files.                                                      *)
(***************************************************************************)

Pieces == (Versions \X Nat) \union {Torn}

LEMMA FirstBlocksFacts ==
    ASSUME NEW v \in Versions, NEW n \in Nat
    PROVE  /\ FirstBlocks(v, n) \in Seq(Pieces)
           /\ Len(FirstBlocks(v, n)) = IF n > Blocks[v] THEN Blocks[v] ELSE n
           /\ \A i \in 1 .. (IF n > Blocks[v] THEN Blocks[v] ELSE n) : FirstBlocks(v, n)[i] = <<v, i>>
<1>1. PICK k : k = IF n > Blocks[v] THEN Blocks[v] ELSE n
  OBVIOUS
<1>2. k \in Nat
  BY <1>1, VersionFacts
<1>3. FirstBlocks(v, n) = [i \in 1 .. k |-> <<v, i>>]
  BY <1>1 DEF FirstBlocks
<1>4. \A i \in 1 .. k : <<v, i>> \in Pieces
  BY <1>2 DEF Pieces
<1>5. [i \in 1 .. k |-> <<v, i>>] \in [1 .. k -> Pieces]
  BY <1>4
<1>6. [i \in 1 .. k |-> <<v, i>>] \in Seq(Pieces) /\ Len([i \in 1 .. k |-> <<v, i>>]) = k
  BY <1>2, <1>5
<1>7. \A i \in 1 .. k : [j \in 1 .. k |-> <<v, j>>][i] = <<v, i>>
  OBVIOUS
<1> QED BY <1>1, <1>3, <1>6, <1>7

\* What write() appends for a message of a transfer is its block, if it has one.
LEMMA OneMoreBlock ==
    ASSUME NEW m, WellFormed(m), m.flag # "end", NEW bytes,
           bytes = IF m.block = 0 THEN <<>> ELSE << <<m.version, m.block>> >>
    PROVE  /\ bytes \in Seq(Pieces)
           /\ FirstBlocks(m.version, Number(m) - 1) \o bytes = FirstBlocks(m.version, Number(m))
<1>1. PICK v : v = m.version
  OBVIOUS
<1>2. PICK n : n = Number(m)
  OBVIOUS
<1>3. /\ v \in Versions /\ n \in Nat \ {0} /\ n - 1 \in Nat /\ m.block \in Nat
      /\ m.block = IF n > Blocks[v] THEN 0 ELSE n
      /\ m.flag \in {"start", "continue"}
  BY <1>1, <1>2, NumberFacts DEF WellFormed, Messages
<1>4. Blocks[v] \in Nat
  BY <1>3, VersionFacts
<1>5. PICK x : x = FirstBlocks(v, n - 1)
  OBVIOUS
<1>6. PICK z : z = FirstBlocks(v, n)
  OBVIOUS
<1>7. /\ x \in Seq(Pieces) /\ Len(x) = IF n - 1 > Blocks[v] THEN Blocks[v] ELSE n - 1
      /\ \A i \in 1 .. (IF n - 1 > Blocks[v] THEN Blocks[v] ELSE n - 1) : x[i] = <<v, i>>
  BY <1>3, <1>5, FirstBlocksFacts
<1>8. /\ z \in Seq(Pieces) /\ Len(z) = IF n > Blocks[v] THEN Blocks[v] ELSE n
      /\ \A i \in 1 .. (IF n > Blocks[v] THEN Blocks[v] ELSE n) : z[i] = <<v, i>>
  BY <1>3, <1>6, FirstBlocksFacts
<1>9. CASE n > Blocks[v]
  \* The only message of an empty file.
  <2>1. n = 1 /\ Blocks[v] = 0
    <3>1. CASE m.flag = "start"
      BY <1>2, <1>3, <1>4, <1>9, <3>1 DEF Number
    <3>2. CASE m.flag = "continue"
      <4>1. n \in 2 .. Blocks[v]
        BY <1>1, <1>2, <3>2 DEF WellFormed
      <4> QED BY <1>4, <1>9, <4>1
    <3> QED BY <1>3, <3>1, <3>2
  <2>2. bytes = <<>> /\ bytes \in Seq(Pieces)
    BY <1>3, <1>9
  <2>3. Len(x) = 0 /\ Len(z) = 0
    BY <1>7, <1>8, <2>1
  <2>4. x = <<>> /\ z = <<>>
    BY <1>7, <1>8, <2>3
  <2>5. x \o bytes = z
    BY <1>7, <2>2, <2>4, ConcatEmptySeq
  <2> QED BY <1>1, <1>2, <1>5, <1>6, <2>2, <2>5
<1>10. CASE n <= Blocks[v]
  <2>1. bytes = << <<v, n>> >> /\ <<v, n>> \in Pieces
    <3>1. m.block = n /\ n # 0
      BY <1>3, <1>4, <1>10
    <3>2. bytes = << <<v, n>> >>
      BY <1>1, <3>1
    <3>3. <<v, n>> \in Pieces
      BY <1>3 DEF Pieces
    <3> QED BY <3>2, <3>3
  <2>2. bytes \in Seq(Pieces) /\ Len(bytes) = 1 /\ bytes[1] = <<v, n>>
    <3>1. PICK e : e = <<v, n>>
      OBVIOUS
    <3>2. bytes = <<e>> /\ e \in Pieces
      BY <2>1, <3>1
    <3> QED BY <3>1, <3>2, SMTT(60)
  <2>3. Len(x) = n - 1 /\ \A i \in 1 .. n - 1 : x[i] = <<v, i>>
    BY <1>3, <1>4, <1>7, <1>10
  <2>4. Len(z) = n /\ \A i \in 1 .. n : z[i] = <<v, i>>
    BY <1>3, <1>4, <1>8, <1>10
  <2>5. PICK y : y = x \o bytes
    OBVIOUS
  <2>6. /\ y \in Seq(Pieces) /\ Len(y) = Len(x) + Len(bytes)
        /\ \A i \in 1 .. Len(x) + Len(bytes) : y[i] = IF i <= Len(x) THEN x[i] ELSE bytes[i - Len(x)]
    BY <1>7, <2>2, <2>5, ConcatProperties, SMTT(60)
  <2>7. Len(x) + Len(bytes) = n
    BY <1>3, <2>2, <2>3
  <2>8. ASSUME NEW i \in 1 .. n PROVE y[i] = z[i]
    <3>1. CASE i <= n - 1
      <4>1. i \in 1 .. n - 1
        BY <1>3, <3>1
      <4> QED BY <2>3, <2>4, <2>6, <2>7, <3>1, <4>1
    <3>2. CASE i = n
      <4>1. ~(i <= n - 1) /\ i - (n - 1) = 1
        BY <1>3, <3>2
      <4>2. y[i] = bytes[i - (n - 1)]
        BY <2>3, <2>6, <2>7, <4>1
      <4>3. z[i] = <<v, n>>
        BY <2>4, <3>2
      <4> QED BY <2>2, <4>1, <4>2, <4>3
    <3>3. i <= n - 1 \/ i = n
      BY <1>3
    <3> QED BY <3>1, <3>2, <3>3
  <2>9. y = z
    BY <1>8, <2>4, <2>6, <2>7, <2>8, SeqEqual
  <2> QED BY <1>1, <1>2, <1>5, <1>6, <2>2, <2>5, <2>9
<1> QED BY <1>3, <1>4, <1>9, <1>10

\* Before the end all of the file has come.
LEMMA AllBlocks == ASSUME NEW v \in Versions PROVE FirstBlocks(v, Steps(v)) = Content(v)
<1>1. (IF Steps(v) > Blocks[v] THEN Blocks[v] ELSE Steps(v)) = Blocks[v]
  BY VersionFacts
<1> QED BY <1>1 DEF FirstBlocks, Content

LEMMA NoBlocks == ASSUME NEW v \in Versions PROVE FirstBlocks(v, 0) = <<>>
<1>1. FirstBlocks(v, 0) \in Seq(Pieces) /\ Len(FirstBlocks(v, 0)) = 0
  BY FirstBlocksFacts, VersionFacts
<1> QED BY <1>1

LEMMA TempFacts ==
    /\ \A f \in Files : Temp(f) \in Paths /\ Temp(f) # "blf"
    /\ \A f, g \in Files : f # g => Temp(f) # Temp(g)
    /\ Temp("blf") = "blf.sw" /\ Temp("fw") = "fw.tmp" /\ Temp("bcf") = "bcf"
<1>1. Temp("blf") = "blf.sw" /\ Temp("fw") = "fw.tmp" /\ Temp("bcf") = "bcf"
  BY DEF Temp
<1> QED BY <1>1 DEF Files, Paths

-----------------------------------------------------------------------------
(***************************************************************************)
(* Steps of the system in terms of the queue.                              *)
(***************************************************************************)

LEMMA TypeFacts ==
    ASSUME TypeOK
    PROVE  /\ list_rx \in Seq(Messages) /\ list_tx \in Seq(Messages) /\ queue \in Seq(Messages)
           /\ \A t \in Threads : job[t] # NoJob =>
                  job[t] \in Jobs /\ job[t].next <= Steps(job[t].version)
           /\ fs \in [Paths -> {Absent} \union Seq(Pieces)]
<1>1. list_rx \in Seq(Messages) /\ list_tx \in Seq(Messages)
  BY DEF TypeOK
<1>2. queue \in Seq(Messages)
  BY <1>1, JoinFacts DEF queue
<1>3. ASSUME NEW t \in Threads, job[t] # NoJob
      PROVE  job[t] \in Jobs /\ job[t].next <= Steps(job[t].version)
  <2>1. PICK j : j = job[t]
    OBVIOUS
  <2>2. j \in Jobs /\ (j.next <= 1 \/ j.next <= Blocks[j.version])
    BY <1>3, <2>1 DEF TypeOK, Jobs
  <2>3. j.next \in Nat /\ j.version \in Versions
    BY <2>2 DEF Jobs
  <2>4. j.next <= Steps(j.version)
    BY <2>2, <2>3, VersionFacts
  <2> QED BY <2>1, <2>2, <2>4
<1>4. fs \in [Paths -> {Absent} \union Seq(Pieces)]
  BY DEF TypeOK, Contents, Pieces
<1> QED BY <1>1, <1>2, <1>3, <1>4

\* What can become of a job other than sending: nothing, its end, or a spot.
JobLess(new, old) ==
    new = NoJob \/ new = old \/ (old # NoJob /\ new = [old EXCEPT !.clean = FALSE])

JobsType == /\ job \in [Threads -> {NoJob} \union Jobs]
            /\ \A t \in Threads : job[t] # NoJob =>
                   job[t].next <= 1 \/ job[t].next <= Blocks[job[t].version]

LEMMA JobLessFacts ==
    ASSUME TypeOK, job' = [t \in Threads |-> job'[t]],
           \A t \in Threads : JobLess(job'[t], job[t])
    PROVE  /\ JobsType'
           /\ \A t \in Threads : job'[t] # NoJob =>
                  /\ job[t] # NoJob /\ job'[t].file = job[t].file
                  /\ job'[t].clean => job'[t] = job[t]
<1>1. ASSUME NEW t \in Threads
      PROVE  /\ job'[t] \in {NoJob} \union Jobs
             /\ job'[t] # NoJob =>
                  /\ job'[t].next <= 1 \/ job'[t].next <= Blocks[job'[t].version]
                  /\ job[t] # NoJob /\ job'[t].file = job[t].file
                  /\ job'[t].clean => job'[t] = job[t]
  <2>1. PICK j : j = job[t]
    OBVIOUS
  <2>2. PICK k : k = job'[t]
    OBVIOUS
  <2>3. j \in {NoJob} \union Jobs /\ (j # NoJob => j.next <= 1 \/ j.next <= Blocks[j.version])
    BY <2>1 DEF TypeOK, Jobs
  <2>4. CASE k = NoJob
    BY <2>2, <2>4
  <2>5. CASE k = j
    BY <2>1, <2>2, <2>3, <2>5
  <2>6. CASE j # NoJob /\ k = [j EXCEPT !.clean = FALSE]
    <3>1. j \in Jobs
      BY <2>3, <2>6
    <3>2. /\ k \in Jobs /\ k.file = j.file /\ k.next = j.next /\ k.version = j.version
          /\ k.clean = FALSE
      BY <2>6, <3>1 DEF Jobs
    <3> QED BY <2>1, <2>2, <2>3, <2>6, <3>2
  <2>7. k = NoJob \/ k = j \/ (j # NoJob /\ k = [j EXCEPT !.clean = FALSE])
    BY <2>1, <2>2 DEF JobLess
  <2> QED BY <2>4, <2>5, <2>6, <2>7
<1>2. job' \in [Threads -> {NoJob} \union Jobs]
  BY <1>1
<1> QED BY <1>1, <1>2 DEF JobsType

\* A loss keeps the invariant if the jobs behind it are no longer clean.
LEMMA CutStep ==
    ASSUME FilesInv, NEW a, NEW b, NEW hit,
           queue' \in Seq(Messages), Cut(queue, queue', a, b, hit), Spares(a, hit, fs, fs'),
           job' = [t \in Threads |-> job'[t]],
           \A t \in Threads : JobLess(job'[t], job[t]),
           \A t \in Threads : job'[t] # NoJob /\ job'[t].clean /\ job[t].next > 0
                                  /\ job[t].file \in hit
                                  => Started(queue', a, Len(queue'), job[t].file)
    PROVE  QueueInv' /\ JobsInv' /\ JobsType'
<1>1. PICK q : q = queue
  OBVIOUS
<1>2. PICK r : r = queue'
  OBVIOUS
<1>3. PICK files : files = fs
  OBVIOUS
<1>4. PICK filesNew : filesNew = fs'
  OBVIOUS
<1>5. /\ q \in Seq(Messages) /\ r \in Seq(Messages) /\ Cut(q, r, a, b, hit)
      /\ Spares(a, hit, files, filesNew) /\ QueueOk(q, files)
  BY <1>1, <1>2, <1>3, <1>4, TypeFacts DEF FilesInv, QueueInv
<1>6. QueueOk(r, filesNew)
  BY <1>5, QueueCut
<1>7. QueueInv'
  BY <1>2, <1>4, <1>6 DEF QueueInv
<1>8. /\ JobsType'
      /\ \A t \in Threads : job'[t] # NoJob =>
             /\ job[t] # NoJob /\ job'[t].file = job[t].file
             /\ job'[t].clean => job'[t] = job[t]
  BY JobLessFacts DEF FilesInv
<1>9. ASSUME NEW t \in Threads, job'[t] # NoJob, job'[t].clean
      PROVE  /\ JobOk(job'[t], r, filesNew)
             /\ \A u \in Threads \ {t} : job'[u] # NoJob => job'[u].file # job'[t].file
  <2>1. PICK j : j = job[t]
    OBVIOUS
  <2>2. j # NoJob /\ job'[t] = j /\ j.clean
    BY <1>8, <1>9, <2>1
  <2>3. /\ JobOk(j, q, files)
        /\ \A u \in Threads \ {t} : job[u] # NoJob => job[u].file # j.file
    BY <1>1, <1>3, <2>1, <2>2 DEF FilesInv, JobsInv
  <2>4. j \in Jobs
    BY <2>1, <2>2, TypeFacts DEF FilesInv
  <2>5. j.next > 0 /\ j.file \in hit => Started(r, a, Len(r), j.file)
    BY <1>2, <1>9, <2>1
  <2>6. JobOk(j, r, filesNew)
    BY <1>5, <2>3, <2>4, <2>5, JobCut
  <2> QED BY <1>8, <2>2, <2>3, <2>6
<1>10. JobsInv'
  BY <1>2, <1>4, <1>9 DEF JobsInv
<1> QED BY <1>7, <1>8, <1>10

LEMMA JoinTail ==
    ASSUME NEW x \in Seq(Messages), NEW y \in Seq(Messages), x # <<>>
    PROVE  Tail(x) \o y = Tail(x \o y) /\ x \o y # <<>> /\ (x \o y)[1] = Head(x)
<1>1. PICK q : q = x \o y
  OBVIOUS
<1>2. PICK t : t = Tail(x)
  OBVIOUS
<1>3. /\ t \in Seq(Messages) /\ Len(t) = Len(x) - 1 /\ x[1] = Head(x) /\ Len(x) \in Nat \ {0}
      /\ \A i \in 1 .. Len(x) - 1 : t[i] = x[i + 1]
  BY <1>2, TailFacts
<1>4. /\ q \in Seq(Messages) /\ Len(q) = Len(x) + Len(y) /\ Len(y) \in Nat
      /\ \A i \in 1 .. Len(x) : q[i] = x[i]
      /\ \A i \in 1 .. Len(y) : q[Len(x) + i] = y[i]
  BY <1>1, JoinFacts
<1>5. 1 \in 1 .. Len(x) /\ Len(q) # 0 /\ Len(<<>>) = 0
  BY <1>3, <1>4
<1>6. q # <<>> /\ q[1] = Head(x)
  BY <1>3, <1>4, <1>5
<1>7. PICK w : w = Tail(q)
  OBVIOUS
<1>8. w \in Seq(Messages) /\ Len(w) = Len(q) - 1 /\ \A i \in 1 .. Len(q) - 1 : w[i] = q[i + 1]
  BY <1>4, <1>6, <1>7, TailFacts
<1>9. PICK z : z = t \o y
  OBVIOUS
<1>10. /\ z \in Seq(Messages) /\ Len(z) = Len(t) + Len(y)
       /\ \A i \in 1 .. Len(t) : z[i] = t[i]
       /\ \A i \in 1 .. Len(y) : z[Len(t) + i] = y[i]
  BY <1>3, <1>9, JoinFacts, ZenonT(60)
<1>11. Len(w) = Len(z)
  BY <1>3, <1>4, <1>8, <1>10
<1>12. ASSUME NEW i \in 1 .. Len(z) PROVE z[i] = w[i]
  <2>1. i \in 1 .. Len(q) - 1 /\ w[i] = q[i + 1]
    BY <1>8, <1>11
  <2>2. CASE i \in 1 .. Len(t)
    <3>1. i \in 1 .. Len(x) - 1 /\ i + 1 \in 1 .. Len(x)
      BY <1>3, <2>2
    <3> QED BY <1>3, <1>4, <1>10, <2>1, <2>2, <3>1
  <2>3. CASE i \in Len(t) + 1 .. Len(t) + Len(y)
    <3>1. PICK k : k = i - Len(t)
      OBVIOUS
    <3>2. k \in 1 .. Len(y) /\ Len(t) + k = i /\ Len(x) + k = i + 1
      BY <1>3, <1>4, <2>3, <3>1
    <3> QED BY <1>4, <1>10, <2>1, <3>2
  <2>4. i \in 1 .. Len(t) \/ i \in Len(t) + 1 .. Len(t) + Len(y)
    BY <1>3, <1>4, <1>10
  <2> QED BY <2>2, <2>3, <2>4
<1>13. z = w
  BY <1>8, <1>10, <1>11, <1>12, SeqEqual
<1> QED BY <1>1, <1>2, <1>6, <1>7, <1>9, <1>13

\* A message that was handled as it should leaves the invariant as it is, if what
\* it brought is behind what was collected before.
LEMMA TakeStep ==
    ASSUME FilesInv, list_rx # <<>>, Handled,
           \A f \in Files : f # Msg.file => fs'[Temp(f)] = fs[Temp(f)],
           Msg.clean /\ Msg.flag # "end" =>
               fs'[Temp(Msg.file)] = FirstBlocks(Msg.version, Number(Msg))
    PROVE  QueueInv' /\ JobsInv'
<1>1. PICK q : q = queue
  OBVIOUS
<1>2. PICK r : r = queue'
  OBVIOUS
<1>3. /\ q \in Seq(Messages) /\ q # <<>> /\ r = Tail(q) /\ q[1] = Msg
      /\ UNCHANGED job
  <2>1. list_rx \in Seq(Messages) /\ list_tx \in Seq(Messages) /\ queue \in Seq(Messages)
    BY TypeFacts DEF FilesInv
  <2>2. /\ Tail(list_rx) \o list_tx = Tail(list_rx \o list_tx) /\ list_rx \o list_tx # <<>>
        /\ (list_rx \o list_tx)[1] = Head(list_rx)
    BY <2>1, JoinTail
  <2>3. queue' = Tail(list_rx) \o list_tx
    BY DEF queue, Handled
  <2> QED BY <1>1, <1>2, <2>1, <2>2, <2>3 DEF queue, Msg, Handled
<1>4. /\ r \in Seq(Messages) /\ Len(q) \in Nat \ {0} /\ Len(r) = Len(q) - 1
      /\ \A i \in 1 .. Len(q) - 1 : r[i] = q[i + 1]
  BY <1>3, TailFacts
<1>5. PICK m : m = q[1]
  OBVIOUS
<1>6. QueueOk(q, fs)
  BY <1>1 DEF FilesInv, QueueInv
<1>7. WellFormed(m) /\ m = Msg /\ m.file \in Files /\ m.version \in Versions
  <2>1. 1 \in 1 .. Len(q)
    BY <1>4
  <2>2. WellFormed(m)
    BY <1>5, <1>6, <2>1 DEF QueueOk
  <2> QED BY <1>3, <1>5, <2>2, NumberFacts
<1>8. ASSUME NEW i \in 1 .. Len(q), NEW f \in Files, NEW v, NEW n \in Nat, n <= Steps(v),
             Behind(q, i + 1, f, v, n, fs[Temp(f)])
      PROVE  Behind(r, i, f, v, n, fs'[Temp(f)])
  <2>1. PICK c : c = fs[Temp(f)]
    OBVIOUS
  <2>2. PICK d : d = fs'[Temp(f)]
    OBVIOUS
  <2>3. m.file # f => d = c
    BY <1>7, <2>1, <2>2
  <2>4. ASSUME m.file = f, m.version = v, m.clean, Number(m) = n PROVE d = FirstBlocks(v, n)
    <3>1. m.flag # "end"
      <4> SUFFICES ASSUME m.flag = "end" PROVE FALSE
        OBVIOUS
      <4>1. n = Steps(v) + 1 /\ Steps(v) \in Nat
        BY <1>7, <2>4, NumberFacts, VersionFacts
      <4> QED BY <1>8, <4>1
    <3> QED BY <1>7, <2>2, <2>4, <3>1
  <2>5. Behind(q, i + 1, f, v, n, c)
    BY <1>8, <2>1
  <2>6. Behind(r, i, f, v, n, d)
    BY <1>3, <1>5, <2>3, <2>4, <2>5, BehindTake
  <2> QED BY <2>2, <2>6
<1>9. ASSUME NEW i \in 1 .. Len(r)
      PROVE  /\ WellFormed(r[i])
             /\ r[i].clean /\ r[i].flag # "start" =>
                    Behind(r, i, r[i].file, r[i].version, Number(r[i]) - 1, fs'[Temp(r[i].file)])
  <2>1. i \in 1 .. Len(q) /\ i + 1 \in 1 .. Len(q) /\ r[i] = q[i + 1]
    BY <1>4
  <2>2. PICK l : l = r[i]
    OBVIOUS
  <2>3. /\ WellFormed(l)
        /\ l.clean /\ l.flag # "start" =>
               Behind(q, i + 1, l.file, l.version, Number(l) - 1, fs[Temp(l.file)])
    BY <1>6, <2>1, <2>2 DEF QueueOk
  <2>4. /\ l.file \in Files /\ l.version \in Versions /\ Number(l) - 1 \in Nat
        /\ Number(l) - 1 <= Steps(l.version)
    <3>1. /\ l.file \in Files /\ l.version \in Versions /\ Number(l) \in Nat \ {0}
          /\ Number(l) <= Steps(l.version) + 1
      BY <2>3, NumberFacts
    <3>2. Steps(l.version) \in Nat
      BY <3>1, VersionFacts
    <3> QED BY <3>1, <3>2
  <2> QED BY <1>8, <2>1, <2>2, <2>3, <2>4
<1>10. QueueInv'
  BY <1>2, <1>9 DEF QueueInv, QueueOk
<1>11. ASSUME NEW t \in Threads, job[t] # NoJob, job[t].clean PROVE JobOk(job[t], r, fs')
  <2>1. PICK j : j = job[t]
    OBVIOUS
  <2>2. JobOk(j, q, fs) /\ j \in Jobs /\ j.next <= Steps(j.version)
    BY <1>1, <1>11, <2>1, TypeFacts DEF FilesInv, JobsInv
  <2>3. j.file \in Files /\ j.next \in Nat
    BY <2>2 DEF Jobs
  <2>4. Len(q) \in 1 .. Len(q) /\ Len(r) + 1 = Len(q)
    BY <1>4
  <2> QED BY <1>8, <2>1, <2>2, <2>3, <2>4 DEF JobOk
<1>12. JobsInv'
  BY <1>2, <1>3, <1>11 DEF FilesInv, JobsInv
<1> QED BY <1>10, <1>12

-----------------------------------------------------------------------------
(***************************************************************************)
(* The main board and the link.                                            *)
(***************************************************************************)

\* What a step that does not touch the extension board keeps.
LEMMA InstallsStay ==
    ASSUME CleanTransferInstalls, fs'["blf"] = fs["blf"], UNCHANGED <<last, upgrade>>
    PROVE  CleanTransferInstalls'
BY DEF CleanTransferInstalls, Good

\* Nothing changes that the queue and the jobs depend on.
LEMMA QueueStays ==
    ASSUME FilesInv, UNCHANGED <<list_tx, list_rx, fs>>,
           \A t \in Threads : job'[t] # NoJob => job[t] # NoJob /\ job'[t] = job[t]
    PROVE  QueueInv' /\ JobsInv'
<1>1. queue' = queue /\ fs' = fs
  BY DEF queue
<1>2. QueueInv'
  BY <1>1 DEF FilesInv, QueueInv
<1>3. JobsInv'
  BY <1>1 DEF FilesInv, JobsInv
<1> QED BY <1>2, <1>3

LEMMA FilesNewVersion == ASSUME FilesInv, NEW f \in Files, NewVersion(f) PROVE FilesInv'
<1>1. /\ version[f] + 1 \in Versions /\ version' = [version EXCEPT ![f] = @ + 1]
      /\ UNCHANGED <<wanted, job, pushes, list_tx, list_rx, fs, last, upgrade, faults>>
  BY DEF NewVersion, extVars
<1>2. version' \in [Files -> Versions]
  BY <1>1 DEF FilesInv, TypeOK
<1>3. TypeOK'
  BY <1>1, <1>2 DEF FilesInv, TypeOK
<1>4. QueueInv' /\ JobsInv'
  BY <1>1, QueueStays
<1>5. CleanTransferInstalls'
  BY <1>1, InstallsStay DEF FilesInv
<1> QED BY <1>3, <1>4, <1>5 DEF FilesInv

LEMMA FilesRequest == ASSUME FilesInv, NEW f, Request(f) PROVE FilesInv'
<1>1. /\ wanted' \subseteq Requests
      /\ UNCHANGED <<version, job, pushes, list_tx, list_rx, fs, last, upgrade, faults>>
  BY DEF Request, extVars, FilesInv, TypeOK
<1>2. TypeOK'
  BY <1>1 DEF FilesInv, TypeOK
<1>3. QueueInv' /\ JobsInv'
  BY <1>1, QueueStays
<1>4. CleanTransferInstalls'
  BY <1>1, InstallsStay DEF FilesInv
<1> QED BY <1>2, <1>3, <1>4 DEF FilesInv

\* A second transfer of a file takes the cleanness from both.
LEMMA FilesOpen ==
    ASSUME FilesInv, NEW t \in Threads, NEW f \in Files, Open(t, f),
           UNCHANGED <<list_tx, list_rx, fs>>
    PROVE  QueueInv' /\ JobsInv' /\ JobsType'
<1>1. PICK new : new = [file |-> f, version |-> version[f], next |-> 0, clean |-> ~Busy(f)]
  OBVIOUS
<1>2. Busy(f) \in BOOLEAN /\ version[f] \in Versions
  BY DEF Busy, FilesInv, TypeOK
<1>3. /\ new \in Jobs /\ new.file = f /\ new.next = 0 /\ new.clean = ~Busy(f)
  BY <1>1, <1>2 DEF Jobs
<1>4. job' = [u \in Threads |->
                 IF u = t THEN new
                 ELSE IF job[u] # NoJob /\ job[u].file = f THEN [job[u] EXCEPT !.clean = FALSE]
                 ELSE job[u]]
  BY <1>1 DEF Open
<1>5. job'[t] = new
  BY <1>4
<1>6. ASSUME NEW u \in Threads \ {t}
      PROVE  /\ job'[u] \in {NoJob} \union Jobs
             /\ job'[u] # NoJob =>
                  /\ job'[u].next <= 1 \/ job'[u].next <= Blocks[job'[u].version]
                  /\ job[u] # NoJob /\ job'[u].file = job[u].file
                  /\ job'[u].clean => job'[u] = job[u] /\ job[u].file # f
  <2>1. PICK j : j = job[u]
    OBVIOUS
  <2>2. j \in {NoJob} \union Jobs /\ (j # NoJob => j.next <= 1 \/ j.next <= Blocks[j.version])
    BY <2>1 DEF FilesInv, TypeOK, Jobs
  <2>3. job'[u] = IF j # NoJob /\ j.file = f THEN [j EXCEPT !.clean = FALSE] ELSE j
    BY <1>4, <2>1
  <2>4. CASE j # NoJob /\ j.file = f
    <3>1. PICK k : k = [j EXCEPT !.clean = FALSE]
      OBVIOUS
    <3>2. /\ k \in Jobs /\ k.file = j.file /\ k.next = j.next /\ k.version = j.version
          /\ k.clean = FALSE
      BY <2>2, <2>4, <3>1 DEF Jobs
    <3> QED BY <2>1, <2>2, <2>3, <2>4, <3>1, <3>2
  <2>5. CASE ~(j # NoJob /\ j.file = f)
    BY <2>1, <2>2, <2>3, <2>5
  <2> QED BY <2>4, <2>5
<1>7. queue' = queue /\ fs' = fs
  BY DEF queue
<1>8. QueueInv'
  BY <1>7 DEF FilesInv, QueueInv
<1>9. JobsType'
  <2>1. \A u \in Threads : job'[u] \in {NoJob} \union Jobs
    BY <1>3, <1>5, <1>6
  <2>2. job' \in [Threads -> {NoJob} \union Jobs]
    BY <1>4, <2>1
  <2> QED BY <1>3, <1>5, <1>6, <2>2 DEF JobsType
<1>10. ASSUME NEW u \in Threads, job'[u] # NoJob, job'[u].clean
       PROVE  /\ JobOk(job'[u], queue, fs)
              /\ \A w \in Threads \ {u} : job'[w] # NoJob => job'[w].file # job'[u].file
  <2>1. CASE u = t
    <3>1. JobOk(new, queue, fs)
      BY <1>3 DEF JobOk
    <3>2. \A w \in Threads : job[w] # NoJob => job[w].file # f
      BY <1>3, <1>5, <1>10, <2>1 DEF Busy
    <3> QED BY <1>3, <1>5, <1>6, <2>1, <3>1, <3>2
  <2>2. CASE u # t
    <3>1. job[u] # NoJob /\ job'[u] = job[u] /\ job[u].file # f
      BY <1>6, <1>10, <2>2
    <3>2. /\ JobOk(job[u], queue, fs)
          /\ \A w \in Threads \ {u} : job[w] # NoJob => job[w].file # job[u].file
      BY <1>10, <3>1 DEF FilesInv, JobsInv
    <3> QED BY <1>3, <1>5, <1>6, <3>1, <3>2
  <2> QED BY <2>1, <2>2
<1>11. JobsInv'
  BY <1>7, <1>10 DEF JobsInv
<1> QED BY <1>8, <1>9, <1>11

LEMMA FilesAnswer == ASSUME FilesInv, NEW f \in Requests, AnswerRequest(f) PROVE FilesInv'
<1>1. /\ Open("event", f) /\ wanted' \subseteq Requests
      /\ UNCHANGED <<version, pushes, list_tx, list_rx, fs, last, upgrade, faults>>
  BY DEF AnswerRequest, extVars, FilesInv, TypeOK
<1>2. f \in Files /\ "event" \in Threads
  BY FilesAssumption DEF Files, Threads
<1>3. QueueInv' /\ JobsInv' /\ JobsType'
  BY <1>1, <1>2, FilesOpen
<1>4. TypeOK'
  BY <1>1, <1>3 DEF FilesInv, TypeOK, JobsType, Jobs
<1>5. CleanTransferInstalls'
  BY <1>1, InstallsStay DEF FilesInv
<1> QED BY <1>3, <1>4, <1>5 DEF FilesInv

LEMMA FilesPush == ASSUME FilesInv, NEW f \in Pushes, Push(f) PROVE FilesInv'
<1>1. /\ Open("gui", f) /\ pushes < MaxPushes /\ pushes' = pushes + 1
      /\ UNCHANGED <<version, wanted, list_tx, list_rx, fs, last, upgrade, faults>>
  BY DEF Push, extVars
<1>2. f \in Files /\ "gui" \in Threads
  BY FilesAssumption DEF Files, Threads
<1>3. QueueInv' /\ JobsInv' /\ JobsType'
  BY <1>1, <1>2, FilesOpen
<1>4. pushes' \in 0 .. MaxPushes
  BY <1>1, FileBoundsAssumption DEF FilesInv, TypeOK
<1>5. TypeOK'
  BY <1>1, <1>3, <1>4 DEF FilesInv, TypeOK, JobsType, Jobs
<1>6. CleanTransferInstalls'
  BY <1>1, InstallsStay DEF FilesInv
<1> QED BY <1>3, <1>5, <1>6 DEF FilesInv

LEMMA FaultFacts ==
    ASSUME TypeOK, NEW kind, Fault(kind) PROVE faults' \in 0 .. MaxFaults
BY FileBoundsAssumption DEF Fault, TypeOK

\* The transfer ends and leaves a beginning behind.
LEMMA FilesAbandon == ASSUME FilesInv, NEW t \in Threads, Abandon(t) PROVE FilesInv'
<1>1. /\ job' = [job EXCEPT ![t] = NoJob]
      /\ UNCHANGED <<version, wanted, pushes, list_tx, list_rx, fs, last, upgrade>>
  BY DEF Abandon, extVars
<1>2. faults' \in 0 .. MaxFaults
  BY FaultFacts DEF Abandon, FilesInv
<1>3. \A u \in Threads : job'[u] # NoJob => job[u] # NoJob /\ job'[u] = job[u]
  BY <1>1 DEF FilesInv, TypeOK
<1>4. QueueInv' /\ JobsInv'
  BY <1>1, <1>3, QueueStays
<1>5. job' \in [Threads -> {NoJob} \union Jobs]
  BY <1>1 DEF FilesInv, TypeOK, Jobs
<1>6. TypeOK'
  BY <1>1, <1>2, <1>3, <1>5 DEF FilesInv, TypeOK, Jobs
<1>7. CleanTransferInstalls'
  BY <1>1, InstallsStay DEF FilesInv
<1> QED BY <1>4, <1>6, <1>7 DEF FilesInv

LEMMA FilesDeliver == ASSUME FilesInv, Deliver PROVE FilesInv'
<1>1. /\ list_tx # <<>> /\ list_rx' = Append(list_rx, Head(list_tx)) /\ list_tx' = Tail(list_tx)
      /\ UNCHANGED <<version, wanted, job, pushes, fs, last, upgrade, faults>>
  BY DEF Deliver, mainVars, extVars
<1>2. list_rx \in Seq(Messages) /\ list_tx \in Seq(Messages)
  BY TypeFacts DEF FilesInv
<1>3. /\ Head(list_tx) \in Messages /\ Tail(list_tx) \in Seq(Messages)
      /\ list_tx = <<Head(list_tx)>> \o Tail(list_tx)
  BY <1>1, <1>2, HeadTailProperties
<1>4. list_rx' \in Seq(Messages) /\ list_rx' = list_rx \o <<Head(list_tx)>>
  BY <1>1, <1>2, <1>3
<1>5. queue' = queue
  <2>1. PICK h : h = <<Head(list_tx)>>
    OBVIOUS
  <2>2. h \in Seq(Messages)
    BY <1>3, <2>1
  <2>3. (list_rx \o h) \o Tail(list_tx) = list_rx \o (h \o Tail(list_tx))
    BY <1>2, <1>3, <2>2, ConcatAssociative, SMTT(60)
  <2> QED BY <1>1, <1>3, <1>4, <2>1, <2>3, Zenon DEF queue
<1>6. TypeOK'
  BY <1>1, <1>3, <1>4 DEF FilesInv, TypeOK
<1>7. QueueInv' /\ JobsInv'
  BY <1>1, <1>5 DEF FilesInv, QueueInv, JobsInv
<1>8. CleanTransferInstalls'
  BY <1>1, InstallsStay DEF FilesInv
<1> QED BY <1>6, <1>7, <1>8 DEF FilesInv

\* The next message of a transfer goes behind the last one.
LEMMA FilesSendBlock == ASSUME FilesInv, NEW t \in Threads, SendBlock(t) PROVE FilesInv'
<1>1. PICK j : j = job[t]
  OBVIOUS
<1>2. PICK n : n = j.next + 1
  OBVIOUS
<1>3. PICK flag : flag = Flag(j, n)
  OBVIOUS
<1>4. PICK m : m = [file |-> j.file, flag |-> flag, version |-> j.version,
                    block |-> IF n > Blocks[j.version] THEN 0 ELSE n, clean |-> j.clean]
  OBVIOUS
<1>5. /\ j # NoJob /\ list_tx' = Append(list_tx, m)
      /\ job' = [job EXCEPT ![t] = IF flag = "end" THEN NoJob ELSE [j EXCEPT !.next = n]]
      /\ UNCHANGED <<version, wanted, pushes, list_rx, fs, last, upgrade, faults>>
  BY <1>1, <1>2, <1>3, <1>4 DEF SendBlock, extVars
<1>6. /\ j \in Jobs /\ j.next <= Steps(j.version) /\ j.file \in Files /\ j.version \in Versions
      /\ j.next \in Nat /\ j.clean \in BOOLEAN
  BY <1>1, <1>5, TypeFacts DEF FilesInv, Jobs
<1>7. /\ n \in Nat \ {0} /\ n - 1 = j.next /\ n <= Steps(j.version) + 1
      /\ Blocks[j.version] \in Nat /\ Steps(j.version) \in Nat \ {0}
      /\ Steps(j.version) = IF Blocks[j.version] = 0 THEN 1 ELSE Blocks[j.version]
  BY <1>2, <1>6, VersionFacts DEF Steps
<1>8. /\ flag \in {"start", "continue", "end"}
      /\ flag = "start" <=> n = 1
      /\ flag = "end" <=> n # 1 /\ n > Blocks[j.version]
  BY <1>3 DEF Flag
<1>9. flag = "end" <=> n = Steps(j.version) + 1
  BY <1>7, <1>8
<1>10. /\ m \in Messages /\ m.file = j.file /\ m.version = j.version /\ m.clean = j.clean
       /\ m.flag = flag /\ m.block = IF n > Blocks[j.version] THEN 0 ELSE n
  BY <1>4, <1>6, <1>7, <1>8 DEF Messages
<1>11. Number(m) = n
  BY <1>7, <1>8, <1>9, <1>10 DEF Number
<1>12. WellFormed(m)
  BY <1>7, <1>8, <1>10, <1>11 DEF WellFormed
<1>13. PICK q : q = queue
  OBVIOUS
<1>14. PICK r : r = queue'
  OBVIOUS
<1>15. q \in Seq(Messages) /\ r = Append(q, m) /\ Len(q) \in Nat
  <2>1. list_rx \in Seq(Messages) /\ list_tx \in Seq(Messages) /\ queue \in Seq(Messages)
    BY TypeFacts DEF FilesInv
  <2>2. <<m>> \in Seq(Messages)
    BY <1>10
  <2>3. (list_rx \o list_tx) \o <<m>> = list_rx \o (list_tx \o <<m>>)
    BY <2>1, <2>2, ConcatAssociative
  <2>4. Append(list_tx, m) = list_tx \o <<m>> /\ Append(queue, m) = queue \o <<m>>
    BY <1>10, <2>1, AppendIsConcat
  <2>5. queue' = list_rx \o Append(list_tx, m)
    BY <1>5 DEF queue
  <2>6. queue' = Append(queue, m)
    BY <2>3, <2>4, <2>5, Zenon DEF queue
  <2> QED BY <1>13, <1>14, <2>1, <2>6, LenProperties
<1>16. /\ r \in Seq(Messages) /\ Len(r) = Len(q) + 1 /\ r[Len(q) + 1] = m
       /\ \A i \in 1 .. Len(q) : r[i] = q[i]
  BY <1>10, <1>15, AppendProperties
<1>17. PICK files : files = fs
  OBVIOUS
<1>18. QueueOk(q, files)
  BY <1>13, <1>17 DEF FilesInv, QueueInv
<1>19. j.clean => JobOk(j, q, files) /\ \A u \in Threads \ {t} : job[u] # NoJob => job[u].file # j.file
  BY <1>1, <1>5, <1>13, <1>17 DEF FilesInv, JobsInv
<1>20. ASSUME NEW i \in 1 .. Len(r)
       PROVE  /\ WellFormed(r[i])
              /\ r[i].clean /\ r[i].flag # "start" =>
                    Behind(r, i, r[i].file, r[i].version, Number(r[i]) - 1, files[Temp(r[i].file)])
  <2>1. CASE i \in 1 .. Len(q)
    <3>1. PICK l : l = q[i]
      OBVIOUS
    <3>2. r[i] = l /\ i \in 1 .. Len(q) + 1
      BY <1>15, <1>16, <2>1, <3>1
    <3>3. /\ WellFormed(l)
          /\ l.clean /\ l.flag # "start" =>
                 Behind(q, i, l.file, l.version, Number(l) - 1, files[Temp(l.file)])
      BY <1>18, <2>1, <3>1 DEF QueueOk
    <3>4. \A c, k : Behind(q, i, l.file, l.version, k, c) => Behind(r, i, l.file, l.version, k, c)
      BY <1>10, <1>15, <3>2, BehindAppend
    <3> QED BY <3>2, <3>3, <3>4
  <2>2. CASE i = Len(q) + 1
    <3>1. r[i] = m
      BY <1>16, <2>2
    <3>2. ASSUME m.clean, m.flag # "start"
          PROVE  Behind(r, i, m.file, m.version, Number(m) - 1, files[Temp(m.file)])
      <4>1. j.next > 0 /\ j.clean
        BY <1>6, <1>7, <1>8, <1>10, <3>2
      <4>2. Behind(q, i, j.file, j.version, j.next, files[Temp(j.file)])
        BY <1>19, <2>2, <4>1 DEF JobOk
      <4>3. i \in 1 .. Len(q) + 1
        BY <1>15, <2>2
      <4>4. \A c : Behind(q, i, j.file, j.version, j.next, c) => Behind(r, i, j.file, j.version, j.next, c)
        BY <1>10, <1>15, <4>3, BehindAppend
      <4> QED BY <1>7, <1>10, <1>11, <4>2, <4>4
    <3> QED BY <1>12, <3>1, <3>2
  <2>3. i \in 1 .. Len(q) \/ i = Len(q) + 1
    BY <1>15, <1>16
  <2> QED BY <2>1, <2>2, <2>3
<1>21. QueueInv'
  BY <1>5, <1>14, <1>17, <1>20 DEF QueueInv, QueueOk
<1>22. job \in [Threads -> {NoJob} \union Jobs]
  BY DEF FilesInv, TypeOK, Jobs
<1>23. PICK k : k = [j EXCEPT !.next = n]
  OBVIOUS
<1>24. /\ k \in Jobs /\ k.file = j.file /\ k.version = j.version /\ k.clean = j.clean /\ k.next = n
  BY <1>6, <1>7, <1>23 DEF Jobs
<1>25. /\ job'[t] = IF flag = "end" THEN NoJob ELSE k
       /\ \A u \in Threads \ {t} : job'[u] = job[u]
       /\ job' \in [Threads -> {NoJob} \union Jobs]
  BY <1>5, <1>22, <1>23, <1>24
<1>26. ASSUME NEW u \in Threads, job'[u] # NoJob, job'[u].clean
       PROVE  /\ JobOk(job'[u], r, files)
              /\ \A w \in Threads \ {u} : job'[w] # NoJob => job'[w].file # job'[u].file
  <2>1. CASE u = t
    <3>1. job'[u] = k
      BY <1>25, <1>26, <2>1
    <3>2. \A c : Behind(r, Len(q) + 2, j.file, j.version, n, c)
      BY <1>10, <1>11, <1>15, <1>24, <1>26, <3>1, BehindAppend
    <3>3. Len(r) + 1 = Len(q) + 2
      BY <1>15, <1>16
    <3>4. JobOk(k, r, files)
      BY <1>24, <3>2, <3>3 DEF JobOk
    <3> QED BY <1>19, <1>24, <1>25, <1>26, <2>1, <3>1, <3>4
  <2>2. CASE u # t
    <3>1. PICK i : i = job[u]
      OBVIOUS
    <3>2. job'[u] = i /\ i # NoJob /\ i.clean
      BY <1>25, <1>26, <2>2, <3>1
    <3>3. /\ JobOk(i, q, files)
          /\ \A w \in Threads \ {u} : job[w] # NoJob => job[w].file # i.file
      BY <1>13, <1>17, <3>1, <3>2 DEF FilesInv, JobsInv
    <3>4. j.file # i.file
      BY <1>1, <1>5, <2>2, <3>3
    <3>5. \A c, l : Behind(q, Len(q) + 1, i.file, i.version, l, c)
                    => Behind(r, Len(q) + 2, i.file, i.version, l, c)
      BY <1>10, <1>15, <3>4, BehindAppend
    <3>6. Len(r) + 1 = Len(q) + 2
      BY <1>15, <1>16
    <3>7. JobOk(i, r, files)
      BY <3>3, <3>5, <3>6 DEF JobOk
    <3>8. ASSUME NEW w \in Threads \ {u}, job'[w] # NoJob PROVE job'[w].file # i.file
      <4>1. CASE w = t
        BY <1>24, <1>25, <3>4, <3>8, <4>1
      <4>2. CASE w # t
        BY <1>25, <3>3, <3>8, <4>2
      <4> QED BY <4>1, <4>2
    <3> QED BY <3>2, <3>7, <3>8
  <2> QED BY <2>1, <2>2
<1>27. JobsInv'
  BY <1>5, <1>14, <1>17, <1>26 DEF JobsInv
<1>28. TypeOK'
  <2>1. list_tx' \in Seq(Messages)
    BY <1>5, <1>10 DEF FilesInv, TypeOK
  <2>2. ASSUME NEW u \in Threads, job'[u] # NoJob
        PROVE  job'[u].next <= 1 \/ job'[u].next <= Blocks[job'[u].version]
    <3>1. CASE u = t
      <4>1. flag # "end" /\ job'[u] = k
        BY <1>25, <2>2, <3>1
      <4>2. n = 1 \/ n <= Blocks[j.version]
        BY <1>7, <1>8, <4>1
      <4> QED BY <1>7, <1>24, <4>1, <4>2
    <3>2. CASE u # t
      BY <1>25, <2>2, <3>2 DEF FilesInv, TypeOK
    <3> QED BY <3>1, <3>2
  <2> QED BY <1>5, <1>25, <2>1, <2>2 DEF FilesInv, TypeOK, Jobs
<1>29. CleanTransferInstalls'
  BY <1>5, InstallsStay DEF FilesInv
<1> QED BY <1>21, <1>27, <1>28, <1>29 DEF FilesInv

-----------------------------------------------------------------------------
(***************************************************************************)
(* Losses.                                                                 *)
(***************************************************************************)

\* The jobs on f that are behind s.
LEMMA SpoiledJobsFacts ==
    ASSUME NEW s, NEW f, NEW t \in Threads, NEW k, k = SpoiledJobs(s, f)[t]
    PROVE  /\ JobLess(k, job[t])
           /\ TypeOK /\ k # NoJob /\ k.clean /\ job[t].next > 0 /\ job[t].file = f => StartsIn(s, f)
<1>1. k = IF job[t] # NoJob /\ job[t].file = f /\ job[t].next > 0 /\ ~StartsIn(s, f)
          THEN [job[t] EXCEPT !.clean = FALSE] ELSE job[t]
  BY DEF SpoiledJobs
<1>2. JobLess(k, job[t])
  BY <1>1 DEF JobLess
<1>3. ASSUME TypeOK, k # NoJob, k.clean, job[t].next > 0, job[t].file = f, ~StartsIn(s, f)
      PROVE  FALSE
  <2>1. PICK j : j = job[t]
    OBVIOUS
  <2>2. j # NoJob
    BY <1>1, <1>3, <2>1
  <2>3. j \in Jobs
    BY <1>3, <2>1, <2>2, TypeFacts
  <2>4. k = [j EXCEPT !.clean = FALSE]
    BY <1>1, <1>3, <2>1, <2>2
  <2>5. k.clean = FALSE
    BY <2>3, <2>4 DEF Jobs
  <2> QED BY <1>3, <2>5
<1> QED BY <1>2, <1>3

LEMMA SparesSame == ASSUME NEW a, NEW hit, UNCHANGED fs PROVE Spares(a, hit, fs, fs')
BY DEF Spares

LEMMA FilesLinkCancels == ASSUME FilesInv, LinkCancels PROVE FilesInv'
<1>1. PICK f : f = Head(list_tx).file
  OBVIOUS
<1>2. /\ list_tx # <<>> /\ list_tx' = Spoiled(Tail(list_tx), f) /\ job' = SpoiledJobs(Tail(list_tx), f)
      /\ UNCHANGED <<version, wanted, pushes, list_rx, fs, last, upgrade>>
  BY <1>1 DEF LinkCancels, extVars
<1>3. faults' \in 0 .. MaxFaults
  BY FaultFacts DEF LinkCancels, FilesInv
<1>4. list_rx \in Seq(Messages) /\ list_tx \in Seq(Messages)
  BY TypeFacts DEF FilesInv
<1>5. PICK x : x = list_rx
  OBVIOUS
<1>6. PICK y : y = list_tx
  OBVIOUS
<1>7. PICK y2 : y2 = list_tx'
  OBVIOUS
<1>8. queue = x \o y /\ queue' = x \o y2
  BY <1>2, <1>5, <1>6, <1>7 DEF queue
<1>9. /\ y2 \in Seq(Messages) /\ Cut(x \o y, x \o y2, Len(x), Len(x) + 1, {f})
      /\ \A g : Started(x \o y2, Len(x), Len(x \o y2), g) <=> StartsIn(Tail(y), g)
  BY <1>1, <1>2, <1>4, <1>5, <1>6, <1>7, CutMiddle
<1>10. queue' \in Seq(Messages)
  BY <1>4, <1>5, <1>8, <1>9, JoinFacts
<1>11. ASSUME NEW t \in Threads
       PROVE  /\ JobLess(job'[t], job[t])
              /\ job'[t] # NoJob /\ job'[t].clean /\ job[t].next > 0 /\ job[t].file \in {f}
                    => Started(queue', Len(x), Len(queue'), job[t].file)
  <2>1. PICK k : k = SpoiledJobs(Tail(y), f)[t]
    OBVIOUS
  <2>2. job'[t] = k
    BY <1>2, <1>6, <2>1
  <2>3. /\ JobLess(k, job[t])
        /\ k # NoJob /\ k.clean /\ job[t].next > 0 /\ job[t].file = f => StartsIn(Tail(y), f)
    BY <2>1, SpoiledJobsFacts DEF FilesInv
  <2> QED BY <1>8, <1>9, <2>2, <2>3
<1>12. job' = [t \in Threads |-> job'[t]]
  BY <1>2 DEF SpoiledJobs
<1>13. Spares(Len(x), {f}, fs, fs')
  BY <1>2, SparesSame
<1>14. QueueInv' /\ JobsInv' /\ JobsType'
  <2>1. PICK a : a = Len(x)
    OBVIOUS
  <2>2. PICK b : b = Len(x) + 1
    OBVIOUS
  <2>3. Cut(queue, queue', a, b, {f})
    BY <1>8, <1>9, <2>1, <2>2
  <2> QED BY <1>10, <1>11, <1>12, <1>13, <2>1, <2>3, CutStep
<1>15. TypeOK'
  BY <1>2, <1>3, <1>7, <1>9, <1>14 DEF FilesInv, TypeOK, JobsType, Jobs
<1>16. CleanTransferInstalls'
  BY <1>2, InstallsStay DEF FilesInv
<1> QED BY <1>14, <1>15, <1>16 DEF FilesInv

LEMMA FilesLinkFails == ASSUME FilesInv, LinkFails PROVE FilesInv'
<1>1. /\ list_tx # <<>> /\ list_tx' = <<>>
      /\ list_rx' = list_rx \/ list_rx' = Append(list_rx, Head(list_tx))
      /\ job' = [t \in Threads |->
             IF job[t] # NoJob /\ \E i \in DOMAIN list_tx : list_tx[i].file = job[t].file
             THEN SpoiledJobs(<<>>, job[t].file)[t] ELSE job[t]]
      /\ UNCHANGED <<version, wanted, pushes, fs, last, upgrade>>
  BY DEF LinkFails, extVars
<1>2. faults' \in 0 .. MaxFaults
  BY FaultFacts DEF LinkFails, FilesInv
<1>3. list_rx \in Seq(Messages) /\ list_tx \in Seq(Messages)
  BY TypeFacts DEF FilesInv
<1>4. PICK x : x = list_rx
  OBVIOUS
<1>5. PICK y : y = list_tx
  OBVIOUS
<1>6. PICK x2 : x2 = list_rx'
  OBVIOUS
<1>7. PICK hit : hit = {y[i].file : i \in DOMAIN y}
  OBVIOUS
<1>8. queue = x \o y /\ queue' = x2 \o <<>>
  BY <1>1, <1>4, <1>5, <1>6 DEF queue
<1>9. /\ x2 \in Seq(Messages)
      /\ Cut(x \o y, x2 \o <<>>, Len(x2), Len(x \o y), hit)
  <2>1. \A i \in DOMAIN y : y[i].file \in hit
    BY <1>7
  <2> QED BY <1>1, <1>3, <1>4, <1>5, <1>6, <2>1, CutLast
<1>10. queue' \in Seq(Messages)
  BY <1>8, <1>9, JoinFacts
<1>11. ASSUME NEW t \in Threads
       PROVE  /\ JobLess(job'[t], job[t])
              /\ job'[t] # NoJob /\ job'[t].clean /\ job[t].next > 0 /\ job[t].file \in hit
                    => Started(queue', Len(x2), Len(queue'), job[t].file)
  <2>1. PICK f : f = job[t].file
    OBVIOUS
  <2>2. PICK k : k = SpoiledJobs(<<>>, f)[t]
    OBVIOUS
  <2>3. job'[t] = IF job[t] # NoJob /\ f \in hit THEN k ELSE job[t]
    BY <1>1, <1>5, <1>7, <2>1, <2>2
  <2>4. /\ JobLess(k, job[t])
        /\ k # NoJob /\ k.clean /\ job[t].next > 0 /\ job[t].file = f => StartsIn(<<>>, f)
    BY <2>2, SpoiledJobsFacts DEF FilesInv
  <2>5. ~StartsIn(<<>>, f)
    BY DEF StartsIn
  <2>6. JobLess(job'[t], job[t])
    BY <2>3, <2>4 DEF JobLess
  <2>7. ~(job'[t] # NoJob /\ job'[t].clean /\ job[t].next > 0 /\ f \in hit)
    BY <2>1, <2>3, <2>4, <2>5
  <2> QED BY <2>1, <2>6, <2>7
<1>12. job' = [t \in Threads |-> job'[t]]
  BY <1>1
<1>13. QueueInv' /\ JobsInv' /\ JobsType'
  <2>1. PICK a : a = Len(x2)
    OBVIOUS
  <2>2. PICK b : b = Len(x \o y)
    OBVIOUS
  <2>3. Cut(queue, queue', a, b, hit) /\ Spares(a, hit, fs, fs')
    BY <1>1, <1>8, <1>9, <2>1, <2>2, SparesSame
  <2> QED BY <1>10, <1>11, <1>12, <2>1, <2>3, CutStep
<1>14. TypeOK'
  BY <1>1, <1>2, <1>6, <1>9, <1>13 DEF FilesInv, TypeOK, JobsType, Jobs
<1>15. CleanTransferInstalls'
  BY <1>1, InstallsStay DEF FilesInv
<1> QED BY <1>13, <1>14, <1>15 DEF FilesInv

-----------------------------------------------------------------------------
(***************************************************************************)
(* The extension board.                                                    *)
(***************************************************************************)

LEMMA BadlyStep ==
    ASSUME FilesInv, list_rx # <<>>, HandledBadly,
           \A f \in Files : f # Msg.file => fs'[Temp(f)] = fs[Temp(f)]
    PROVE  /\ QueueInv' /\ JobsInv' /\ JobsType'
           /\ list_rx' \in Seq(Messages) /\ list_tx' \in Seq(Messages)
<1>1. PICK f : f = Msg.file
  OBVIOUS
<1>2. /\ list_rx' = Spoiled(Tail(list_rx), f)
      /\ list_tx' = IF StartsIn(Tail(list_rx), f) THEN list_tx ELSE Spoiled(list_tx, f)
      /\ job' = SpoiledJobs(Tail(list_rx) \o list_tx, f)
  BY <1>1 DEF HandledBadly
<1>3. list_rx \in Seq(Messages) /\ list_tx \in Seq(Messages)
  BY TypeFacts DEF FilesInv
<1>4. PICK x : x = list_rx
  OBVIOUS
<1>5. PICK y : y = list_tx
  OBVIOUS
<1>6. PICK x2 : x2 = list_rx'
  OBVIOUS
<1>7. PICK y2 : y2 = list_tx'
  OBVIOUS
<1>8. queue = x \o y /\ queue' = x2 \o y2
  BY <1>4, <1>5, <1>6, <1>7 DEF queue
<1>9. /\ x \in Seq(Messages) /\ y \in Seq(Messages) /\ x # <<>> /\ f = Head(x).file
      /\ x2 = Spoiled(Tail(x), f)
      /\ y2 = IF StartsIn(Tail(x), f) THEN y ELSE Spoiled(y, f)
  BY <1>1, <1>2, <1>3, <1>4, <1>5, <1>6, <1>7 DEF Msg
<1>10. /\ x2 \o y2 \in Seq(Messages)
       /\ Cut(x \o y, x2 \o y2, 0, 1, {f})
       /\ \A g : Started(x2 \o y2, 0, Len(x2 \o y2), g) <=> StartsIn(Tail(x) \o y, g)
  BY <1>9, CutFirst
<1>11. x2 \in Seq(Messages) /\ y2 \in Seq(Messages)
  <2>1. Tail(x) \in Seq(Messages)
    BY <1>9, TailFacts
  <2>2. Spoiled(Tail(x), f) \in Seq(Messages) /\ Spoiled(y, f) \in Seq(Messages)
    BY <1>9, <2>1, SpoiledFacts
  <2> QED BY <1>9, <2>2
<1>12. ASSUME NEW t \in Threads
       PROVE  /\ JobLess(job'[t], job[t])
              /\ job'[t] # NoJob /\ job'[t].clean /\ job[t].next > 0 /\ job[t].file \in {f}
                    => Started(queue', 0, Len(queue'), job[t].file)
  <2>1. PICK s : s = Tail(x) \o y
    OBVIOUS
  <2>2. PICK k : k = SpoiledJobs(s, f)[t]
    OBVIOUS
  <2>3. job'[t] = k
    BY <1>2, <1>4, <1>5, <2>1, <2>2
  <2>4. /\ JobLess(k, job[t])
        /\ k # NoJob /\ k.clean /\ job[t].next > 0 /\ job[t].file = f => StartsIn(s, f)
    BY <2>2, SpoiledJobsFacts DEF FilesInv
  <2> QED BY <1>8, <1>10, <2>1, <2>3, <2>4
<1>13. job' = [t \in Threads |-> job'[t]]
  BY <1>2 DEF SpoiledJobs
<1>14. Spares(0, {f}, fs, fs')
  BY <1>1 DEF Spares
<1>15. PICK a : a = 0
  OBVIOUS
<1>16. PICK b : b = 1
  OBVIOUS
<1>17. Cut(queue, queue', a, b, {f}) /\ Spares(a, {f}, fs, fs') /\ queue' \in Seq(Messages)
  BY <1>8, <1>10, <1>14, <1>15, <1>16
<1>18. QueueInv' /\ JobsInv' /\ JobsType'
  BY <1>12, <1>13, <1>15, <1>17, CutStep
<1> QED BY <1>6, <1>7, <1>11, <1>18

\* The message at hand.
LEMMA MsgFacts ==
    ASSUME FilesInv, list_rx # <<>>
    PROVE  /\ WellFormed(Msg) /\ Msg.file \in Files /\ Msg.version \in Versions
           /\ Msg.clean \in BOOLEAN
           /\ Msg.clean /\ Msg.flag # "start" =>
                  fs[Temp(Msg.file)] = FirstBlocks(Msg.version, Number(Msg) - 1)
           /\ Tail(list_rx) \in Seq(Messages)
<1>1. list_rx \in Seq(Messages) /\ list_tx \in Seq(Messages)
  BY TypeFacts DEF FilesInv
<1>2. PICK q : q = queue
  OBVIOUS
<1>3. q \in Seq(Messages) /\ q # <<>> /\ q[1] = Msg
  BY <1>1, <1>2, JoinTail, JoinFacts DEF queue, Msg
<1>4. 1 \in 1 .. Len(q)
  BY <1>3, TailFacts
<1>5. /\ WellFormed(Msg)
      /\ Msg.clean /\ Msg.flag # "start" =>
             Behind(q, 1, Msg.file, Msg.version, Number(Msg) - 1, fs[Temp(Msg.file)])
  BY <1>2, <1>3, <1>4 DEF FilesInv, QueueInv, QueueOk
<1>6. 1 .. 1 - 1 = {}
  OBVIOUS
<1>7. Msg.clean /\ Msg.flag # "start" =>
          fs[Temp(Msg.file)] = FirstBlocks(Msg.version, Number(Msg) - 1)
  BY <1>5, <1>6 DEF Behind
<1> QED BY <1>1, <1>5, <1>7, NumberFacts, TailFacts

LEMMA BytesFacts == ASSUME FilesInv, list_rx # <<>> PROVE Bytes \in Seq(Pieces)
<1>1. PICK m : m = Msg
  OBVIOUS
<1>2. m.version \in Versions /\ m.block \in Nat
  BY <1>1, MsgFacts DEF WellFormed, Messages
<1>3. PICK e : e = <<m.version, m.block>>
  OBVIOUS
<1>4. e \in Pieces
  BY <1>2, <1>3 DEF Pieces
<1>5. <<e>> \in Seq(Pieces) /\ <<>> \in Seq(Pieces)
  BY <1>4
<1> QED BY <1>1, <1>3, <1>5 DEF Bytes

\* What a step that writes to the file of p, or not, keeps of the types.
LEMMA TypesAfterWrite ==
    ASSUME FilesInv, UNCHANGED <<version, wanted, pushes, last, upgrade>>,
           fs' \in [Paths -> {Absent} \union Seq(Pieces)],
           list_rx' \in Seq(Messages), list_tx' \in Seq(Messages), JobsType',
           faults' \in 0 .. MaxFaults
    PROVE  TypeOK'
BY DEF FilesInv, TypeOK, JobsType, Jobs, Contents, Pieces

LEMMA JobsSame == ASSUME FilesInv, UNCHANGED job PROVE JobsType'
BY DEF FilesInv, TypeOK, JobsType, Jobs

\* write() of a message to the collected part of its file.
LEMMA FilesWritten ==
    ASSUME FilesInv, list_rx # <<>>, NEW old \in Seq(Pieces), Written(Temp(Msg.file), old),
           Msg.flag # "end",
           Msg.clean => old = FirstBlocks(Msg.version, Number(Msg) - 1),
           UNCHANGED <<version, wanted, pushes, last, upgrade>>
    PROVE  FilesInv'
<1>1. PICK p : p = Temp(Msg.file)
  OBVIOUS
<1>2. /\ Msg.file \in Files /\ p \in Paths /\ p # "blf"
      /\ \A f \in Files : f # Msg.file => Temp(f) # p /\ Temp(f) \in Paths
      /\ fs \in [Paths -> {Absent} \union Seq(Pieces)]
  BY <1>1, MsgFacts, TempFacts, TypeFacts DEF FilesInv
<1>3. ASSUME NEW new \in Seq(Pieces), fs' = [fs EXCEPT ![p] = new]
      PROVE  /\ fs' \in [Paths -> {Absent} \union Seq(Pieces)] /\ fs'[p] = new
             /\ \A f \in Files : f # Msg.file => fs'[Temp(f)] = fs[Temp(f)]
             /\ fs'["blf"] = fs["blf"]
  BY <1>2, <1>3
<1>4. CASE fs' = [fs EXCEPT ![p] = old \o Bytes] /\ Handled /\ UNCHANGED faults
  <2>1. PICK new : new = old \o Bytes
    OBVIOUS
  <2>2. new \in Seq(Pieces)
    BY <2>1, BytesFacts, ConcatProperties
  <2>3. /\ fs' \in [Paths -> {Absent} \union Seq(Pieces)] /\ fs'[p] = new
        /\ \A f \in Files : f # Msg.file => fs'[Temp(f)] = fs[Temp(f)]
        /\ fs'["blf"] = fs["blf"]
    BY <1>3, <1>4, <2>1, <2>2
  <2>4. Msg.clean => new = FirstBlocks(Msg.version, Number(Msg))
    <3> SUFFICES ASSUME Msg.clean PROVE new = FirstBlocks(Msg.version, Number(Msg))
      OBVIOUS
    <3>1. PICK m : m = Msg
      OBVIOUS
    <3>2. PICK bytes : bytes = Bytes
      OBVIOUS
    <3>3. WellFormed(m) /\ m.flag # "end"
      BY <3>1, MsgFacts
    <3>4. bytes = IF m.block = 0 THEN <<>> ELSE << <<m.version, m.block>> >>
      BY <3>1, <3>2 DEF Bytes
    <3>5. FirstBlocks(m.version, Number(m) - 1) \o bytes = FirstBlocks(m.version, Number(m))
      BY <3>3, <3>4, OneMoreBlock
    <3> QED BY <2>1, <3>1, <3>2, <3>5, Zenon
  <2>5. QueueInv' /\ JobsInv'
    BY <1>1, <1>4, <2>3, <2>4, TakeStep
  <2>6. list_rx' \in Seq(Messages) /\ list_tx' \in Seq(Messages) /\ UNCHANGED job
    BY <1>4, MsgFacts, TypeFacts DEF Handled, FilesInv
  <2>7. faults' \in 0 .. MaxFaults
    BY <1>4 DEF FilesInv, TypeOK
  <2>8. TypeOK'
    BY <2>3, <2>6, <2>7, TypesAfterWrite, JobsSame
  <2>9. CleanTransferInstalls'
    BY <2>3, InstallsStay DEF FilesInv
  <2> QED BY <2>5, <2>8, <2>9 DEF FilesInv
<1>5. CASE fs' = [fs EXCEPT ![p] = Append(old, Torn)] /\ HandledBadly /\ Fault("write")
  <2>1. PICK new : new = Append(old, Torn)
    OBVIOUS
  <2>2. new \in Seq(Pieces)
    BY <2>1 DEF Pieces
  <2>3. /\ fs' \in [Paths -> {Absent} \union Seq(Pieces)]
        /\ \A f \in Files : f # Msg.file => fs'[Temp(f)] = fs[Temp(f)]
        /\ fs'["blf"] = fs["blf"]
    BY <1>3, <1>5, <2>1, <2>2
  <2>4. /\ QueueInv' /\ JobsInv' /\ JobsType'
        /\ list_rx' \in Seq(Messages) /\ list_tx' \in Seq(Messages)
    BY <1>5, <2>3, BadlyStep
  <2>5. faults' \in 0 .. MaxFaults
    BY <1>5, FaultFacts DEF FilesInv
  <2>6. TypeOK'
    BY <2>3, <2>4, <2>5, TypesAfterWrite
  <2>7. CleanTransferInstalls'
    BY <2>3, InstallsStay DEF FilesInv
  <2> QED BY <2>4, <2>6, <2>7 DEF FilesInv
<1> QED BY <1>1, <1>4, <1>5 DEF Written

\* A message that could not be written at all.
LEMMA FilesUnwritten ==
    ASSUME FilesInv, list_rx # <<>>, HandledBadly,
           fs' = fs \/ fs' = [fs EXCEPT ![Temp(Msg.file)] = Absent],
           UNCHANGED <<version, wanted, pushes, last, upgrade>>, faults' \in 0 .. MaxFaults
    PROVE  FilesInv'
<1>1. PICK p : p = Temp(Msg.file)
  OBVIOUS
<1>2. /\ Msg.file \in Files /\ p \in Paths /\ p # "blf"
      /\ \A f \in Files : f # Msg.file => Temp(f) # p /\ Temp(f) \in Paths
      /\ fs \in [Paths -> {Absent} \union Seq(Pieces)]
  BY <1>1, MsgFacts, TempFacts, TypeFacts DEF FilesInv
<1>3. /\ fs' \in [Paths -> {Absent} \union Seq(Pieces)]
      /\ \A f \in Files : f # Msg.file => fs'[Temp(f)] = fs[Temp(f)]
      /\ fs'["blf"] = fs["blf"]
  <2>1. CASE fs' = fs
    BY <1>2, <2>1
  <2>2. CASE fs' = [fs EXCEPT ![p] = Absent]
    <3>1. /\ fs' \in [Paths -> {Absent} \union Seq(Pieces)]
          /\ \A q \in Paths : q # p => fs'[q] = fs[q]
      BY <1>2, <2>2
    <3>2. "blf" \in Paths
      BY DEF Paths
    <3> QED BY <1>2, <3>1, <3>2
  <2> QED BY <1>1, <2>1, <2>2
<1>4. /\ QueueInv' /\ JobsInv' /\ JobsType'
      /\ list_rx' \in Seq(Messages) /\ list_tx' \in Seq(Messages)
  BY <1>3, BadlyStep
<1>5. TypeOK'
  BY <1>3, <1>4, TypesAfterWrite
<1>6. CleanTransferInstalls'
  BY <1>3, InstallsStay DEF FilesInv
<1> QED BY <1>4, <1>5, <1>6 DEF FilesInv

\* A start forgets what was collected before.
LEMMA FilesHandleStart == ASSUME FilesInv, HandleStart PROVE FilesInv'
<1>1. /\ list_rx # <<>> /\ Msg.flag = "start"
      /\ UNCHANGED <<version, wanted, pushes, last, upgrade>>
  BY DEF HandleStart, Handling
<1>2. CASE Written(Temp(Msg.file), Fresh(Msg.file))
  <2>1. Number(Msg) - 1 = 0
    BY <1>1 DEF Number
  <2>2. PICK old : old = Fresh(Msg.file)
    OBVIOUS
  <2>3. old = <<>> /\ old \in Seq(Pieces)
    BY <2>2 DEF Fresh
  <2>4. old = FirstBlocks(Msg.version, Number(Msg) - 1)
    BY <1>1, <2>1, <2>3, MsgFacts, NoBlocks
  <2>5. Written(Temp(Msg.file), old)
    BY <1>2, <2>2
  <2> QED BY <1>1, <2>3, <2>4, <2>5, FilesWritten
<1>3. CASE Fault("open") /\ fs' = [fs EXCEPT ![Temp(Msg.file)] = Absent] /\ HandledBadly
  <2>1. faults' \in 0 .. MaxFaults
    BY <1>3, FaultFacts DEF FilesInv
  <2> QED BY <1>1, <1>3, <2>1, FilesUnwritten
<1> QED BY <1>2, <1>3 DEF HandleStart

LEMMA FilesHandleContinue == ASSUME FilesInv, HandleContinue PROVE FilesInv'
<1>1. /\ list_rx # <<>> /\ Msg.flag = "continue"
      /\ UNCHANGED <<version, wanted, pushes, last, upgrade>>
  BY DEF HandleContinue, Handling
<1>2. CASE fs[Temp(Msg.file)] # Absent /\ Written(Temp(Msg.file), fs[Temp(Msg.file)])
  <2>1. PICK old : old = fs[Temp(Msg.file)]
    OBVIOUS
  <2>2. old \in Seq(Pieces)
    <3>1. Temp(Msg.file) \in Paths
      BY <1>1, MsgFacts, TempFacts
    <3> QED BY <1>2, <2>1, <3>1, TypeFacts DEF FilesInv
  <2>3. Msg.clean => old = FirstBlocks(Msg.version, Number(Msg) - 1)
    BY <1>1, <2>1, MsgFacts
  <2>4. Written(Temp(Msg.file), old)
    BY <1>2, <2>1
  <2> QED BY <1>1, <2>2, <2>3, <2>4, FilesWritten
<1>3. CASE /\ (fs[Temp(Msg.file)] = Absent /\ UNCHANGED faults) \/ Fault("open")
           /\ HandledBadly /\ UNCHANGED fs
  <2>1. CASE UNCHANGED faults
    <3>1. faults' \in 0 .. MaxFaults
      BY <2>1 DEF FilesInv, TypeOK
    <3> QED BY <1>1, <1>3, <3>1, FilesUnwritten
  <2>2. CASE Fault("open")
    <3>1. faults' \in 0 .. MaxFaults
      BY <2>2, FaultFacts DEF FilesInv
    <3> QED BY <1>1, <1>3, <3>1, FilesUnwritten
  <2> QED BY <1>3, <2>1, <2>2
<1> QED BY <1>2, <1>3 DEF HandleContinue


\* The types when the end of a transfer has been handled.
LEMMA TypesAfterEnd ==
    ASSUME FilesInv, list_rx # <<>>, Handled, NEW g \in Files,
           last' = [last EXCEPT ![g] = Finish(g)],
           fs' \in [Paths -> {Absent} \union Seq(Pieces)],
           upgrade' \in {Absent} \union Seq(Pieces),
           UNCHANGED <<version, wanted, pushes, faults>>
    PROVE  /\ TypeOK'
           /\ last'[g] = [version |-> Msg.version, clean |-> Msg.clean]
           /\ \A f \in Files : f # g => last'[f] = last[f]
<1>1. /\ Msg.version \in Versions /\ Msg.clean \in BOOLEAN /\ Tail(list_rx) \in Seq(Messages)
  BY MsgFacts
<1>2. last \in [Files -> {NoJob} \union [version : Versions, clean : BOOLEAN]]
  BY DEF FilesInv, TypeOK
<1>3. PICK e : e = [version |-> Msg.version, clean |-> Msg.clean]
  OBVIOUS
<1>4. e \in [version : Versions, clean : BOOLEAN]
  BY <1>1, <1>3
<1>5. last' = [last EXCEPT ![g] = e]
  BY <1>3 DEF Finish
<1>6. /\ last' \in [Files -> {NoJob} \union [version : Versions, clean : BOOLEAN]]
      /\ last'[g] = e /\ \A f \in Files : f # g => last'[f] = last[f]
  BY <1>2, <1>4, <1>5
<1>7. list_rx' = Tail(list_rx) /\ list_tx' = list_tx /\ job' = job
  BY DEF Handled
<1>8. TypeOK'
  BY <1>1, <1>6, <1>7 DEF FilesInv, TypeOK, Contents, Pieces
<1> QED BY <1>3, <1>6, <1>8

\* The end of a clean transfer finds the whole content collected.
LEMMA EndFindsContent ==
    ASSUME FilesInv, list_rx # <<>>, Msg.flag = "end", Msg.clean
    PROVE  fs[Temp(Msg.file)] = Content(Msg.version)
<1>1. /\ Msg.version \in Versions
      /\ fs[Temp(Msg.file)] = FirstBlocks(Msg.version, Number(Msg) - 1)
  BY MsgFacts
<1>2. Number(Msg) = Steps(Msg.version) + 1
  BY DEF Number
<1>3. Number(Msg) - 1 = Steps(Msg.version)
  BY <1>1, <1>2, VersionFacts
<1> QED BY <1>1, <1>3, AllBlocks

\* The end of bcf.xml or blf.xml puts what was collected in place.
LEMMA FilesHandleEnd == ASSUME FilesInv, HandleEnd PROVE FilesInv'
<1>1. PICK g : g = Msg.file
  OBVIOUS
<1>2. /\ list_rx # <<>> /\ Msg.flag = "end" /\ g \in {"bcf", "blf"}
      /\ fs' = Installed(g) /\ last' = [last EXCEPT ![g] = Finish(g)]
      /\ Handled /\ UNCHANGED <<version, wanted, pushes, upgrade, faults>>
  BY <1>1 DEF HandleEnd, Handling
<1>3. fs \in [Paths -> {Absent} \union Seq(Pieces)]
  BY TypeFacts DEF FilesInv
<1>4. /\ fs' \in [Paths -> {Absent} \union Seq(Pieces)]
      /\ \A p \in Paths : p # g /\ p # Temp(g) => fs'[p] = fs[p]
      /\ g = "blf" => fs'["blf"] = fs["blf.sw"]
  <2>1. CASE g = "bcf"
    <3>1. fs' = [[fs EXCEPT !["bcf"] = Absent] EXCEPT !["bcf"] = Absent, !["bcf"] = Absent]
      <4>1. PICK u : u = [fs EXCEPT !["bcf"] = Absent]
        OBVIOUS
      <4>2. u["bcf"] = Absent
        BY <1>3, <4>1 DEF Paths
      <4>3. fs' = [u EXCEPT !["bcf"] = u["bcf"], !["bcf"] = Absent]
        BY <1>2, <2>1, <4>1, TempFacts DEF Installed
      <4> QED BY <4>1, <4>2, <4>3
    <3> QED BY <1>3, <2>1, <3>1, TempFacts DEF Paths
  <2>2. CASE g = "blf"
    <3>1. PICK u : u = [fs EXCEPT !["blf"] = Absent]
      OBVIOUS
    <3>2. /\ u \in [Paths -> {Absent} \union Seq(Pieces)] /\ u["blf.sw"] = fs["blf.sw"]
          /\ \A p \in Paths : p # "blf" => u[p] = fs[p]
      BY <1>3, <3>1 DEF Paths
    <3>3. fs' = [u EXCEPT !["blf"] = u["blf.sw"], !["blf.sw"] = Absent]
      BY <1>2, <2>2, <3>1, TempFacts DEF Installed
    <3>4. u["blf.sw"] \in {Absent} \union Seq(Pieces)
      BY <3>2 DEF Paths
    <3>5. /\ fs' \in [Paths -> {Absent} \union Seq(Pieces)]
          /\ \A p \in Paths : p # "blf" /\ p # "blf.sw" => fs'[p] = u[p]
          /\ fs'["blf"] = u["blf.sw"]
      BY <3>2, <3>3, <3>4 DEF Paths
    <3> QED BY <2>2, <3>2, <3>5, TempFacts
  <2> QED BY <1>2, <2>1, <2>2
<1>5. \A f \in Files : f # g => fs'[Temp(f)] = fs[Temp(f)]
  <2>1. \A f \in Files : f # g => Temp(f) \in Paths /\ Temp(f) # g /\ Temp(f) # Temp(g)
    BY <1>2, TempFacts DEF Files
  <2> QED BY <1>4, <2>1
<1>6. QueueInv' /\ JobsInv'
  BY <1>1, <1>2, <1>5, TakeStep
<1>7. g \in Files /\ upgrade' \in {Absent} \union Seq(Pieces)
  BY <1>2 DEF Files, FilesInv, TypeOK, Contents, Pieces
<1>8. /\ TypeOK'
      /\ last'[g] = [version |-> Msg.version, clean |-> Msg.clean]
      /\ \A f \in Files : f # g => last'[f] = last[f]
  BY <1>2, <1>4, <1>7, TypesAfterEnd
<1>9. Good("fw", upgrade)'
  <2>1. last'["fw"] = last["fw"] /\ upgrade' = upgrade
    BY <1>2, <1>8 DEF Files
  <2> QED BY <2>1 DEF FilesInv, CleanTransferInstalls, Good
<1>10. Good("blf", fs["blf"])'
  <2>1. CASE g = "bcf"
    <3>1. last'["blf"] = last["blf"] /\ fs'["blf"] = fs["blf"]
      BY <1>4, <1>8, <2>1, TempFacts DEF Files, Paths
    <3> QED BY <3>1 DEF FilesInv, CleanTransferInstalls, Good
  <2>2. CASE g = "blf"
    <3>1. /\ last'["blf"].clean = Msg.clean /\ last'["blf"].version = Msg.version
          /\ fs'["blf"] = fs["blf.sw"]
      BY <1>4, <1>8, <2>2
    <3>2. Msg.clean => fs["blf.sw"] = Content(Msg.version)
      BY <1>1, <1>2, <2>2, EndFindsContent, TempFacts
    <3> QED BY <3>1, <3>2 DEF Good
  <2> QED BY <1>2, <2>1, <2>2
<1> QED BY <1>6, <1>8, <1>9, <1>10 DEF FilesInv, CleanTransferInstalls

\* The end of the firmware hands what was collected to the GUI.
LEMMA FilesHandleUpgrade == ASSUME FilesInv, HandleUpgrade PROVE FilesInv'
<1>1. /\ list_rx # <<>> /\ Msg.flag = "end" /\ Msg.file = "fw"
      /\ fs' = [fs EXCEPT !["fw"] = Absent] /\ upgrade' = fs["fw.tmp"]
      /\ last' = [last EXCEPT !["fw"] = Finish("fw")]
      /\ Handled /\ UNCHANGED <<version, wanted, pushes, faults>>
  BY TempFacts DEF HandleUpgrade, Handling
<1>2. fs \in [Paths -> {Absent} \union Seq(Pieces)]
  BY TypeFacts DEF FilesInv
<1>3. /\ fs' \in [Paths -> {Absent} \union Seq(Pieces)]
      /\ \A p \in Paths : p # "fw" => fs'[p] = fs[p]
      /\ fs["fw.tmp"] \in {Absent} \union Seq(Pieces)
  BY <1>1, <1>2 DEF Paths
<1>4. \A f \in Files : fs'[Temp(f)] = fs[Temp(f)]
  <2>1. \A f \in Files : Temp(f) \in Paths /\ Temp(f) # "fw"
    BY TempFacts DEF Files
  <2> QED BY <1>3, <2>1
<1>5. QueueInv' /\ JobsInv'
  BY <1>1, <1>4, TakeStep
<1>6. /\ TypeOK'
      /\ last'["fw"] = [version |-> Msg.version, clean |-> Msg.clean]
      /\ \A f \in Files : f # "fw" => last'[f] = last[f]
  <2>1. "fw" \in Files
    BY DEF Files
  <2> QED BY <1>1, <1>3, <2>1, TypesAfterEnd
<1>7. Good("blf", fs["blf"])'
  <2>1. last'["blf"] = last["blf"] /\ fs'["blf"] = fs["blf"]
    BY <1>3, <1>6 DEF Files, Paths
  <2> QED BY <2>1 DEF FilesInv, CleanTransferInstalls, Good
<1>8. Good("fw", upgrade)'
  <2>1. last'["fw"].clean = Msg.clean /\ last'["fw"].version = Msg.version
    BY <1>6
  <2>2. Msg.clean => upgrade' = Content(Msg.version)
    BY <1>1, EndFindsContent, TempFacts
  <2> QED BY <2>1, <2>2 DEF Good
<1> QED BY <1>5, <1>6, <1>7, <1>8 DEF FilesInv, CleanTransferInstalls

\* A restart between unlink and rename leaves no file and no transfer to answer for.
LEMMA ResetFiles ==
    ASSUME FilesInv, UNCHANGED upgrade,
           \/ UNCHANGED <<fs, last>>
           \/ /\ Handling("end") /\ Msg.file \in {"bcf", "blf"}
              /\ fs' = [fs EXCEPT ![Msg.file] = Absent]
              /\ last' = [last EXCEPT ![Msg.file] = NoJob]
    PROVE  /\ fs' \in [Paths -> {Absent} \union Seq(Pieces)]
           /\ last' \in [Files -> {NoJob} \union [version : Versions, clean : BOOLEAN]]
           /\ CleanTransferInstalls'
           /\ \A f \in Files : fs'[Temp(f)] = fs[Temp(f)] \/ (list_rx # <<>> /\ f = Msg.file)
<1>1. /\ fs \in [Paths -> {Absent} \union Seq(Pieces)]
      /\ last \in [Files -> {NoJob} \union [version : Versions, clean : BOOLEAN]]
  BY TypeFacts DEF FilesInv, TypeOK
<1>2. CASE UNCHANGED <<fs, last>>
  <2>1. CleanTransferInstalls'
    BY <1>2, InstallsStay DEF FilesInv
  <2> QED BY <1>1, <1>2, <2>1
<1>3. CASE /\ list_rx # <<>> /\ Msg.file \in {"bcf", "blf"}
           /\ fs' = [fs EXCEPT ![Msg.file] = Absent]
           /\ last' = [last EXCEPT ![Msg.file] = NoJob]
  <2>1. PICK g : g = Msg.file
    OBVIOUS
  <2>2. /\ g \in {"bcf", "blf"} /\ g \in Paths /\ g \in Files
        /\ fs' = [fs EXCEPT ![g] = Absent] /\ last' = [last EXCEPT ![g] = NoJob]
    BY <1>3, <2>1 DEF Paths, Files
  <2>3. /\ fs' \in [Paths -> {Absent} \union Seq(Pieces)]
        /\ last' \in [Files -> {NoJob} \union [version : Versions, clean : BOOLEAN]]
        /\ last'[g] = NoJob
        /\ \A p \in Paths : p # g => fs'[p] = fs[p]
        /\ \A f \in Files : f # g => last'[f] = last[f]
    BY <1>1, <2>2
  <2>4. \A f \in Files : f # g => fs'[Temp(f)] = fs[Temp(f)]
    <3>1. \A f \in Files : f # g => Temp(f) \in Paths /\ Temp(f) # g
      BY <2>2, TempFacts DEF Files
    <3> QED BY <2>3, <3>1
  <2>5. Good("fw", upgrade)'
    <3>1. last'["fw"] = last["fw"]
      BY <2>2, <2>3 DEF Files
    <3> QED BY <3>1 DEF FilesInv, CleanTransferInstalls, Good
  <2>6. Good("blf", fs["blf"])'
    <3>1. CASE g = "blf"
      BY <2>3, <3>1 DEF Good
    <3>2. CASE g # "blf"
      <4>1. last'["blf"] = last["blf"] /\ fs'["blf"] = fs["blf"]
        BY <2>3, <3>2 DEF Files, Paths
      <4> QED BY <4>1 DEF FilesInv, CleanTransferInstalls, Good
    <3> QED BY <3>1, <3>2
  <2> QED BY <1>3, <2>1, <2>3, <2>4, <2>5, <2>6 DEF CleanTransferInstalls
<1> QED BY <1>2, <1>3 DEF Handling

\* The extension board restarts and forgets what it had not handled.
LEMMA FilesReset == ASSUME FilesInv, Reset PROVE FilesInv'
<1>1. PICK x : x = list_rx
  OBVIOUS
<1>2. PICK y : y = list_tx
  OBVIOUS
<1>3. PICK hit : hit = {x[i].file : i \in DOMAIN x}
  OBVIOUS
<1>4. \A f : f \in hit <=> \E i \in DOMAIN x : x[i].file = f
  BY <1>3
<1>5. PICK y2 : y2 = list_tx'
  OBVIOUS
<1>6. /\ list_rx' = <<>> /\ UNCHANGED <<version, wanted, pushes, upgrade>>
      /\ y2 = [i \in DOMAIN y |-> IF y[i].file \in hit THEN Spoiled(y, y[i].file)[i] ELSE y[i]]
      /\ job' = [t \in Threads |-> IF job[t] # NoJob /\ job[t].file \in hit
                                   THEN SpoiledJobs(y, job[t].file)[t] ELSE job[t]]
  BY <1>1, <1>2, <1>4, <1>5 DEF Reset
<1>7. faults' \in 0 .. MaxFaults
  BY FaultFacts DEF Reset, FilesInv
<1>8. x \in Seq(Messages) /\ y \in Seq(Messages)
  BY <1>1, <1>2, TypeFacts DEF FilesInv
<1>9. /\ fs' \in [Paths -> {Absent} \union Seq(Pieces)]
      /\ last' \in [Files -> {NoJob} \union [version : Versions, clean : BOOLEAN]]
      /\ CleanTransferInstalls'
      /\ \A f \in Files : fs'[Temp(f)] = fs[Temp(f)] \/ (list_rx # <<>> /\ f = Msg.file)
  <2>1. \/ UNCHANGED <<fs, last>>
        \/ /\ Handling("end") /\ Msg.file \in {"bcf", "blf"}
           /\ fs' = [fs EXCEPT ![Msg.file] = Absent]
           /\ last' = [last EXCEPT ![Msg.file] = NoJob]
    BY DEF Reset
  <2> QED BY <1>6, <2>1, ResetFiles
<1>10. /\ y2 \in Seq(Messages)
       /\ Cut(x \o y, <<>> \o y2, 0, Len(x), hit)
       /\ \A g : Started(<<>> \o y2, 0, Len(<<>> \o y2), g) <=> StartsIn(y, g)
  BY <1>4, <1>6, <1>8, CutReceived, ZenonT(60)
<1>11. queue = x \o y /\ queue' = <<>> \o y2
  BY <1>1, <1>2, <1>5, <1>6 DEF queue
<1>12. queue' \in Seq(Messages)
  <2>1. <<>> \in Seq(Messages)
    OBVIOUS
  <2> QED BY <1>10, <1>11, <2>1, JoinFacts
<1>13. Spares(0, hit, fs, fs')
  <2>1. list_rx # <<>> => Msg.file \in hit
    <3>1. ASSUME x # <<>> PROVE Head(x) = x[1] /\ 1 \in DOMAIN x
      BY <1>8, <3>1
    <3> QED BY <1>1, <1>4, <3>1 DEF Msg
  <2> QED BY <1>9, <2>1 DEF Spares
<1>14. ASSUME NEW t \in Threads
       PROVE  /\ JobLess(job'[t], job[t])
              /\ job'[t] # NoJob /\ job'[t].clean /\ job[t].next > 0 /\ job[t].file \in hit
                    => Started(queue', 0, Len(queue'), job[t].file)
  <2>1. PICK f : f = job[t].file
    OBVIOUS
  <2>2. PICK k : k = SpoiledJobs(y, f)[t]
    OBVIOUS
  <2>3. job'[t] = IF job[t] # NoJob /\ f \in hit THEN k ELSE job[t]
    BY <1>6, <2>1, <2>2
  <2>4. /\ JobLess(k, job[t])
        /\ k # NoJob /\ k.clean /\ job[t].next > 0 /\ job[t].file = f => StartsIn(y, f)
    BY <2>2, SpoiledJobsFacts DEF FilesInv
  <2>5. JobLess(job'[t], job[t])
    BY <2>3, <2>4 DEF JobLess
  <2>6. job'[t] # NoJob /\ job'[t].clean /\ job[t].next > 0 /\ f \in hit => StartsIn(y, f)
    BY <2>1, <2>3, <2>4
  <2>7. Started(queue', 0, Len(queue'), f) <=> StartsIn(y, f)
    BY <1>10, <1>11
  <2> QED BY <2>1, <2>5, <2>6, <2>7
<1>15. job' = [t \in Threads |-> job'[t]]
  BY <1>6
<1>16. QueueInv' /\ JobsInv' /\ JobsType'
  <2>1. PICK a : a = 0
    OBVIOUS
  <2>2. PICK b : b = Len(x)
    OBVIOUS
  <2>3. Cut(queue, queue', a, b, hit) /\ Spares(a, hit, fs, fs')
    BY <1>10, <1>11, <1>13, <2>1, <2>2
  <2> QED BY <1>12, <1>14, <1>15, <2>1, <2>3, CutStep
<1>17. TypeOK'
  <2>1. list_rx' \in Seq(Messages) /\ list_tx' \in Seq(Messages)
    BY <1>5, <1>6, <1>10
  <2> QED BY <1>6, <1>7, <1>9, <1>16, <2>1 DEF FilesInv, TypeOK, JobsType, Jobs, Contents, Pieces
<1> QED BY <1>9, <1>16, <1>17 DEF FilesInv

-----------------------------------------------------------------------------
(***************************************************************************)
(* The theorems.                                                           *)
(***************************************************************************)

LEMMA FilesInit == ASSUME Init PROVE FilesInv
<1>1. queue = <<>>
  BY DEF Init, queue
<1>2. \A t \in Threads : job[t] = NoJob
  BY DEF Init
<1>3. 1 \in Versions
  BY BlocksAssumption DEF Versions
<1>4. TypeOK
  <2>1. /\ version \in [Files -> Versions] /\ wanted \subseteq Requests
        /\ job \in [Threads -> {NoJob} \union
                    [file : Files, version : Versions, next : Nat, clean : BOOLEAN]]
        /\ last \in [Files -> {NoJob} \union [version : Versions, clean : BOOLEAN]]
        /\ fs \in [Paths -> {Absent} \union Contents]
    BY <1>3 DEF Init
  <2>2. list_tx \in Seq(Messages) /\ list_rx \in Seq(Messages) /\ upgrade \in {Absent} \union Contents
    BY DEF Init, Contents
  <2>3. pushes \in 0 .. MaxPushes /\ faults \in 0 .. MaxFaults
    BY FileBoundsAssumption DEF Init
  <2> QED BY <1>2, <2>1, <2>2, <2>3 DEF TypeOK
<1>5. QueueInv
  BY <1>1 DEF QueueInv, QueueOk
<1>6. JobsInv
  BY <1>2 DEF JobsInv
<1>7. CleanTransferInstalls
  BY DEF Init, CleanTransferInstalls, Good, Files
<1> QED BY <1>4, <1>5, <1>6, <1>7 DEF FilesInv

LEMMA FilesStep == ASSUME FilesInv, [Next]_vars PROVE FilesInv'
<1>1. ASSUME NEW f \in Requests \union Pushes, NewVersion(f) \/ Request(f) PROVE FilesInv'
  <2>1. f \in Files
    BY FilesAssumption DEF Files
  <2> QED BY <1>1, <2>1, FilesNewVersion, FilesRequest
<1>2. ASSUME NEW f, Push(f) PROVE FilesInv'
  <2>1. f \in Pushes
    BY <1>2 DEF Push
  <2> QED BY <1>2, <2>1, FilesPush
<1>3. CASE MainStep
  BY <1>3, FilesAnswer, FilesSendBlock DEF MainStep
<1>4. CASE \E t \in Threads : Abandon(t)
  BY <1>4, FilesAbandon
<1>5. CASE Deliver \/ LinkCancels \/ LinkFails
  BY <1>5, FilesDeliver, FilesLinkCancels, FilesLinkFails
<1>6. CASE ExtStep
  BY <1>6, FilesHandleStart, FilesHandleContinue, FilesHandleEnd, FilesHandleUpgrade DEF ExtStep
<1>7. CASE Reset
  BY <1>7, FilesReset
<1>8. CASE UNCHANGED vars
  <2>1. UNCHANGED <<version, wanted, job, pushes, list_tx, list_rx, fs, last, upgrade, faults>>
    BY <1>8 DEF vars, mainVars, extVars
  <2>2. QueueInv' /\ JobsInv'
    BY <2>1, QueueStays
  <2>3. TypeOK'
    BY <2>1 DEF FilesInv, TypeOK
  <2>4. CleanTransferInstalls'
    BY <2>1, InstallsStay DEF FilesInv
  <2> QED BY <2>2, <2>3, <2>4 DEF FilesInv
<1> QED BY <1>1, <1>2, <1>3, <1>4, <1>5, <1>6, <1>7, <1>8 DEF Next

\* The variables keep their types; in particular a read loop of app_proto.c never
\* runs past the end of its file, so every transfer it begins has its end message
\* right behind the last block (or, for an empty file, behind the start).
THEOREM FilesTypeCorrect == Spec => []TypeOK
<1>1. Init => FilesInv
  BY FilesInit
<1>2. FilesInv /\ [Next]_vars => FilesInv'
  BY FilesStep
<1>3. FilesInv => TypeOK
  BY DEF FilesInv
<1> QED BY <1>1, <1>2, <1>3, PTL DEF Spec

\* Whatever transfers were torn, mixed up, abandoned or cut off by a restart before,
\* a transfer of blf.xml or of the firmware that was the only one of its file and lost
\* nothing leaves exactly the main board's file: handle_ack_req_blf and
\* handle_upgrade_fw begin anew at a start.  For files of any length, any number of
\* faults, and any interleaving of the event and the GUI thread's read loops.
THEOREM CleanTransferIsInstalled == Spec => []CleanTransferInstalls
<1>1. Init => FilesInv
  BY FilesInit
<1>2. FilesInv /\ [Next]_vars => FilesInv'
  BY FilesStep
<1>3. FilesInv => CleanTransferInstalls
  BY DEF FilesInv
<1> QED BY <1>1, <1>2, <1>3, PTL DEF Spec

=============================================================================
