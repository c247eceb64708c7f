------------------------- MODULE DurableFileProofs --------------------------
(***************************************************************************)
(* Theorems about DurableFile, for any size of the file and any number of  *)
(* runs, temporary files and crashes: what was reported as written         *)
(* survives every crash, and a file is replaced atomically.                *)
(***************************************************************************)
EXTENDS DurableFile, TLAPS

-----------------------------------------------------------------------------
(***************************************************************************)
(* The contents of a file.                                                 *)
(***************************************************************************)

\* n units of version v.
Units(v, n) == [i \in 1 .. n |-> v]

\* The beginning of a version is some units of it.
LEMMA PartialUnits ==
    ASSUME NEW v, NEW n \in 0 .. Size
    PROVE  SubSeq(Whole(v), 1, n) = Units(v, n) /\ Units(v, n) \in Partial(v)
<1>1. SubSeq(Whole(v), 1, n) = Units(v, n)
  BY SizeAssumption DEF Whole, Units
<1> QED  BY <1>1 DEF Partial

LEMMA PartialIsUnits ==
    ASSUME NEW v, NEW s \in Partial(v)
    PROVE  \E n \in 0 .. Size : s = Units(v, n)
  BY PartialUnits DEF Partial

LEMMA UnitsLen ==
    ASSUME NEW v, NEW n \in Nat PROVE Units(v, n) \in Seq({v}) /\ Len(Units(v, n)) = n
  BY DEF Units

LEMMA UnitsBeginning ==
    ASSUME NEW v, NEW n \in Nat, NEW k \in 0 .. n PROVE SubSeq(Units(v, n), 1, k) = Units(v, k)
  BY DEF Units

LEMMA UnitsConcat ==
    ASSUME NEW v, NEW n \in Nat, NEW k \in Nat PROVE Units(v, n) \o Units(v, k) = Units(v, n + k)
  BY DEF Units

\* An empty file, a whole one, and no file at all.
LEMMA ContentFacts ==
    ASSUME NEW v \in 1 .. MaxVersions
    PROVE  /\ <<>> \in Partial(v) /\ Whole(v) \in Partial(v) /\ Whole(v) = Units(v, Size)
           /\ Absent \notin Partial(v) /\ Partial(v) \subseteq AllContents
<1>1. Whole(v) = Units(v, Size) /\ <<>> = Units(v, 0)
  BY DEF Whole, Units
<1>2. Absent \notin Partial(v)
  <2>1. \A n \in 0 .. Size : Units(v, n) # <<0>>
    BY SizeAssumption DEF Units
  <2> QED  BY <2>1, PartialIsUnits DEF Absent
<1>3. Partial(v) \subseteq AllContents
  BY DEF AllContents
<1> QED  BY <1>1, <1>2, <1>3, PartialUnits, SizeAssumption

-----------------------------------------------------------------------------
(***************************************************************************)
(* The inductive invariant.                                                *)
(***************************************************************************)

Stored == AllContents \ {Absent}

\* What a crash may leave includes what is there, and is some part of a version.
DiskInv ==
    /\ dirMay \subseteq [Names -> Inodes \union {None}] /\ dir \in dirMay
    /\ data \in [Inodes -> Stored]
    /\ dataMay \in [Inodes -> SUBSET Stored]
    /\ \A i \in Inodes : data[i] \in dataMay[i]

RunInv ==
    /\ version \in 0 .. MaxVersions /\ promised \in 0 .. version
    /\ fd \in Inodes \union {None} /\ temp \in Names
    /\ pc \in {"idle", "open", "write", "fsync", "fsync_dir",
               "mkstemp", "twrite", "tfsync", "rename", "tfsync_dir"}

\* The versions that the run still has to write.
BudgetInv ==
    /\ pc = "open" => version + (IF program = "replace" THEN 2 ELSE 1) <= MaxVersions
    /\ pc = "mkstemp" \/ (pc \in {"write", "fsync", "fsync_dir"} /\ program = "replace") =>
           version + 1 <= MaxVersions

\* The file that is being written, and how much of the version is in it.
FdInv ==
    /\ pc \in {"write", "twrite", "fsync", "tfsync", "fsync_dir", "rename", "tfsync_dir"} =>
           fd \in Inodes /\ version >= 1 /\ data[fd] \in Partial(version)
    /\ pc \in {"fsync", "tfsync", "fsync_dir", "rename", "tfsync_dir"} => data[fd] = Whole(version)
    /\ pc \in {"fsync_dir", "rename", "tfsync_dir"} => dataMay[fd] = {Whole(version)}

\* A file that is written in place has lost its promise; a temporary one cannot be
\* found under the name of the file, whatever directory a crash leaves.
PlaceInv ==
    /\ pc \in {"write", "fsync", "fsync_dir", "tfsync_dir"} => promised = 0 /\ dir[Path] = fd
    /\ pc \in {"twrite", "tfsync", "rename"} =>
           temp \in Temps /\ dir[temp] = fd /\ \A d \in dirMay : d[Path] # fd

\* In every directory a crash may leave, the name leads to what was reported.
PromiseInv ==
    promised # 0 =>
        \A d \in dirMay : d[Path] # None /\ dataMay[d[Path]] = {Whole(promised)}

FileInv == DiskInv /\ RunInv /\ BudgetInv /\ FdInv /\ PlaceInv /\ PromiseInv

\* Names, inodes and what is neither.
LEMMA NameFacts == Path \in Names /\ Temps \subseteq Names /\ Path \notin Temps /\ None \notin Inodes
  BY DiskBoundsAssumption DEF Path, Temps, Names, None, Inodes

\* A part of a version is something that may be stored.
LEMMA StoredFacts ==
    ASSUME NEW v \in 1 .. MaxVersions
    PROVE  Partial(v) \subseteq Stored /\ <<>> \in Stored /\ Whole(v) \in Stored
  BY ContentFacts DEF Stored

LEMMA FileInit == Init => FileInv
<1> SUFFICES ASSUME Init PROVE FileInv
  OBVIOUS
<1>1. <<>> \in Stored
  BY StoredFacts, DiskBoundsAssumption
<1>2. DiskInv
  BY <1>1 DEF Init, DiskInv
<1>3. RunInv /\ BudgetInv /\ FdInv /\ PlaceInv /\ PromiseInv
  BY DiskBoundsAssumption, NameFacts DEF Init, RunInv, BudgetInv, FdInv, PlaceInv, PromiseInv
<1> QED  BY <1>2, <1>3 DEF FileInv

\* A new file under the name n: it is at no place that a crash could leave.
LEMMA NewFileStep ==
    ASSUME DiskInv, NEW n \in Names, NewFile(n)
    PROVE  /\ DiskInv' /\ fd' \in Inodes /\ data'[fd'] = <<>>
           /\ dir' = [dir EXCEPT ![n] = fd'] /\ dir'[n] = fd' /\ dirMay' = dirMay \union {dir'}
           /\ \A d \in dirMay : d[Path] # fd'
           /\ \A i \in Inodes : i # fd' => dataMay'[i] = dataMay[i]
<1>1. fd' \in Unused
  BY DEF NewFile
<1>2. fd' \in Inodes /\ \A d \in dirMay : d[Path] # fd'
  BY <1>1, NameFacts DEF Unused
<1>3. /\ dir' = [dir EXCEPT ![n] = fd'] /\ dirMay' = dirMay \union {dir'}
      /\ data' = [data EXCEPT ![fd'] = <<>>] /\ dataMay' = [dataMay EXCEPT ![fd'] = {<<>>}]
  BY DEF NewFile, Enter, SetData
<1>4. <<>> \in Stored
  BY StoredFacts, DiskBoundsAssumption
<1>5. dir \in [Names -> Inodes \union {None}] /\ dir' \in [Names -> Inodes \union {None}]
  BY <1>2, <1>3 DEF DiskInv
<1>6. DiskInv'
  BY <1>2, <1>3, <1>4, <1>5 DEF DiskInv
<1> QED  BY <1>2, <1>3, <1>5, <1>6 DEF DiskInv

\* open: the file is truncated or new, and nothing is promised any more.
LEMMA OpenStep == ASSUME FileInv, OpenFile PROVE FileInv'
<1>1. version' = version + 1 /\ promised' = 0 /\ pc' = "write" /\ temp' = temp
  BY DEF OpenFile
<1>2. DiskInv' /\ fd' \in Inodes /\ data'[fd'] = <<>> /\ dir'[Path] = fd'
  <2>1. CASE dir[Path] = None
    BY <2>1, NewFileStep, NameFacts DEF OpenFile, FileInv
  <2>2. CASE dir[Path] # None
    <3>1. /\ fd' = dir[Path] /\ UNCHANGED <<dir, dirMay>> /\ data' = [data EXCEPT ![fd'] = <<>>]
          /\ dataMay' = [dataMay EXCEPT ![fd'] = @ \union {<<>>}]
      BY <2>2 DEF OpenFile, SetData
    <3>2. fd' \in Inodes
      BY <2>2, <3>1, NameFacts DEF FileInv, DiskInv
    <3>3. <<>> \in Stored
      BY StoredFacts, DiskBoundsAssumption
    <3> QED  BY <3>1, <3>2, <3>3 DEF FileInv, DiskInv
  <2> QED  BY <2>1, <2>2
<1>3. version' \in 1 .. MaxVersions /\ RunInv' /\ BudgetInv'
  BY <1>1, <1>2, DiskBoundsAssumption DEF OpenFile, FileInv, RunInv, BudgetInv
<1>4. FdInv' /\ PlaceInv' /\ PromiseInv'
  BY <1>1, <1>2, <1>3, ContentFacts DEF FdInv, PlaceInv, PromiseInv
<1> QED  BY <1>2, <1>3, <1>4 DEF FileInv

\* mkstemp: whatever was promised is still found under the name of the file.
LEMMA TempStep == ASSUME FileInv, MakeTemp PROVE FileInv'
<1>1. version' = version + 1 /\ promised' = promised /\ pc' = "twrite"
  BY DEF MakeTemp
<1>2. temp' \in Temps /\ NewFile(temp')
  BY DEF MakeTemp
<1>3. temp' \in Names /\ temp' # Path /\ Path \in Names
  BY <1>2, NameFacts
<1>4. /\ DiskInv' /\ fd' \in Inodes /\ data'[fd'] = <<>>
      /\ dir' = [dir EXCEPT ![temp'] = fd'] /\ dir'[temp'] = fd' /\ dirMay' = dirMay \union {dir'}
      /\ \A d \in dirMay : d[Path] # fd'
      /\ \A i \in Inodes : i # fd' => dataMay'[i] = dataMay[i]
  BY <1>2, <1>3, NewFileStep DEF FileInv
<1>5. version' \in 1 .. MaxVersions /\ RunInv' /\ BudgetInv'
  BY <1>1, <1>3, <1>4, DiskBoundsAssumption DEF MakeTemp, FileInv, RunInv, BudgetInv
<1>6. dir \in dirMay /\ dir'[Path] = dir[Path]
  BY <1>3, <1>4 DEF FileInv, DiskInv
<1>7. \A d \in dirMay' : \E e \in dirMay : d[Path] = e[Path]
  BY <1>4, <1>6
<1>8. FdInv' /\ PlaceInv'
  BY <1>1, <1>2, <1>4, <1>5, <1>7, ContentFacts DEF FdInv, PlaceInv
<1>9. ASSUME promised' # 0, NEW d \in dirMay'
      PROVE  d[Path] # None /\ dataMay'[d[Path]] = {Whole(promised')}
  <2>1. PICK e \in dirMay : d[Path] = e[Path]
    BY <1>7
  <2>2. e[Path] # None /\ dataMay[e[Path]] = {Whole(promised)} /\ e[Path] \in Inodes /\ e[Path] # fd'
    BY <1>1, <1>3, <1>4, <1>9 DEF FileInv, PromiseInv, DiskInv
  <2> QED  BY <1>1, <1>4, <2>1, <2>2
<1> QED  BY <1>4, <1>5, <1>8, <1>9 DEF FileInv, PromiseInv

\* A write to a file under a temporary name does not touch what was promised.
LEMMA PromiseKept ==
    ASSUME FileInv, pc \in {"write", "twrite", "fsync", "tfsync"}, UNCHANGED <<dirMay, promised>>,
           NEW may, dataMay' = [dataMay EXCEPT ![fd] = may]
    PROVE  PromiseInv'
<1> SUFFICES ASSUME promised # 0, NEW d \in dirMay
             PROVE  d[Path] # None /\ dataMay'[d[Path]] = {Whole(promised)}
  BY DEF PromiseInv
<1>1. d[Path] # None /\ dataMay[d[Path]] = {Whole(promised)}
  BY DEF FileInv, PromiseInv
<1>2. d[Path] # fd
  BY DEF FileInv, PlaceInv
<1>3. d[Path] \in Inodes /\ DOMAIN dataMay = Inodes
  BY <1>1, NameFacts DEF FileInv, DiskInv
<1> QED  BY <1>1, <1>2, <1>3

\* write(): the file holds more of the version, or any part of what was handed over
\* after a crash.
LEMMA WriteStep == ASSUME FileInv, Write PROVE FileInv'
<1> DEFINE old == data[fd]
           new(n) == old \o Units(version, n)
           may(n) == dataMay[fd] \union {SubSeq(new(n), 1, k) : k \in Len(old) .. Len(new(n))}
<1>1. /\ pc \in {"write", "twrite"} /\ UNCHANGED <<dir, dirMay, pc, program, version, fd, temp, promised>>
      /\ Size - Len(old) > 0
  BY DEF Write, Writing, Rest
<1>2. PICK n \in 1 .. Size - Len(old) :
          data' = [data EXCEPT ![fd] = new(n)] /\ dataMay' = [dataMay EXCEPT ![fd] = may(n)]
  BY DEF Write, SetData, Units, Rest
<1>3. fd \in Inodes /\ version \in 1 .. MaxVersions /\ old \in Partial(version)
  BY <1>1, DiskBoundsAssumption DEF FileInv, FdInv, RunInv
<1>4. PICK m \in 0 .. Size : old = Units(version, m)
  BY <1>3, PartialIsUnits
<1>5. Len(old) = m /\ m + n \in 0 .. Size /\ m \in Nat /\ n \in Nat
  <2>1. m \in Nat
    BY SizeAssumption
  <2>2. Len(Units(version, m)) = m
    BY <2>1, UnitsLen
  <2> QED  BY <1>2, <1>4, <2>1, <2>2, SizeAssumption
<1>6. new(n) = Units(version, m + n) /\ Len(new(n)) = m + n
  <2>1. Units(version, m) \o Units(version, n) = Units(version, m + n)
    BY <1>5, UnitsConcat
  <2>2. m + n \in Nat
    BY <1>5
  <2>3. Len(Units(version, m + n)) = m + n
    BY <2>2, UnitsLen
  <2> QED  BY <1>4, <2>1, <2>3
<1>7. \A k \in Len(old) .. Len(new(n)) : SubSeq(new(n), 1, k) \in Partial(version)
  <2> HIDE DEF old, new
  <2> SUFFICES ASSUME NEW k \in m .. m + n PROVE SubSeq(Units(version, m + n), 1, k) \in Partial(version)
    BY <1>5, <1>6
  <2>1. k \in 0 .. m + n /\ k \in 0 .. Size /\ m + n \in Nat
    BY <1>5, SizeAssumption
  <2>2. SubSeq(Units(version, m + n), 1, k) = Units(version, k)
    BY <2>1, UnitsBeginning
  <2> QED  BY <2>1, <2>2, PartialUnits
<1>8. new(n) \in Partial(version) /\ new(n) \in may(n)
  <2>1. SubSeq(new(n), 1, Len(new(n))) = new(n) /\ Len(new(n)) \in Len(old) .. Len(new(n))
    BY <1>5, <1>6, UnitsBeginning
  <2> QED  BY <1>5, <1>6, <2>1, PartialUnits
<1>9. may(n) \subseteq Stored /\ new(n) \in Stored
  BY <1>3, <1>7, <1>8, StoredFacts DEF FileInv, DiskInv
<1> HIDE DEF old, new, may
<1>10. DiskInv'
  BY <1>1, <1>2, <1>3, <1>8, <1>9 DEF FileInv, DiskInv
<1>11. RunInv' /\ BudgetInv' /\ PlaceInv'
  BY <1>1 DEF FileInv, RunInv, BudgetInv, PlaceInv
<1>12. FdInv'
  BY <1>1, <1>2, <1>3, <1>8 DEF FileInv, FdInv, DiskInv
<1>13. PromiseInv'
  BY <1>1, <1>2, PromiseKept
<1> QED  BY <1>10, <1>11, <1>12, <1>13 DEF FileInv

\* A step that leaves the disk and the promise alone.
LEMMA SameDisk ==
    ASSUME FileInv, UNCHANGED <<disk, version, fd, temp, promised>>
    PROVE  DiskInv' /\ PromiseInv'
  BY DEF FileInv, disk, DiskInv, PromiseInv

LEMMA StartStep == ASSUME FileInv, NEW p \in Programs, Start(p) PROVE FileInv'
<1>1. RunInv' /\ BudgetInv'
  BY DEF Start, FileInv, RunInv, BudgetInv
<1>2. FdInv' /\ PlaceInv'
  BY DEF Start, FdInv, PlaceInv
<1> QED  BY <1>1, <1>2, SameDisk DEF Start, FileInv

LEMMA ZeroStep == ASSUME FileInv, WriteZero PROVE FileInv'
<1>1. RunInv' /\ BudgetInv'
  BY DEF WriteZero, FileInv, RunInv, BudgetInv
<1>2. FdInv' /\ PlaceInv'
  BY DEF WriteZero, FileInv, FdInv, PlaceInv, disk
<1> QED  BY <1>1, <1>2, SameDisk DEF WriteZero, FileInv

\* full_write returns message_len: the version is in the file.
LEMMA DoneStep == ASSUME FileInv, WriteDone PROVE FileInv'
<1>1. RunInv' /\ BudgetInv'
  BY DEF WriteDone, Writing, FileInv, RunInv, BudgetInv
<1>2. data[fd] \in Partial(version) /\ Size - Len(data[fd]) = 0 /\ version \in 1 .. MaxVersions
  BY DiskBoundsAssumption DEF WriteDone, Writing, Rest, FileInv, FdInv, RunInv
<1>3. PICK m \in 0 .. Size : data[fd] = Units(version, m)
  BY <1>2, PartialIsUnits
<1>4. m \in Nat
  BY SizeAssumption
<1>5. Len(data[fd]) = m
  BY <1>3, <1>4, UnitsLen
<1>6. m = Size
  BY <1>2, <1>4, <1>5, SizeAssumption
<1>7. data[fd] = Whole(version)
  BY <1>3, <1>6 DEF Units, Whole
<1>8. FdInv' /\ PlaceInv'
  BY <1>7 DEF WriteDone, Writing, FileInv, FdInv, PlaceInv, disk
<1> QED  BY <1>1, <1>8, SameDisk DEF WriteDone, FileInv

\* Removing the file that was being written: a promise is not under that name.
LEMMA FailsStep == ASSUME FileInv, WriteFails PROVE FileInv'
<1>1. /\ pc \in {"write", "twrite"} /\ pc' = "idle"
      /\ UNCHANGED <<data, dataMay, program, version, fd, temp, promised>>
  BY DEF WriteFails, Writing
<1>2. RunInv' /\ BudgetInv' /\ FdInv' /\ PlaceInv'
  BY <1>1 DEF FileInv, RunInv, BudgetInv, FdInv, PlaceInv
<1>3. CASE UNCHANGED <<dir, dirMay>>
  BY <1>1, <1>2, <1>3, SameDisk DEF FileInv, disk
<1>4. CASE Enter([dir EXCEPT ![Gone] = None])
  <2>1. dir' = [dir EXCEPT ![Gone] = None] /\ dirMay' = dirMay \union {dir'}
    BY <1>4 DEF Enter
  <2>2. Gone \in Names /\ (pc = "twrite" => Gone # Path)
    BY NameFacts DEF Gone, FileInv, RunInv, PlaceInv
  <2>3. dir \in dirMay /\ dir \in [Names -> Inodes \union {None}]
    BY DEF FileInv, DiskInv
  <2>4. DiskInv'
    BY <1>1, <2>1, <2>2, <2>3 DEF FileInv, DiskInv
  <2>5. PromiseInv'
    <3>1. CASE pc = "write"
      BY <1>1, <3>1 DEF FileInv, PlaceInv, PromiseInv
    <3>2. CASE pc = "twrite"
      <4>1. dir'[Path] = dir[Path]
        BY <2>1, <2>2, <2>3, <3>2, NameFacts
      <4> QED  BY <1>1, <2>1, <2>3, <4>1 DEF FileInv, PromiseInv
    <3> QED  BY <1>1, <3>1, <3>2
  <2> QED  BY <1>2, <2>4, <2>5 DEF FileInv
<1> QED  BY <1>3, <1>4 DEF WriteFails

\* fsync of the file.
LEMMA FsyncStep == ASSUME FileInv, Fsync PROVE FileInv'
<1>1. /\ pc \in {"fsync", "tfsync"} /\ pc' = IF pc = "fsync" THEN "fsync_dir" ELSE "rename"
      /\ UNCHANGED <<dir, dirMay, data, program, version, fd, temp, promised>>
      /\ dataMay' = [dataMay EXCEPT ![fd] = {data[fd]}]
  BY DEF Fsync, SyncData
<1>2. fd \in Inodes /\ data[fd] = Whole(version)
  BY <1>1 DEF FileInv, FdInv
<1>3. DiskInv'
  BY <1>1, <1>2 DEF FileInv, DiskInv
<1>4. RunInv' /\ BudgetInv' /\ PlaceInv'
  BY <1>1 DEF FileInv, RunInv, BudgetInv, PlaceInv
<1>5. FdInv'
  BY <1>1, <1>2 DEF FileInv, FdInv, DiskInv
<1> QED  BY <1>1, <1>3, <1>4, <1>5, PromiseKept DEF FileInv

\* rename: the file is whole and on the disk.
LEMMA RenameStep == ASSUME FileInv, Rename PROVE FileInv'
<1>1. /\ pc = "rename" /\ pc' = "tfsync_dir" /\ promised' = 0
      /\ UNCHANGED <<data, dataMay, program, version, fd, temp>>
      /\ dir' = [dir EXCEPT ![Path] = dir[temp], ![temp] = None] /\ dirMay' = dirMay \union {dir'}
  BY DEF Rename, Enter
<1>2. temp \in Temps /\ temp # Path /\ Path \in Names /\ temp \in Names /\ dir[temp] = fd /\ fd \in Inodes
  BY <1>1, NameFacts DEF FileInv, PlaceInv, FdInv
<1>3. dir \in [Names -> Inodes \union {None}]
  BY DEF FileInv, DiskInv
<1>4. dir'[Path] = fd /\ dir' \in [Names -> Inodes \union {None}]
  BY <1>1, <1>2, <1>3
<1>5. DiskInv'
  BY <1>1, <1>4 DEF FileInv, DiskInv
<1>6. RunInv' /\ BudgetInv' /\ FdInv'
  BY <1>1 DEF FileInv, RunInv, BudgetInv, FdInv
<1>7. PlaceInv' /\ PromiseInv'
  BY <1>1, <1>4 DEF PlaceInv, PromiseInv
<1> QED  BY <1>5, <1>6, <1>7 DEF FileInv

\* fsync of the directory makes the promise.
LEMMA FsyncDirStep == ASSUME FileInv, FsyncDir PROVE FileInv'
<1>1. /\ pc \in {"fsync_dir", "tfsync_dir"}
      /\ pc' = IF pc = "fsync_dir" /\ program = "replace" THEN "mkstemp" ELSE "idle"
      /\ promised' = version /\ dir' = dir /\ dirMay' = {dir}
      /\ UNCHANGED <<data, dataMay, program, version, fd, temp>>
  BY DEF FsyncDir, SyncDir
<1>2. fd \in Inodes /\ dir[Path] = fd /\ dataMay[fd] = {Whole(version)}
  BY <1>1 DEF FileInv, FdInv, PlaceInv
<1>3. DiskInv'
  BY <1>1 DEF FileInv, DiskInv
<1>4. RunInv' /\ BudgetInv' /\ FdInv' /\ PlaceInv'
  BY <1>1 DEF FileInv, RunInv, BudgetInv, FdInv, PlaceInv
<1>5. PromiseInv'
  BY <1>1, <1>2, NameFacts DEF PromiseInv
<1> QED  BY <1>3, <1>4, <1>5 DEF FileInv

LEMMA CallFailsStep == ASSUME FileInv, CallFails PROVE FileInv'
<1>1. RunInv' /\ BudgetInv' /\ FdInv' /\ PlaceInv'
  BY DEF CallFails, FileInv, RunInv, BudgetInv, FdInv, PlaceInv
<1> QED  BY <1>1, SameDisk DEF CallFails, FileInv

\* What a crash leaves in an inode is one of the contents that it may leave.
LEMMA CrashData ==
    ASSUME FileInv, Crash
    PROVE  /\ data' \in [Inodes -> Stored] /\ dataMay' = [i \in Inodes |-> {data'[i]}]
           /\ \A i \in Inodes : data'[i] \in dataMay[i]
<1>1. PICK c \in [Unsynced -> AllContents] :
          /\ \A i \in Unsynced : c[i] \in dataMay[i]
          /\ data' = [i \in Inodes |-> IF i \in Unsynced THEN c[i] ELSE data[i]]
          /\ dataMay' = [i \in Inodes |-> {data'[i]}]
  BY DEF Crash
<1>2. \A i \in Inodes : data'[i] \in dataMay[i]
  BY <1>1 DEF FileInv, DiskInv
<1>3. \A i \in Inodes : dataMay[i] \subseteq Stored
  BY DEF FileInv, DiskInv
<1>4. data' \in [Inodes -> Stored]
  <2>1. \A i \in Inodes : (IF i \in Unsynced THEN c[i] ELSE data[i]) \in Stored
    BY <1>1, <1>2, <1>3
  <2> QED  BY <1>1, <2>1
<1> QED  BY <1>1, <1>2, <1>4

LEMMA CrashStep == ASSUME FileInv, Crash PROVE FileInv'
<1>1. PICK d \in dirMay : dir' = d /\ dirMay' = {d}
  BY DEF Crash
<1>2. pc' = "idle" /\ UNCHANGED <<program, version, fd, temp, promised>>
  BY DEF Crash
<1>3. DiskInv'
  BY <1>1, CrashData DEF FileInv, DiskInv
<1>4. RunInv' /\ BudgetInv' /\ FdInv' /\ PlaceInv'
  BY <1>2 DEF FileInv, RunInv, BudgetInv, FdInv, PlaceInv
<1>5. ASSUME promised # 0 PROVE d[Path] # None /\ dataMay'[d[Path]] = {Whole(promised)}
  <2>1. d[Path] # None /\ dataMay[d[Path]] = {Whole(promised)}
    BY <1>5 DEF FileInv, PromiseInv
  <2>2. d[Path] \in Inodes
    BY <2>1, NameFacts DEF FileInv, DiskInv
  <2>3. data'[d[Path]] = Whole(promised)
    BY <2>1, <2>2, CrashData
  <2> QED  BY <2>1, <2>2, <2>3, CrashData
<1>6. PromiseInv'
  BY <1>1, <1>2, <1>5 DEF PromiseInv
<1> QED  BY <1>3, <1>4, <1>6 DEF FileInv

LEMMA FileStep == FileInv /\ [Next]_vars => FileInv'
<1>1. FileInv /\ UNCHANGED vars => FileInv'
  <2> SUFFICES ASSUME FileInv, UNCHANGED vars PROVE FileInv'
    OBVIOUS
  <2>1. RunInv' /\ BudgetInv' /\ FdInv' /\ PlaceInv'
    BY DEF vars, disk, FileInv, RunInv, BudgetInv, FdInv, PlaceInv
  <2> QED  BY <2>1, SameDisk DEF vars, FileInv
<1> QED
  BY <1>1, StartStep, OpenStep, TempStep, WriteStep, ZeroStep, FailsStep, DoneStep, FsyncStep,
     RenameStep, FsyncDirStep, CallFailsStep, CrashStep DEF Next

-----------------------------------------------------------------------------
(***************************************************************************)
(* What a crash may leave under the name of the file.                      *)
(***************************************************************************)

\* In the directory d, where the inodes may hold may.
Found(d, may) == IF d[Path] = None THEN {Absent} ELSE may[d[Path]]

Left(dirs, may) == UNION {Found(d, may) : d \in dirs}

LEMMA OutcomesLeft == Outcomes = Left(dirMay, dataMay) /\ Outcomes' = Left(dirMay', dataMay')
  BY DEF Outcomes, Left, Found

LEMMA LeftFacts ==
    ASSUME NEW dirs, NEW may
    PROVE  \A c : c \in Left(dirs, may) <=> \E d \in dirs : c \in Found(d, may)
  BY DEF Left

\* Something is always left, and it is part of a version or no file.
LeftOK == Outcomes \subseteq AllContents /\ Outcomes # {}

LEMMA SomethingLeft == FileInv => LeftOK
<1> SUFFICES ASSUME FileInv PROVE LeftOK
  OBVIOUS
<1>1. \A d \in dirMay : Found(d, dataMay) \subseteq AllContents /\ Found(d, dataMay) # {}
  BY NameFacts DEF Found, FileInv, DiskInv, Stored, AllContents
<1>2. dir \in dirMay
  BY DEF FileInv, DiskInv
<1>3. \A c : c \in Outcomes <=> \E d \in dirMay : c \in Found(d, dataMay)
  BY OutcomesLeft, LeftFacts
<1> QED  BY <1>1, <1>2, <1>3 DEF LeftOK

\* Only what the name leads to counts.
LEMMA LeftSame ==
    ASSUME FileInv, \A d \in dirMay' : \E e \in dirMay : Found(d, dataMay') = Found(e, dataMay),
                    \A e \in dirMay : \E d \in dirMay' : Found(d, dataMay') = Found(e, dataMay)
    PROVE  Outcomes' = Outcomes
<1>1. \A c : c \in Outcomes <=> \E d \in dirMay : c \in Found(d, dataMay)
  BY OutcomesLeft, LeftFacts
<1>2. \A c : c \in Outcomes' <=> \E d \in dirMay' : c \in Found(d, dataMay')
  BY OutcomesLeft, LeftFacts
<1>3. \A c : c \in Outcomes' <=> c \in Outcomes
  BY <1>1, <1>2
<1> QED  BY <1>3

\* A write to a temporary file does not count, nor does a temporary name.
LEMMA TempDataSame ==
    ASSUME FileInv, pc \in {"twrite", "tfsync"}, UNCHANGED dirMay,
           NEW may, dataMay' = [dataMay EXCEPT ![fd] = may]
    PROVE  Outcomes' = Outcomes
<1>1. \A d \in dirMay : Found(d, dataMay') = Found(d, dataMay)
  BY DEF Found, FileInv, PlaceInv, DiskInv
<1> QED  BY <1>1, LeftSame

LEMMA TempNameSame ==
    ASSUME FileInv, dirMay' = dirMay \union {dir'}, dir'[Path] = dir[Path],
           \A d \in dirMay : d[Path] # None => dataMay'[d[Path]] = dataMay[d[Path]]
    PROVE  Outcomes' = Outcomes
<1>1. dir \in dirMay
  BY DEF FileInv, DiskInv
<1>2. \A d \in dirMay : Found(d, dataMay') = Found(d, dataMay)
  BY DEF Found
<1>3. Found(dir', dataMay') = Found(dir, dataMay')
  BY DEF Found
<1> QED  BY <1>1, <1>2, <1>3, LeftSame

-----------------------------------------------------------------------------
(***************************************************************************)
(* The programs implement AtomicFile.                                      *)
(***************************************************************************)

AtomicStep == [Abstract!Next]_<<Outcomes, Creating>>

\* As long as the file is being created, anything may be left.
LEMMA CreateStep ==
    ASSUME FileInv', Creating \/ Creating'
    PROVE  Abstract!Create
<1>1. LeftOK'
  BY SomethingLeft, PTL
<1>2. Outcomes' \in (SUBSET AllContents) \ {{}}
  BY <1>1 DEF LeftOK
<1>3. Creating' \in BOOLEAN
  BY DEF Creating
<1> QED  BY <1>2, <1>3 DEF Abstract!Create
LEMMA AtomicInit == Init => Abstract!Init
<1> SUFFICES ASSUME Init PROVE Abstract!Init
  OBVIOUS
<1>1. LeftOK
  BY FileInit, SomethingLeft
<1>2. Creating = FALSE
  BY DEF Init, Creating
<1> QED  BY <1>1, <1>2 DEF Abstract!Init, LeftOK

\* A step that leaves all that a crash may leave, and creates nothing.
LEMMA Stutters ==
    ASSUME ~Creating, ~Creating', Outcomes' = Outcomes PROVE AtomicStep
<1>1. Creating' = Creating
  BY DEF Creating
<1> QED  BY <1>1 DEF AtomicStep

\* mkstemp, and writing, failing and fsync of a temporary file.
LEMMA TempSteps ==
    ASSUME FileInv, ~Creating, MakeTemp \/ Write \/ WriteFails \/ Fsync
    PROVE  Outcomes' = Outcomes
<1>1. CASE MakeTemp
  <2>1. temp' \in Temps /\ NewFile(temp')
    BY <1>1 DEF MakeTemp
  <2>2. temp' \in Names /\ temp' # Path /\ Path \in Names
    BY <2>1, NameFacts
  <2>3. /\ dir' = [dir EXCEPT ![temp'] = fd'] /\ dirMay' = dirMay \union {dir'}
        /\ \A d \in dirMay : d[Path] # fd'
        /\ \A i \in Inodes : i # fd' => dataMay'[i] = dataMay[i]
    BY <2>1, <2>2, NewFileStep DEF FileInv
  <2>4. dir'[Path] = dir[Path] /\ \A d \in dirMay : d[Path] # None => d[Path] \in Inodes
    BY <2>2, <2>3 DEF FileInv, DiskInv
  <2> QED  BY <2>3, <2>4, TempNameSame
<1>2. CASE Write
  <2>1. pc = "twrite"
    BY <1>2 DEF Write, Writing, Creating
  <2> QED  BY <1>2, <2>1, TempDataSame DEF Write, SetData
<1>3. CASE WriteFails
  <2>1. pc = "twrite" /\ UNCHANGED dataMay
    BY <1>3 DEF WriteFails, Writing, Creating
  <2>2. CASE UNCHANGED dirMay
    BY <2>1, <2>2 DEF Outcomes
  <2>3. CASE Enter([dir EXCEPT ![Gone] = None])
    <3>1. Gone # Path /\ Path \in Names
      BY <2>1, NameFacts DEF Gone, FileInv, PlaceInv
    <3>2. dirMay' = dirMay \union {dir'} /\ dir'[Path] = dir[Path]
      BY <2>3, <3>1 DEF Enter, FileInv, DiskInv
    <3> QED  BY <2>1, <3>2, TempNameSame
  <2> QED  BY <1>3, <2>2, <2>3 DEF WriteFails
<1>4. CASE Fsync
  <2>1. pc = "tfsync"
    BY <1>4 DEF Fsync, Creating
  <2> QED  BY <1>4, <2>1, TempDataSame DEF Fsync, SyncData
<1> QED  BY <1>1, <1>2, <1>3, <1>4

\* rename adds the whole new version.
LEMMA RenameReplaces == ASSUME FileInv, Rename PROVE Abstract!Replace
<1>1. /\ pc = "rename" /\ pc' = "tfsync_dir" /\ UNCHANGED dataMay
      /\ dir' = [dir EXCEPT ![Path] = dir[temp], ![temp] = None] /\ dirMay' = dirMay \union {dir'}
  BY DEF Rename, Enter
<1>2. /\ temp # Path /\ Path \in Names /\ temp \in Names /\ dir[temp] = fd /\ fd \in Inodes
      /\ dataMay[fd] = {Whole(version)} /\ version \in 1 .. MaxVersions
  BY <1>1, NameFacts, DiskBoundsAssumption DEF FileInv, PlaceInv, FdInv, RunInv
<1>3. dir'[Path] = fd
  BY <1>1, <1>2 DEF FileInv, DiskInv
<1>4. Found(dir', dataMay') = {Whole(version)}
  BY <1>1, <1>2, <1>3, NameFacts DEF Found
<1>5. \A c : c \in Outcomes <=> \E d \in dirMay : c \in Found(d, dataMay)
  BY OutcomesLeft, LeftFacts
<1>6. \A c : c \in Outcomes' <=> \E d \in dirMay' : c \in Found(d, dataMay')
  BY OutcomesLeft, LeftFacts
<1>7. \A c : c \in Outcomes' <=> c \in Outcomes \/ c = Whole(version)
  BY <1>1, <1>4, <1>5, <1>6
<1>8. Outcomes' = Outcomes \union {Whole(version)}
  BY <1>7
<1>9. Creating = FALSE /\ Creating' = FALSE
  BY <1>1 DEF Creating
<1> QED  BY <1>2, <1>8, <1>9 DEF Abstract!Replace

\* fsync of the directory, or a crash, leaves one of the possibilities.
LEMMA Settles ==
    ASSUME FileInv, ~Creating, ~Creating', NEW d \in dirMay, NEW c \in Found(d, dataMay),
           dirMay' = {d}, Found(d, dataMay') = {c}
    PROVE  Abstract!Settle
<1>1. \A x : x \in Outcomes <=> \E e \in dirMay : x \in Found(e, dataMay)
  BY OutcomesLeft, LeftFacts
<1>2. \A x : x \in Outcomes' <=> \E e \in dirMay' : x \in Found(e, dataMay')
  BY OutcomesLeft, LeftFacts
<1>3. c \in Outcomes /\ \A x : x \in Outcomes' <=> x = c
  BY <1>1, <1>2
<1>4. Outcomes' = {c}
  BY <1>3
<1>5. Creating' = Creating
  BY DEF Creating
<1> QED  BY <1>3, <1>4, <1>5 DEF Abstract!Settle

LEMMA AtomicStepLemma ==
    ASSUME FileInv, FileInv', [Next]_vars PROVE AtomicStep
<1>1. CASE Creating \/ Creating'
  BY <1>1, CreateStep DEF AtomicStep, Abstract!Next
<1>2. CASE ~Creating /\ ~Creating'
  <2>1. CASE MakeTemp \/ Write \/ WriteFails \/ Fsync
    BY <1>2, <2>1, TempSteps, Stutters
  <2>2. CASE UNCHANGED disk
    BY <1>2, <2>2, Stutters DEF disk, Outcomes
  <2>3. CASE Rename
    BY <2>3, RenameReplaces DEF AtomicStep, Abstract!Next
  <2>4. CASE FsyncDir
    <3>1. dir \in dirMay /\ dirMay' = {dir} /\ UNCHANGED dataMay
      BY <2>4 DEF FileInv, DiskInv, FsyncDir, SyncDir
    <3>2. Found(dir, dataMay) = {Whole(version)}
      BY <1>2, <2>4, NameFacts DEF FsyncDir, Creating, FileInv, FdInv, PlaceInv, Found
    <3> QED  BY <1>2, <3>1, <3>2, Settles DEF AtomicStep, Abstract!Next
  <2>5. CASE Crash
    <3>1. PICK d \in dirMay : dirMay' = {d}
      BY <2>5 DEF Crash
    <3>2. \E c \in Found(d, dataMay) : Found(d, dataMay') = {c}
      <4>1. d[Path] # None => d[Path] \in Inodes
        BY NameFacts DEF FileInv, DiskInv
      <4> QED  BY <2>5, <4>1, CrashData DEF Found
    <3> QED  BY <1>2, <3>1, <3>2, Settles DEF AtomicStep, Abstract!Next
  <2>6. CASE OpenFile
    BY <1>2, <2>6 DEF OpenFile, Creating
  <2> QED
    BY <2>1, <2>2, <2>3, <2>4, <2>5, <2>6 DEF Next, vars, Start, WriteZero, WriteDone, CallFails
<1> QED  BY <1>1, <1>2

-----------------------------------------------------------------------------
(***************************************************************************)
(* Theorems.                                                               *)
(***************************************************************************)

LEMMA FileTypes == FileInv => TypeOK
  BY DEF FileInv, DiskInv, RunInv, TypeOK, Stored

LEMMA PromiseDurable == FileInv => SuccessIsDurable
<1> SUFFICES ASSUME FileInv, promised # 0 PROVE Outcomes = {Whole(promised)}
  BY DEF SuccessIsDurable
<1>1. \A d \in dirMay : Found(d, dataMay) = {Whole(promised)}
  BY DEF Found, FileInv, PromiseInv
<1>2. dir \in dirMay
  BY DEF FileInv, DiskInv
<1>3. \A c : c \in Outcomes <=> \E d \in dirMay : c \in Found(d, dataMay)
  BY OutcomesLeft, LeftFacts
<1>4. \A c : c \in Outcomes <=> c = Whole(promised)
  BY <1>1, <1>2, <1>3
<1> QED  BY <1>4

\* However write() cuts a version up and wherever a crash falls, a file holds a part of
\* one version and no more.
THEOREM FileTypeCorrect == Spec => []TypeOK
  BY FileInit, FileStep, FileTypes, PTL DEF Spec

\* After a program has reported success its version is what every crash leaves, until
\* a later run begins to change the file under its name.
THEOREM SuccessDurable == Spec => []SuccessIsDurable
  BY FileInit, FileStep, PromiseDurable, PTL DEF Spec

\* replace_an_existing_file and write_to_file replace the file atomically: every step of
\* theirs, failing ones included, and every crash is a step of AtomicFile.
THEOREM ReplacementAtomic == Spec => ReplacesAtomically
<1>1. FileInv /\ FileInv' /\ [Next]_vars => [Abstract!Next]_<<Outcomes, Creating>>
  BY AtomicStepLemma DEF AtomicStep
<1> QED
  BY <1>1, FileInit, FileStep, AtomicInit, PTL DEF Spec, ReplacesAtomically, Abstract!Spec
=============================================================================
