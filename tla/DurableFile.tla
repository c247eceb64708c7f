----------------------------- MODULE DurableFile ----------------------------
(***************************************************************************)
(* The programs of Ensuring_data_reaches_disk, run one after another on    *)
(* the same file, on a machine that may crash between any two of their     *)
(* system calls:                                                           *)
(*   stdio    sync_new_file.c: fopen, fwrite, fflush, fsync of the file    *)
(*            and of its directory;                                        *)
(*   io       sync_new_file_system_io.c: the same with open and full_write;*)
(*   replace  replace_an_existing_file.c: creates a first version like io, *)
(*            then replaces it through a temporary file and rename;        *)
(*   write    write_to_file of create_new_file_by_myself.c: replaces the   *)
(*            file, if there is one, through a temporary file and stdio.   *)
(*                                                                         *)
(* The kernel's part is POSIX's: what was written to a file, or entered    *)
(* into a directory, may or may not have reached the disk until fsync of   *)
(* that file or directory.  dataMay and dirMay are what a crash may leave. *)
(* A version of Size units is the sequence of its number repeated.         *)
(***************************************************************************)
EXTENDS Integers, Sequences

CONSTANTS
    Programs,      \* the programs that are run
    Size,          \* units of a version that are written one by one
    MaxVersions,   \* bound on the versions written, and so on the runs
    MaxTemps,      \* bound on the temporary files left behind
    MaxCrashes     \* bound on the crashes

ASSUME SizeAssumption == Size \in Nat \ {0}
ASSUME ProgramsAssumption == Programs \subseteq {"stdio", "io", "replace", "write"}
ASSUME DiskBoundsAssumption == MaxVersions \in Nat \ {0} /\ {MaxTemps, MaxCrashes} \subseteq Nat

Path == 0                          \* argv[1]
Temps == 1 .. MaxTemps             \* names mkstemp makes up
Names == {Path} \union Temps
None == 0
Inodes == 1 .. MaxVersions + MaxTemps + 1

Absent == <<0>>                    \* no file: not what any version contains
Whole(v) == [i \in 1 .. Size |-> v]
Partial(v) == {SubSeq(Whole(v), 1, n) : n \in 0 .. Size}
AllContents == {Absent} \union UNION {Partial(v) : v \in 1 .. MaxVersions}

VARIABLES
    dir, dirMay,      \* the directory; those a crash may leave
    data, dataMay,    \* data[i]: the content of inode i; those a crash may leave
    pc,               \* the next call of the program that runs
    program,
    version,          \* versions begun so far, the last one is being written
    fd,               \* inode of the file being written
    temp,             \* template: name of the temporary file
    got_zero,         \* of full_write
    promised,         \* the version last reported as written, 0 if none or a
                      \* later one may have replaced it
    crashes

disk == <<dir, dirMay, data, dataMay>>
vars == <<disk, pc, program, version, fd, temp, got_zero, promised, crashes>>

Init ==
    /\ dir = [n \in Names |-> None] /\ dirMay = {dir}
    /\ data = [i \in Inodes |-> <<>>] /\ dataMay = [i \in Inodes |-> {<<>>}]
    /\ pc = "idle" /\ program = "io" /\ version = 0
    /\ fd = None /\ temp = Path /\ got_zero = FALSE
    /\ promised = 0 /\ crashes = 0

-----------------------------------------------------------------------------
(***************************************************************************)
(* The file system, as far as the programs use it.                         *)
(***************************************************************************)

Unused == {i \in Inodes : \A d \in dirMay \union {dir} : \A n \in Names : d[n] # i}

Enter(d) == dir' = d /\ dirMay' = dirMay \union {d}

SetData(i, content, may) ==
    /\ data' = [data EXCEPT ![i] = content]
    /\ dataMay' = [dataMay EXCEPT ![i] = may]

\* A file that is new, entered as n.
NewFile(n) ==
    /\ Unused # {}
    /\ fd' = CHOOSE i \in Unused : TRUE
    /\ Enter([dir EXCEPT ![n] = fd'])
    /\ SetData(fd', <<>>, {<<>>})

WrongSyncData == data' = data /\ dataMay' = dataMay

SyncData == data' = data /\ dataMay' = [dataMay EXCEPT ![fd] = {data[fd]}]

WrongSyncDir == dir' = dir /\ dirMay' = dirMay

SyncDir == dir' = dir /\ dirMay' = {dir}

Unsynced == {i \in Inodes : dataMay[i] # {data[i]}}

\* What a crash may leave under the name of the file.
Outcomes ==
    UNION {IF d[Path] = None THEN {Absent} ELSE dataMay[d[Path]] : d \in dirMay}

-----------------------------------------------------------------------------
(***************************************************************************)
(* The programs.                                                           *)
(***************************************************************************)

Stdio == program \in {"stdio", "write"}
Creating == pc \in {"write", "fsync", "fsync_dir"}

Start(p) ==
    /\ pc = "idle" /\ p \in Programs
    /\ version + (IF p = "replace" THEN 2 ELSE 1) <= MaxVersions
    /\ program' = p
    /\ pc' = IF p = "write" THEN "mkstemp" ELSE "open"
    /\ UNCHANGED <<disk, version, fd, temp, got_zero, promised, crashes>>

\* open(O_CREAT | O_TRUNC) or fopen("w"): truncates the file that is there.
OpenFile ==
    /\ pc = "open"
    /\ IF dir[Path] = None
       THEN NewFile(Path)
       ELSE /\ fd' = dir[Path]
            /\ SetData(dir[Path], <<>>, dataMay[dir[Path]] \union {<<>>})
            /\ UNCHANGED <<dir, dirMay>>
    /\ version' = version + 1
    /\ promised' = 0
    /\ pc' = "write"
    /\ UNCHANGED <<program, temp, got_zero, crashes>>

MakeTemp ==
    /\ pc = "mkstemp"
    /\ \E n \in Temps : dir[n] = None /\ temp' = n /\ NewFile(n)
    /\ version' = version + 1
    /\ pc' = "twrite"
    /\ UNCHANGED <<program, got_zero, promised, crashes>>

Writing == pc \in {"write", "twrite"}

\* to_write: what full_write or fflush asks the kernel to write.
WrongRest == Size

Rest == Size - Len(data[fd])

\* write() takes a part of it, perhaps all.  An EINTR changes nothing.
Write ==
    /\ Writing /\ Rest > 0
    /\ \E n \in 1 .. Rest :
           LET new == data[fd] \o [i \in 1 .. n |-> version]
           IN  SetData(fd, new, dataMay[fd] \union
                   {SubSeq(new, 1, k) : k \in Len(data[fd]) .. Len(new)})
    /\ UNCHANGED <<dir, dirMay, pc, program, version, fd, temp, got_zero, promised, crashes>>

\* write() returns 0 for the first time: full_write tries again.
WriteZero ==
    /\ Writing /\ Rest > 0 /\ ~Stdio /\ ~got_zero
    /\ got_zero' = TRUE
    /\ UNCHANGED <<disk, pc, program, version, fd, temp, promised, crashes>>

\* full_write returned less than message_len: the second 0, or an error.  The file
\* is removed unless the error came before anything was written.  stdio leaves the
\* file, and may write the rest after all when the program exits.
Gone == IF pc = "write" THEN Path ELSE temp

WriteFails ==
    /\ Writing /\ (Rest > 0 \/ Stdio)
    /\ \E zero \in {FALSE, got_zero} :
           IF ~Stdio /\ (zero \/ data[fd] # <<>>)
           THEN Enter([dir EXCEPT ![Gone] = None])
           ELSE UNCHANGED <<dir, dirMay>>
    /\ pc' = "idle" /\ got_zero' = FALSE
    /\ UNCHANGED <<data, dataMay, program, version, fd, temp, promised, crashes>>

WriteDone ==
    /\ Writing /\ Rest = 0
    /\ pc' = IF pc = "write" THEN "fsync" ELSE "tfsync"
    /\ got_zero' = FALSE
    /\ UNCHANGED <<disk, program, version, fd, temp, promised, crashes>>

Fsync ==
    /\ pc \in {"fsync", "tfsync"}
    /\ SyncData
    /\ pc' = IF pc = "fsync" THEN "fsync_dir" ELSE "rename"
    /\ UNCHANGED <<dir, dirMay, program, version, fd, temp, got_zero, promised, crashes>>

\* rename(template, argv[1]): from here on a crash may show the new version.
Rename ==
    /\ pc = "rename"
    /\ Enter([dir EXCEPT ![Path] = dir[temp], ![temp] = None])
    /\ promised' = 0
    /\ pc' = "tfsync_dir"
    /\ UNCHANGED <<data, dataMay, program, version, fd, temp, got_zero, crashes>>

\* fsync(dir_fd); what follows only closes files.  replace_an_existing_file goes
\* on to its second version.
FsyncDir ==
    /\ pc \in {"fsync_dir", "tfsync_dir"}
    /\ SyncDir
    /\ promised' = version
    /\ pc' = IF pc = "fsync_dir" /\ program = "replace" THEN "mkstemp" ELSE "idle"
    /\ UNCHANGED <<data, dataMay, program, version, fd, temp, got_zero, crashes>>

\* open, fsync, rename or mkstemp fails, or malloc: the program exits and leaves
\* the temporary file where it is.
CallFails ==
    /\ pc \notin {"idle", "write", "twrite"}
    /\ pc' = "idle"
    /\ UNCHANGED <<disk, program, version, fd, temp, got_zero, promised, crashes>>

\* The machine crashes and comes up with what is on the disk.
Crash ==
    /\ crashes < MaxCrashes
    /\ crashes' = crashes + 1
    /\ \E d \in dirMay :
           /\ dir' = d /\ dirMay' = {d}
    /\ \E c \in [Unsynced -> AllContents] :
           /\ \A i \in Unsynced : c[i] \in dataMay[i]
           /\ data' = [i \in Inodes |-> IF i \in Unsynced THEN c[i] ELSE data[i]]
           /\ dataMay' = [i \in Inodes |-> {data'[i]}]
    /\ pc' = "idle" /\ got_zero' = FALSE
    /\ UNCHANGED <<program, version, fd, temp, promised>>

Next == \/ \E p \in Programs : Start(p)
        \/ OpenFile \/ MakeTemp
        \/ Write \/ WriteZero \/ WriteFails \/ WriteDone
        \/ Fsync \/ Rename \/ FsyncDir \/ CallFails
        \/ Crash

Spec == Init /\ [][Next]_vars

-----------------------------------------------------------------------------
\* Types; a file never holds more than a version, however write() cuts it up in
\* full_write, and what is in memory is among what a crash may leave.
TypeOK ==
    /\ dir \in [Names -> Inodes \union {None}] /\ dir \in dirMay
    /\ data \in [Inodes -> AllContents \ {Absent}]
    /\ \A i \in Inodes : data[i] \in dataMay[i] /\ dataMay[i] \subseteq AllContents
    /\ version \in 0 .. MaxVersions /\ promised \in 0 .. version
    /\ fd \in Inodes \union {None} /\ temp \in Names

\* Once a program has reported success, a crash at any later time leaves exactly
\* the version it wrote, until a later run truncates the file or renames another
\* over it: failures, restarts and unfinished replacements do not undo it.
SuccessIsDurable == promised # 0 => Outcomes = {Whole(promised)}

\* replace_an_existing_file and write_to_file never put the file at risk: at every
\* moment of a replacement, failing ones included, a crash leaves what it could
\* have left before or the whole new version.
Abstract == INSTANCE AtomicFile WITH
    Contents <- AllContents, Versions <- {Whole(v) : v \in 1 .. MaxVersions},
    held <- Outcomes, creating <- Creating

ReplacesAtomically == Abstract!Spec
=============================================================================
