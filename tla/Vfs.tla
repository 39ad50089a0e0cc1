-------------------------------- MODULE Vfs --------------------------------
(***************************************************************************)
(* Open files (kernel/fs/vfs.c): the system-wide table of file objects and *)
(* the descriptor tables of the processes, over the names and inodes of    *)
(* MiniFS.                                                                 *)
(*                                                                         *)
(* A system call runs with interrupts disabled and none of these gives up  *)
(* the CPU, so each one is a single step, and vfs_busy is never found set. *)
(* The processes take their steps in any order.                            *)
(*                                                                         *)
(* A path is abstracted to what minifs.c resolves it to: the directory     *)
(* that holds its last component, and that component.  A directory is the  *)
(* sequence of its entries without "." and "..", an unused entry being a   *)
(* hole; the size of a regular file counts units of SizeLimit, the size of *)
(* the largest file.  stat, getcwd and the calls that are refused change   *)
(* nothing and are no steps.                                               *)
(*                                                                         *)
(* MiniFS may fail with EIO in any call, and a write that it was told has  *)
(* failed may be on the disk all the same: where that leaves a trace it is *)
(* a choice of the action.  When such a call gives back an inode or a      *)
(* block that the disk refers to, the volume is damaged.  Blocks may from  *)
(* then on belong to two files, and a directory may hold anything that is  *)
(* written to a file.  Entries are not followed any further: a path of a   *)
(* damaged volume may lead to any inode that has a record, or to none.     *)
(***************************************************************************)
EXTENDS Integers, Sequences

CONSTANTS Processes,     \* the entries of the process table
          FirstProcess,  \* the process that runs the shell
          FileLimit,     \* VFS_FILE_LIMIT, 32 in the code
          FdLimit,       \* PROCESS_FD_LIMIT, 16 in the code
          InodeLimit,    \* total_inodes of the volume
          EntryLimit,    \* entries of the largest directory
          SizeLimit,     \* MINIFS_MAX_FILE_SIZE
          OffsetLimit,   \* INT32_MAX: the largest offset lseek accepts
          Names

ASSUME ProcessAssumption == FirstProcess \in Processes
ASSUME TableAssumption == FileLimit \in Nat \ {0} /\ FdLimit \in Nat /\ FdLimit > 3
ASSUME VolumeAssumption == /\ InodeLimit \in Nat /\ InodeLimit > 1
                           /\ EntryLimit \in Nat \ {0}
                           /\ SizeLimit \in Nat \ {0}
                           /\ OffsetLimit \in Nat /\ OffsetLimit >= SizeLimit
                           /\ OffsetLimit >= EntryLimit

Files == 1 .. FileLimit

NoFile == 0                     \* an fd_table entry that is not in use

Descriptors == 3 .. FdLimit - 1

Inodes == 0 .. InodeLimit - 1

Root == 0

Access == {"RDONLY", "WRONLY", "RDWR"}

Kinds == {"regular", "directory"}

\* What the bitmap and the inode table say of an inode: "lost" is one that is
\* allocated and has no valid record.
Modes == Kinds \cup {"free", "lost"}

Entry == [name : Names, inode : Inodes]

Hole == [unused |-> TRUE]       \* a directory entry of zeros

FileObject == [used : BOOLEAN, refcount : Nat, inode : Inodes,
               offset : 0 .. OffsetLimit, access : Access,
               mode : {"free", "regular", "directory"}]

\* What clear_file leaves.
ClearFile == [used |-> FALSE, refcount |-> 0, inode |-> Root, offset |-> 0,
              access |-> "RDONLY", mode |-> "free"]

VARIABLES
    process,       \* [Processes -> {"unused", "live", "zombie"}]
    fd_table,      \* fd_table of each process: a file object or NoFile
    file_table,
    mode,          \* MiniFS: mode of each inode, "free" when not allocated
    size,          \* MiniFS: size of each regular file
    entries,       \* MiniFS: the entries of each directory, until
    damaged        \* the volume refers to what it has given back (history)

volume == <<mode, size, entries, damaged>>

vars == <<process, fd_table, file_table, volume>>

-----------------------------------------------------------------------------
\* MiniFS as vfs.c sees it.

\* The positions of the entries of directory d that are named n.
Matches(d, n) == {k \in 1 .. Len(entries[d]) : entries[d][k] # Hole
                                                 /\ entries[d][k].name = n}

\* What the entry at position k of directory d refers to.
Target(d, k) == entries[d][k].inode

\* Position k of directory d holds an entry.
Named(d, k) ==
    /\ mode[d] = "directory" /\ k \in 1 .. Len(entries[d])
    /\ entries[d][k] # Hole

Links(i) == {link \in Inodes \X (1 .. EntryLimit) :
                Named(link[1], link[2]) /\ Target(link[1], link[2]) = i}

\* The directories some path leads to.  (unlink may lose one whose inode it
\* fails to release; nothing is below such a directory.)
Directories == {d \in Inodes : mode[d] = "directory"
                                 /\ (damaged \/ d = Root \/ Links(d) # {})}

\* directory_find_internal of name n in directory d: the first entry with that
\* name leads to inode i, which has a valid record, or there is none (ENOENT).
FirstMatch(d, n) == CHOOSE k \in Matches(d, n) : \A j \in Matches(d, n) : k <= j

Finds(d, n, i) ==
    /\ mode[i] \in Kinds
    /\ damaged \/ (Matches(d, n) # {} /\ Target(d, FirstMatch(d, n)) = i)

FindsNone(d, n) == damaged \/ Matches(d, n) = {}

Enter(contents) == entries' = IF damaged THEN entries ELSE contents

FreeInodes == {i \in Inodes \ {Root} : mode[i] = "free"}

\* allocate_inode takes the first free bit.
FirstFree == CHOOSE i \in FreeInodes : \A j \in FreeInodes : i <= j

Holes(d) == {k \in 1 .. Len(entries[d]) : entries[d][k] = Hole}

\* directory_append_locked fills the first hole, or appends.
CanAppend(d) == Holes(d) # {} \/ Len(entries[d]) < EntryLimit

Appended(d, entry) ==
    IF Holes(d) # {}
    THEN [entries[d] EXCEPT
            ![CHOOSE k \in Holes(d) : \A j \in Holes(d) : k <= j] = entry]
    ELSE Append(entries[d], entry)

IsEmptyBeforeLast(d) ==
    \A k \in 1 .. Len(entries[d]) - 1 : entries[d][k] = Hole

IsEmpty(d) == \A k \in 1 .. Len(entries[d]) : entries[d][k] = Hole

\* A new inode, and an entry for it.
Linked(d, n) == [entries EXCEPT
                   ![FirstFree] = <<>>,
                   ![d] = Appended(d, [name |-> n, inode |-> FirstFree])]

\* minifs_create and minifs_mkdir, when name n is not in directory d.
MakeInode(d, n, kind) ==
    /\ FreeInodes # {} /\ (damaged \/ CanAppend(d))
    /\ mode' = [mode EXCEPT ![FirstFree] = kind]
    /\ size' = [size EXCEPT ![FirstFree] = 0]
    /\ Enter(Linked(d, n))
    /\ UNCHANGED damaged

\* The same calls when they fail with EIO.  Each step of the rollback may fail
\* in turn, and leave the inode allocated, without its record, or with the one
\* it had; and the entry may be on the disk, although the call that wrote it
\* has failed.  When the entry's inode, its block or the block it is in has
\* been given back nevertheless, the volume is damaged.
MakeInodeFails(d, n, kind) ==
    /\ FreeInodes # {}
    /\ \E left \in Modes : mode' = [mode EXCEPT ![FirstFree] = left]
    /\ size' = [size EXCEPT ![FirstFree] = 0]
    /\ \/ /\ Enter([entries EXCEPT ![FirstFree] = <<>>])
          /\ UNCHANGED damaged
       \/ /\ damaged \/ CanAppend(d)
          /\ Enter(Linked(d, n))
          /\ damaged' \in IF mode'[FirstFree] = kind THEN {damaged, TRUE} ELSE {TRUE}

-----------------------------------------------------------------------------
\* File objects and descriptors.

FreeFiles == {f \in Files : ~file_table[f].used}

\* allocate_file takes the first entry that is not used.
FreeFile == CHOOSE f \in FreeFiles : \A g \in FreeFiles : f <= g

FreeDescriptors(p) == {d \in Descriptors : fd_table[p][d] = NoFile}

\* scheduler_fd_install takes the first descriptor that is not in use.
FreeDescriptor(p) ==
    CHOOSE d \in FreeDescriptors(p) : \A e \in FreeDescriptors(p) : d <= e

InstallLeaking(p, i, kind, how) ==
    /\ file_table' = [file_table EXCEPT ![FreeFile] =
            [used |-> TRUE, refcount |-> 1, inode |-> i, offset |-> 0,
             access |-> how, mode |-> kind]]
    /\ fd_table' = IF FreeDescriptors(p) = {}
                   THEN fd_table
                   ELSE [fd_table EXCEPT ![p][FreeDescriptor(p)] = FreeFile]

\* The end of vfs_open for inode i: a new file object, and a descriptor for
\* it unless the process has none left (EMFILE), when it is cleared again.
Install(p, i, kind, how) ==
    IF FreeDescriptors(p) = {}
    THEN UNCHANGED <<fd_table, file_table>>
    ELSE /\ file_table' = [file_table EXCEPT ![FreeFile] =
                [used |-> TRUE, refcount |-> 1, inode |-> i, offset |-> 0,
                 access |-> how, mode |-> kind]]
         /\ fd_table' = [fd_table EXCEPT ![p][FreeDescriptor(p)] = FreeFile]

\* file_from_handle(scheduler_fd_get(d)).
Opened(p, d) == fd_table[p][d] # NoFile /\ file_table[fd_table[p][d]].used

File(p, d) == file_table[fd_table[p][d]]

Readable(p, d) == Opened(p, d) /\ File(p, d).access # "WRONLY"

Writable(p, d) == Opened(p, d) /\ File(p, d).access # "RDONLY"

SeekShared(p, d, target) ==
    file_table' = [f \in Files |->
        IF file_table[f].used /\ file_table[f].inode = File(p, d).inode
        THEN [file_table[f] EXCEPT !.offset = target]
        ELSE file_table[f]]

Seek(p, d, target) ==
    file_table' = [file_table EXCEPT ![fd_table[p][d]].offset = target]

\* vfs_close: the object goes with its last reference.
Released(object) ==
    CASE ~object.used -> object                           \* EBADF
      [] object.used /\ object.refcount = 1 -> ClearFile
      [] OTHER -> [object EXCEPT !.refcount = object.refcount - 1]

BusyWriters(i) == \E f \in Files : /\ file_table[f].used
                                   /\ file_table[f].inode = i
                                   /\ file_table[f].access # "RDONLY"

Busy(i) == \E f \in Files : file_table[f].used /\ file_table[f].inode = i

-----------------------------------------------------------------------------
\* System calls of a live process p.

\* open of a name that exists.  O_TRUNC sets the size to 0 before the
\* descriptor is installed; when it fails with EIO the file may be cut all
\* the same, but nothing is opened.
OpenFound(p, i, how, trunc) ==
    /\ mode[i] = "directory" => how = "RDONLY"          \* EISDIR
    /\ UNCHANGED <<process, mode, entries, damaged>>
    /\ \/ /\ size' = IF trunc THEN [size EXCEPT ![i] = 0] ELSE size
          /\ Install(p, i, mode[i], how)
       \/ /\ trunc /\ size' = [size EXCEPT ![i] = 0]
          /\ UNCHANGED <<fd_table, file_table>>

OpenRoot(p) ==
    /\ Install(p, Root, "directory", "RDONLY")
    /\ UNCHANGED <<process, volume>>

\* open with O_CREAT of a name that does not exist; O_TRUNC has no effect.
OpenCreate(p, d, n) ==
    /\ UNCHANGED process
    /\ \/ /\ MakeInode(d, n, "regular")
          /\ \E how \in Access : Install(p, FirstFree, "regular", how)
       \/ MakeInodeFails(d, n, "regular") /\ UNCHANGED <<fd_table, file_table>>

Open(p) ==
    /\ process[p] = "live" /\ FreeFiles # {}            \* ENFILE
    /\ \/ OpenRoot(p)
       \/ \E d \in Directories, n \in Names :
            \/ \E i \in Inodes, how \in Access, trunc \in BOOLEAN :
                 /\ Finds(d, n, i)
                 /\ trunc => how # "RDONLY"              \* flags_valid
                 /\ OpenFound(p, i, how, trunc)
            \/ FindsNone(d, n) /\ OpenCreate(p, d, n)

\* create: an open with O_CREAT, and a close when it succeeds.
Create(p) ==
    /\ process[p] = "live" /\ FreeFiles # {}
    /\ \E d \in Directories, n \in Names :
          /\ FindsNone(d, n)
          /\ MakeInode(d, n, "regular") \/ MakeInodeFails(d, n, "regular")
    /\ UNCHANGED <<process, fd_table, file_table>>

Close(p, d) ==
    /\ process[p] = "live" /\ fd_table[p][d] # NoFile
    /\ fd_table' = [fd_table EXCEPT ![p][d] = NoFile]
    /\ file_table' = [file_table EXCEPT ![fd_table[p][d]] = Released(@)]
    /\ UNCHANGED <<process, volume>>

\* read and write move the offset by what was transferred, which may be less
\* than what was asked for.
Read(p, d) ==
    /\ process[p] = "live" /\ Readable(p, d) /\ File(p, d).mode = "regular"
    /\ \E n \in 1 .. SizeLimit :
          /\ File(p, d).offset + n <= size[File(p, d).inode]
          /\ Seek(p, d, File(p, d).offset + n)
    /\ UNCHANGED <<process, fd_table, volume>>

\* minifs_write makes no sparse files: the offset may not be beyond the end.
\* Of n units m are reported; the last write of a call that fails may be on
\* the disk, and the block that it has added to the file given back.
Write(p, d) ==
    /\ process[p] = "live" /\ Writable(p, d) /\ File(p, d).mode = "regular"
    /\ LET i == File(p, d).inode
           o == File(p, d).offset
       IN  /\ o <= size[i]
           /\ \E n \in 1 .. SizeLimit : \E m \in 0 .. n :
                 /\ o + n <= SizeLimit
                 /\ size' = [size EXCEPT ![i] = IF o + n > @ THEN o + n ELSE @]
                 /\ Seek(p, d, o + m)
                 /\ damaged' \in IF m < n /\ o + n > size[i] THEN {damaged, TRUE}
                                                             ELSE {damaged}
    /\ UNCHANGED <<process, fd_table, mode, entries>>

\* Of the three origins of lseek all lead to an offset in range.
Lseek(p, d) ==
    /\ process[p] = "live" /\ Opened(p, d)
    /\ \E target \in 0 .. OffsetLimit : Seek(p, d, target)
    /\ UNCHANGED <<process, fd_table, volume>>

\* readdir skips holes and stops behind the entry it returns, or at the end.
\* With an offset beyond the end it leaves the offset alone.
NextEntries(i, o) == {k \in 1 .. Len(entries[i]) : k > o /\ entries[i][k] # Hole}

Cursor(i, o) ==
    CASE NextEntries(i, o) # {} ->
            CHOOSE k \in NextEntries(i, o) : \A j \in NextEntries(i, o) : k <= j
      [] NextEntries(i, o) = {} /\ o < Len(entries[i]) -> Len(entries[i])
      [] OTHER -> o

Readdir(p, d) ==
    /\ process[p] = "live" /\ Readable(p, d) /\ File(p, d).mode = "directory"
    /\ \E o \in 0 .. OffsetLimit :
          /\ damaged \/ o = Cursor(File(p, d).inode, File(p, d).offset)
          /\ Seek(p, d, o)
    /\ UNCHANGED <<process, fd_table, volume>>

Mkdir(p) ==
    /\ process[p] = "live"
    /\ \E d \in Directories, n \in Names :
          /\ FindsNone(d, n)
          /\ MakeInode(d, n, "directory") \/ MakeInodeFails(d, n, "directory")
    /\ UNCHANGED <<process, fd_table, file_table>>

UnlinkCompacting(p) ==
    /\ process[p] = "live"
    /\ \E d \in Directories, n \in Names : \E k \in Matches(d, n) :
          LET i == Target(d, k)
              last == Len(entries[d])
          IN  /\ ~damaged /\ ~Busy(i)
              /\ mode[i] = "directory" => IsEmpty(i)
              /\ entries' = [entries EXCEPT
                    ![d] = SubSeq([entries[d] EXCEPT ![k] = entries[d][last]],
                                  1, last - 1)]
              /\ mode' = [mode EXCEPT ![i] = "free"]
    /\ UNCHANGED <<process, fd_table, file_table, size, damaged>>

\* unlink: EBUSY for an open file, ENOTEMPTY for a directory with entries.
\* The entry goes first; an I/O error in that write or after it leaves the
\* inode allocated, with its record or without.
Unlink(p) ==
    /\ process[p] = "live"
    /\ \E d \in Directories, n \in Names, i \in Inodes \ {Root} :
          /\ Finds(d, n, i) /\ ~Busy(i)
          /\ mode[i] = "directory" => damaged \/ IsEmpty(i)
          /\ Enter([entries EXCEPT ![d][FirstMatch(d, n)] = Hole])
          /\ \E left \in {"free", "lost", mode[i]} : mode' = [mode EXCEPT ![i] = left]
    /\ UNCHANGED <<process, fd_table, file_table, size, damaged>>

-----------------------------------------------------------------------------
\* Processes.

\* spawn reads the image of q through a descriptor of p, which is closed
\* again, and starts q with an empty fd_table.
Spawn(p, q) ==
    /\ process[p] = "live" /\ process[q] = "unused"
    /\ FreeFiles # {} /\ FreeDescriptors(p) # {}
    /\ \E i \in Inodes : /\ mode[i] = "regular" /\ size[i] > 0
                         /\ damaged \/ Links(i) # {}
    /\ process' = [process EXCEPT ![q] = "live"]
    /\ fd_table' = [fd_table EXCEPT ![q] = [d \in Descriptors |-> NoFile]]
    /\ UNCHANGED <<file_table, volume>>

\* exit, or the end of a process by a page fault: vfs_close_all_current.
Exit(p) ==
    /\ process[p] = "live"
    /\ process' = [process EXCEPT ![p] = "zombie"]
    /\ fd_table' = [fd_table EXCEPT ![p] =
            [d \in Descriptors |-> NoFile]]
    /\ file_table' = [f \in Files |->
            IF \E d \in Descriptors : fd_table[p][d] = f
            THEN Released(file_table[f])
            ELSE file_table[f]]
    /\ UNCHANGED volume

\* reap clears the table entry, its fd_table included.
Reap(q) ==
    /\ process[q] = "zombie"
    /\ process' = [process EXCEPT ![q] = "unused"]
    /\ fd_table' = [fd_table EXCEPT ![q] = [d \in Descriptors |-> NoFile]]
    /\ UNCHANGED <<file_table, volume>>

\* The volume once everything in it has been unlinked: the root directory
\* keeps an unused entry where mkfs put /bin.
Init ==
    /\ process = [p \in Processes |-> IF p = FirstProcess THEN "live" ELSE "unused"]
    /\ fd_table = [p \in Processes |-> [d \in Descriptors |-> NoFile]]
    /\ file_table = [f \in Files |-> ClearFile]
    /\ mode = [i \in Inodes |-> IF i = Root THEN "directory" ELSE "free"]
    /\ size = [i \in Inodes |-> 0]
    /\ entries = [i \in Inodes |-> IF i = Root THEN <<Hole>> ELSE <<>>]
    /\ damaged = FALSE

Next ==
    \/ \E p \in Processes : \/ Open(p) \/ Create(p) \/ Mkdir(p) \/ Unlink(p)
                             \/ Exit(p) \/ Reap(p)
    \/ \E p \in Processes, d \in Descriptors :
          \/ Close(p, d) \/ Read(p, d) \/ Write(p, d) \/ Lseek(p, d)
          \/ Readdir(p, d)
    \/ \E p, q \in Processes : Spawn(p, q)

Spec == Init /\ [][Next]_vars

-----------------------------------------------------------------------------
\* Properties.

TypeOK ==
    /\ process \in [Processes -> {"unused", "live", "zombie"}]
    /\ fd_table \in [Processes -> [Descriptors -> Files \cup {NoFile}]]
    /\ file_table \in [Files -> FileObject]
    /\ mode \in [Inodes -> Modes]
    /\ size \in [Inodes -> 0 .. SizeLimit]
    /\ entries \in [Inodes -> Seq(Entry \cup {Hole})]
    /\ \A i \in Inodes : Len(entries[i]) <= EntryLimit
    /\ damaged \in BOOLEAN

\* The two layers of reference agree: a file object is in use exactly when
\* one descriptor refers to it, that descriptor belongs to a live process,
\* and its reference count is one.  No sequence of opens that fail half way,
\* closes, spawns, exits and reaps loses a file object (there are only
\* VFS_FILE_LIMIT of them) or leaves a descriptor without one.
References(f) == {r \in Processes \X Descriptors : fd_table[r[1]][r[2]] = f}

FilesOwned ==
    \A f \in Files :
       IF file_table[f].used
       THEN /\ file_table[f].refcount = 1
            /\ \E r \in References(f) : References(f) = {r}
                                         /\ process[r[1]] = "live"
       ELSE References(f) = {}

\* The inode of an open file is allocated and still is what it was when it
\* was opened: vfs_unlink refuses (EBUSY) while any process has it open, so
\* that its number is not given to a new file under an old descriptor.  That
\* does not depend on the names, and holds on a damaged volume too.
OpenInodesLive ==
    \A f \in Files : file_table[f].used =>
        /\ mode[file_table[f].inode] = file_table[f].mode
        /\ mode[file_table[f].inode] # "free"

\* The names form a tree: every entry refers to an inode with a valid record,
\* no inode has two names, nothing links to the root, a directory does not
\* hold the same name twice, and what has a name can be reached from the
\* root.  An I/O error changes that in one way only: when create, mkdir or
\* write is told that its last write has failed, and it has not, the rollback
\* gives back what an entry or a file refers to.  Every other error, in those
\* calls, in their rollbacks and in unlink, costs at most an inode.
TreeShape ==
    /\ mode[Root] = "directory"
    /\ ~damaged =>
         /\ Links(Root) = {}
         /\ \A i \in Inodes \ {Root} :
              /\ \A link, other \in Links(i) : link = other
              /\ mode[i] \notin Kinds => Links(i) = {}
              /\ \A link \in Links(i) : link[1] \in Directories
         /\ \A d \in Inodes, n \in Names :
              mode[d] = "directory" => \A k, l \in Matches(d, n) : k = l

\* The invariant that makes the ones above inductive, without counting:
\* descriptors are taken one by one, entries of directories pair by pair.
DescriptorsOwn ==
    /\ \A p \in Processes, d \in Descriptors : fd_table[p][d] # NoFile =>
         process[p] = "live" /\ file_table[fd_table[p][d]].used
    /\ \A p, q \in Processes, d, e \in Descriptors :
         (fd_table[p][d] = fd_table[q][e] /\ fd_table[p][d] # NoFile) =>
             p = q /\ d = e
    /\ \A f \in Files : file_table[f].used =>
         /\ file_table[f].refcount = 1
         /\ \E p \in Processes, d \in Descriptors : fd_table[p][d] = f

NamesLead ==
    \A d \in Inodes, k \in 1 .. EntryLimit : Named(d, k) =>
       /\ Target(d, k) # Root /\ mode[Target(d, k)] \in Kinds
       /\ \/ d = Root
          \/ \E e \in Inodes, l \in 1 .. EntryLimit :
                 Named(e, l) /\ Target(e, l) = d

NamesDiffer ==
    \A d, e \in Inodes, k, l \in 1 .. EntryLimit :
       /\ Named(d, k) /\ Named(e, l)
       /\ \/ Target(d, k) = Target(e, l)
          \/ d = e /\ entries[d][k].name = entries[e][l].name
       => d = e /\ k = l

Inv == /\ TypeOK /\ DescriptorsOwn /\ OpenInodesLive
       /\ mode[Root] = "directory"
       /\ ~damaged => NamesLead /\ NamesDiffer

\* Iteration with readdir is stable: while a directory exists no step moves
\* an entry to another position, so that an offset into the directory never
\* skips an entry or sees one twice, whatever is created and unlinked in it,
\* as long as the volume is not damaged.
EntriesStayPut ==
    [][\A d \in Inodes : (~damaged /\ mode[d] = "directory"
                             /\ mode'[d] = "directory") =>
         /\ Len(entries'[d]) >= Len(entries[d])
         /\ \A k \in 1 .. Len(entries[d]) :
              entries'[d][k] # entries[d][k] =>
                  Hole \in {entries[d][k], entries'[d][k]}]_vars

\* What a program can tell of descriptor d of process p.
Seen(p, d) ==
    IF fd_table[p][d] = NoFile
    THEN [closed |-> TRUE]
    ELSE [inode |-> File(p, d).inode, offset |-> File(p, d).offset,
          access |-> File(p, d).access, mode |-> File(p, d).mode]

SeenByAll == [p \in Processes |-> [d \in Descriptors |-> Seen(p, d)]]

\* Descriptors behave as if each had its file object to itself: no step of a
\* process moves the offset of another's, an exit takes all of its own, and
\* inodes are freed only when nobody has them open.
Promise == INSTANCE OpenFiles WITH
    open <- SeenByAll, allocated <- mode

DescriptorsIndependent == Promise!Spec
=============================================================================
