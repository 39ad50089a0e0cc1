------------------------------- MODULE MiniFS -------------------------------
(***************************************************************************)
(* The file system of the kernel (kernel/fs/minifs.c) on its disk: the two *)
(* bitmaps, the inode table and the data blocks, written one record at a   *)
(* time by create, mkdir, unlink, write and truncate.                      *)
(*                                                                         *)
(* There is no journal.  An operation is a fixed sequence of disk writes,  *)
(* each with the writes that roll the operation back when it fails; all    *)
(* the reads it makes come before or between its own writes, and nothing   *)
(* else runs while it holds minifs_busy, so the sequence (plan) is known   *)
(* when it starts.  One step carries out one write.  A write may fail, at  *)
(* any of its sectors and also after the last of them, and the power may   *)
(* go at any time; a read that fails has the effect of a failure of the    *)
(* write behind it that leaves nothing on the disk.                        *)
(*                                                                         *)
(* Sizes and offsets count cells: a cell of a block holds a directory      *)
(* entry, a piece of a file, or a block pointer when the block is an       *)
(* indirect block.  A cell, a bit or an inode lies within one sector and   *)
(* is written as a whole; a block is written sector by sector.             *)
(***************************************************************************)
EXTENDS Integers, Sequences, FiniteSets, SequencesExt

CONSTANTS InodeLimit,      \* total_inodes
          BlockLimit,      \* the data blocks of the volume are 1 .. BlockLimit
          CellsPerBlock,   \* 64 entries or 1024 pointers in the code
          DirectCount,     \* MINIFS_DIRECT_COUNT, 10 in the code
          Names,           \* of directory entries, "." and ".." apart
          Values,          \* what a piece of a file can hold
          Dot, DotDot,     \* "." and ".."
          SizeBound,       \* bound of the instance: the largest regular file
          FaultBound       \* bound of the instance: failed writes, power losses

ASSUME GeometryAssumption ==
    /\ InodeLimit \in Nat \ {0} /\ BlockLimit \in Nat \ {0}
    /\ CellsPerBlock \in Nat /\ CellsPerBlock >= 3 /\ DirectCount \in Nat \ {0}
    /\ SizeBound \in 0 .. (DirectCount + CellsPerBlock) * CellsPerBlock
    /\ FaultBound \in Nat
    /\ Dot \notin Names /\ DotDot \notin Names

Inodes == 0 .. InodeLimit - 1

Root == 0

Blocks == 1 .. BlockLimit

NoBlock == 0

\* MINIFS_MAX_FILE_SIZE.
MaxSize == (DirectCount + CellsPerBlock) * CellsPerBlock

Zero == [kind |-> "zero"]                    \* a cell of zeros

DataCell(v) == [kind |-> "data", value |-> v]

EntryCell(n, i, m) == [kind |-> "entry", name |-> n, inode |-> i, type |-> m]

PointerCell(b) == [kind |-> "pointer", block |-> b]

ZeroBlock == [c \in 1 .. CellsPerBlock |-> Zero]

NoPointers == [k \in 1 .. DirectCount |-> NoBlock]

\* clear_inode, and the record of zeros that clear_inode_record writes.
NewInode == [mode |-> "regular", link_count |-> 1, size |-> 0,
             direct |-> NoPointers, indirect |-> NoBlock]

NoInode == [NewInode EXCEPT !.mode = "none", !.link_count = 0]

\* The first block of a new directory.
DotCells(i, parent) ==
    [ZeroBlock EXCEPT ![1] = EntryCell(Dot, i, "directory"),
                      ![2] = EntryCell(DotDot, parent, "directory")]

VARIABLES
    disk,       \* [imap, bmap : allocated inodes and blocks; inode; content]
    plan,       \* the writes still to do, each with its rollback
    rolling,    \* the plan is a rollback
    faults,     \* failed writes and power losses so far
    before, after,   \* history: what the volume shows before and after the
                     \* operation in progress
    misled      \* history: a write that was reported as failed had made its
                \* operation visible, and the operation was rolled back

vars == <<disk, plan, rolling, faults, before, after, misled>>

-----------------------------------------------------------------------------
\* Disk writes.

SetInodeBit(i, v) == [at |-> "imap", index |-> i, value |-> v]

SetBlockBit(b, v) == [at |-> "bmap", index |-> b, value |-> v]

PutInode(i, r) == [at |-> "inode", index |-> i, value |-> r]

PutBlock(b, cells) == [at |-> "content", index |-> b, value |-> cells]

\* Not a write: the operation finds no free block and fails with ENOSPC.
NoSpace == [at |-> "nowhere"]

Applied(dk, w) ==
    CASE w.at = "imap" -> [dk EXCEPT !.imap = IF w.value THEN @ \cup {w.index}
                                                         ELSE @ \ {w.index}]
      [] w.at = "bmap" -> [dk EXCEPT !.bmap = IF w.value THEN @ \cup {w.index}
                                                         ELSE @ \ {w.index}]
      [] w.at = "inode" -> [dk EXCEPT !.inode[w.index] = w.value]
      [] w.at = "content" -> [dk EXCEPT !.content[w.index] = w.value]
      [] w.at = "nowhere" -> dk

\* What may be on the disk after a write that failed or was interrupted: its
\* sectors go out in order, so a first part of a block, up to all of it.
Partly(dk, w) ==
    IF w.at = "content"
    THEN {[dk EXCEPT !.content[w.index] =
             [c \in 1 .. CellsPerBlock |-> IF c <= k THEN w.value[c] ELSE @[c]]] :
          k \in 0 .. CellsPerBlock}
    ELSE {dk, Applied(dk, w)}

Step(w, undo) == [write |-> w, undo |-> undo]

\* The caller of a function adds its own rollback to that of the function.
WithUndo(steps, undo) ==
    [k \in DOMAIN steps |-> [steps[k] EXCEPT !.undo = @ \o undo]]

When(condition, sequence) == IF condition THEN sequence ELSE <<>>

-----------------------------------------------------------------------------
\* Reading the disk.

\* divide_round_up(size, MINIFS_BLOCK_SIZE).
BlocksFor(size) == (size + CellsPerBlock - 1) \div CellsPerBlock

ShapeValid(r) ==
    /\ \A k \in 1 .. DirectCount : (r.direct[k] # NoBlock) <=> (k <= BlocksFor(r.size))
    /\ (r.indirect # NoBlock) <=> (BlocksFor(r.size) > DirectCount)

\* read_inode_internal succeeds.
Readable(dk, i) ==
    /\ i \in dk.imap
    /\ dk.inode[i].mode # "none" /\ dk.inode[i].link_count > 0
    /\ dk.inode[i].mode = "directory" => dk.inode[i].size > 0
    /\ ShapeValid(dk.inode[i])

ContentOf(dk, b) == IF b \in Blocks THEN dk.content[b] ELSE ZeroBlock

PointerIn(cell) == IF cell.kind = "pointer" THEN cell.block ELSE NoBlock

\* The pointer that inode_block_at finds for the block of a file.
Pointer(dk, r, fileBlock) ==
    IF fileBlock < DirectCount
    THEN r.direct[fileBlock + 1]
    ELSE PointerIn(ContentOf(dk, r.indirect)[fileBlock - DirectCount + 1])

FileBlocks(dk, r) == [k \in 1 .. BlocksFor(r.size) |-> Pointer(dk, r, k - 1)]

\* inode_block_at succeeds for every block of the file.
Mapped(dk, r) == /\ \A k \in 1 .. BlocksFor(r.size) : FileBlocks(dk, r)[k] \in dk.bmap
                 /\ r.indirect # NoBlock => r.indirect \in dk.bmap

CellAt(dk, r, o) ==
    ContentOf(dk, Pointer(dk, r, o \div CellsPerBlock))[(o % CellsPerBlock) + 1]

\* The offsets of the entries of directory i.
EntryOffsets(dk, i) == {o \in 0 .. dk.inode[i].size - 1 :
                            CellAt(dk, dk.inode[i], o).kind = "entry"}

\* directory_find_internal.
Found(dk, i, n) == {o \in EntryOffsets(dk, i) : CellAt(dk, dk.inode[i], o).name = n}

\* directory_empty_locked.
IsEmpty(dk, i) == \A o \in EntryOffsets(dk, i) :
                     CellAt(dk, dk.inode[i], o).name \in {Dot, DotDot}

Children(dk, i) == {CellAt(dk, dk.inode[i], o).inode :
                      o \in {q \in EntryOffsets(dk, i) :
                               CellAt(dk, dk.inode[i], q).name \in Names}}

\* The inodes that paths of at most n components lead to.
Reached(dk) ==
    LET Reach[n \in 0 .. InodeLimit] ==
          IF n = 0 THEN {Root}
          ELSE LET nearer == Reach[n - 1]
               IN  nearer \cup UNION {Children(dk, i) :
                     i \in {j \in nearer : dk.inode[j].mode = "directory"}}
    IN  Reach[InodeLimit]

ReachedDirectories(dk) == {i \in Reached(dk) : dk.inode[i].mode = "directory"}

ReachedFiles(dk) == {i \in Reached(dk) : dk.inode[i].mode = "regular"}

\* What programs see of the volume: its names, and what the files hold.
View(dk) ==
    LET reached == Reached(dk)
    IN  [links |-> UNION {{<<i, CellAt(dk, dk.inode[i], o)>> : o \in EntryOffsets(dk, i)} :
                            i \in {j \in reached : dk.inode[j].mode = "directory"}},
         files |-> [i \in {j \in reached : dk.inode[j].mode = "regular"} |->
                      [o \in 0 .. dk.inode[i].size - 1 |-> CellAt(dk, dk.inode[i], o)]]]

-----------------------------------------------------------------------------
\* The writes of each operation, in order.

FreeInodes(dk) == (Inodes \ {Root}) \ dk.imap

FreeBlocks(bmap) == Blocks \ bmap

\* allocate_bitmap_bit takes the first bit that is clear.
FirstOf(set) == CHOOSE x \in set : \A y \in set : x <= y

\* allocate_block: the bit, then a block of zeros.
AllocateBlock(b) == <<Step(SetBlockBit(b, TRUE), <<>>),
                      Step(PutBlock(b, ZeroBlock), <<SetBlockBit(b, FALSE)>>)>>

\* A block of old with the cells new from offset o of the file on.
WithCells(old, o, new) ==
    [c \in 1 .. CellsPerBlock |->
        LET k == c - (o % CellsPerBlock) IN IF k \in DOMAIN new THEN new[k] ELSE old[c]]

OverwriteInodeFirst(dk, i, r, o, cells) ==
    LET b == Pointer(dk, r, o \div CellsPerBlock)
        end == o + Len(cells)
    IN  When(end > r.size, <<Step(PutInode(i, [r EXCEPT !.size = end]), <<>>)>>)
        \o <<Step(PutBlock(b, WithCells(dk.content[b], o, cells)), <<>>)>>

\* write_chunk_locked in a block that the file has: the inode changes only
\* when the file grows.
OverwriteSteps(dk, i, r, o, cells) ==
    LET b == Pointer(dk, r, o \div CellsPerBlock)
        end == o + Len(cells)
    IN  <<Step(PutBlock(b, WithCells(dk.content[b], o, cells)), <<>>)>>
        \o When(end > r.size, <<Step(PutInode(i, [r EXCEPT !.size = end]), <<>>)>>)

\* write_chunk_locked in a new block b, which becomes block number f of the
\* file, with a new indirect block n when f is the first that needs one.
ExtendSteps(dk, i, r, o, cells) ==
    LET f == o \div CellsPerBlock
        end == o + Len(cells)
        grows == f >= DirectCount /\ r.indirect = NoBlock
        n == IF grows THEN FirstOf(FreeBlocks(dk.bmap)) ELSE r.indirect
        free == FreeBlocks(dk.bmap \cup {n})
        b == FirstOf(free)
        index == f - DirectCount + 1
        pointers == IF grows THEN ZeroBlock ELSE ContentOf(dk, n)
        freeIndirect == When(grows, <<SetBlockBit(n, FALSE)>>)
        undo == <<SetBlockBit(b, FALSE)>> \o freeIndirect
        extended == IF f < DirectCount
                    THEN [r EXCEPT !.direct[f + 1] = b, !.size = end]
                    ELSE [r EXCEPT !.indirect = n, !.size = end]
    IN  CASE grows /\ FreeBlocks(dk.bmap) = {} -> <<Step(NoSpace, <<>>)>>
          [] grows /\ FreeBlocks(dk.bmap) # {} /\ free = {} ->
               AllocateBlock(n) \o <<Step(NoSpace, freeIndirect)>>
          [] ~grows /\ free = {} -> <<Step(NoSpace, <<>>)>>
          [] OTHER ->
               When(grows, AllocateBlock(n))
               \o WithUndo(AllocateBlock(b), freeIndirect)
               \o <<Step(PutBlock(b, WithCells(ZeroBlock, o, cells)), undo)>>
               \o When(f >= DirectCount,
                       <<Step(PutBlock(n, [pointers EXCEPT ![index] = PointerCell(b)]),
                              undo)>>)
               \o <<Step(PutInode(i, extended),
                         When(f >= DirectCount /\ ~grows, <<PutBlock(n, [pointers EXCEPT ![index] = Zero])>>)
                         \o undo)>>

\* write_chunk_locked, for inode i with the contents r that the caller holds.
ChunkSteps(dk, i, r, o, cells) ==
    IF o \div CellsPerBlock < BlocksFor(r.size)
    THEN OverwriteSteps(dk, i, r, o, cells)
    ELSE ExtendSteps(dk, i, r, o, cells)

AppendUncounted(dk, d, cell) ==
    LET r == dk.inode[d]
        unused == {o \in 0 .. r.size - 1 : CellAt(dk, r, o) = Zero}
        o == IF unused # {} THEN FirstOf(unused) ELSE r.size
        counted == IF cell.type = "directory"
                   THEN [r EXCEPT !.link_count = r.link_count + 1] ELSE r
    IN  ChunkSteps(dk, d, counted, o, <<cell>>)

\* directory_append_locked: the first unused entry, or a new one at the end.
\* The link count goes out with the inode when the directory grows, and in a
\* write of its own, after the entry, when it does not.
AppendSteps(dk, d, cell) ==
    LET r == dk.inode[d]
        unused == {o \in 0 .. r.size - 1 : CellAt(dk, r, o) = Zero}
        o == IF unused # {} THEN FirstOf(unused) ELSE r.size
        isDirectory == cell.type = "directory"
        counted == IF isDirectory
                   THEN [r EXCEPT !.link_count = r.link_count + 1] ELSE r
        b == Pointer(dk, r, o \div CellsPerBlock)
    IN  ChunkSteps(dk, d, counted, o, <<cell>>)
        \o When(unused # {} /\ isDirectory,
                <<Step(PutInode(d, counted), <<PutBlock(b, dk.content[b])>>)>>)

\* rollback_created_inode.
RollbackInode(i) == <<PutInode(i, NoInode), SetInodeBit(i, FALSE)>>

CreateEntryFirst(dk, d, n) ==
    LET i == FirstOf(FreeInodes(dk))
    IN  <<Step(SetInodeBit(i, TRUE), <<>>)>>
        \o WithUndo(AppendSteps(dk, d, EntryCell(n, i, "regular")), RollbackInode(i))
        \o <<Step(PutInode(i, NewInode), RollbackInode(i))>>

CreateSteps(dk, d, n) ==
    LET i == FirstOf(FreeInodes(dk))
    IN  <<Step(SetInodeBit(i, TRUE), <<>>),
          Step(PutInode(i, NewInode), RollbackInode(i))>>
        \o WithUndo(AppendSteps(dk, d, EntryCell(n, i, "regular")), RollbackInode(i))

MkdirSteps(dk, d, n) ==
    LET i == FirstOf(FreeInodes(dk))
        b == FirstOf(FreeBlocks(dk.bmap))
        taken == [dk EXCEPT !.bmap = @ \cup {b}]
        freeInode == <<SetInodeBit(i, FALSE)>>
        undo == <<SetBlockBit(b, FALSE)>> \o RollbackInode(i)
    IN  <<Step(SetInodeBit(i, TRUE), <<>>)>>
        \o IF FreeBlocks(dk.bmap) = {}
           THEN <<Step(NoSpace, freeInode)>>
           ELSE WithUndo(AllocateBlock(b), freeInode)
                \o <<Step(PutBlock(b, DotCells(i, d)), undo),
                     Step(PutInode(i, [NewInode EXCEPT !.mode = "directory",
                                         !.link_count = 2, !.size = 2,
                                         !.direct[1] = b]), undo)>>
                \o WithUndo(AppendSteps(taken, d, EntryCell(n, i, "directory")), undo)

\* release_inode_locked: nothing is rolled back.
ReleaseSteps(dk, i) ==
    LET r == dk.inode[i]
    IN  [k \in 1 .. BlocksFor(r.size) |->
            Step(SetBlockBit(FileBlocks(dk, r)[k], FALSE), <<>>)]
        \o When(r.indirect # NoBlock, <<Step(SetBlockBit(r.indirect, FALSE), <<>>)>>)
        \o <<Step(PutInode(i, NoInode), <<>>), Step(SetInodeBit(i, FALSE), <<>>)>>

\* unlink_locked of the entry at offset o of directory d: the entry, the link
\* count of the directory, and only then what the entry referred to.
UnlinkSteps(dk, d, o) ==
    LET r == dk.inode[d]
        b == Pointer(dk, r, o \div CellsPerBlock)
        i == CellAt(dk, r, o).inode
    IN  <<Step(PutBlock(b, WithCells(dk.content[b], o, <<Zero>>)), <<>>)>>
        \o When(dk.inode[i].mode = "directory",
                <<Step(PutInode(d, [r EXCEPT !.link_count = @ - 1]),
                       <<PutBlock(b, dk.content[b])>>)>>)
        \o ReleaseSteps(dk, i)

TruncateFreeingFirst(dk, i) ==
    LET r == dk.inode[i]
    IN  [k \in 1 .. BlocksFor(r.size) |->
            Step(SetBlockBit(FileBlocks(dk, r)[k], FALSE), <<>>)]
        \o When(r.indirect # NoBlock, <<Step(SetBlockBit(r.indirect, FALSE), <<>>)>>)
        \o <<Step(PutInode(i, [r EXCEPT !.size = 0, !.direct = NoPointers,
                                        !.indirect = NoBlock]), <<>>)>>

\* truncate_locked to size 0, the only size vfs.c asks for.
TruncateSteps(dk, i) ==
    LET r == dk.inode[i]
    IN  <<Step(PutInode(i, [r EXCEPT !.size = 0, !.direct = NoPointers,
                                     !.indirect = NoBlock]), <<>>)>>
        \o [k \in 1 .. BlocksFor(r.size) |->
               Step(SetBlockBit(FileBlocks(dk, r)[k], FALSE), <<>>)]
        \o When(r.indirect # NoBlock, <<Step(SetBlockBit(r.indirect, FALSE), <<>>)>>)

-----------------------------------------------------------------------------
\* Steps.

NoView == [links |-> {}, files |-> <<>>]     \* no operation in progress

\* The plan goes on with steps.
GoOn(steps) ==
    /\ plan' = steps
    /\ before' = IF steps = <<>> THEN NoView ELSE before
    /\ after' = IF steps = <<>> THEN NoView ELSE after

WillFail(steps) == \E k \in DOMAIN steps : steps[k].write = NoSpace

\* An operation starts: all it will write is determined.
Begin(steps) ==
    /\ plan = <<>>
    /\ plan' = steps
    /\ before' = View(disk)
    /\ after' = IF WillFail(steps)
                THEN View(disk)
                ELSE View(FoldLeft(LAMBDA dk, s : Applied(dk, s.write), disk, steps))
    /\ UNCHANGED <<disk, rolling, faults, misled>>

\* The directories that a path leads to and whose entries can be read.
OpenDirectories == {d \in ReachedDirectories(disk) :
                      Readable(disk, d) /\ Mapped(disk, disk.inode[d])}

OpenFiles == {i \in ReachedFiles(disk) :
                Readable(disk, i) /\ Mapped(disk, disk.inode[i])}

Create == \E d \in OpenDirectories, n \in Names :
            /\ Found(disk, d, n) = {} /\ FreeInodes(disk) # {}
            /\ disk.inode[d].size < MaxSize
            /\ Begin(CreateSteps(disk, d, n))

Mkdir == \E d \in OpenDirectories, n \in Names :
           /\ Found(disk, d, n) = {} /\ FreeInodes(disk) # {}
           /\ disk.inode[d].size < MaxSize
           /\ Begin(MkdirSteps(disk, d, n))

Unlink == \E d \in OpenDirectories, n \in Names : \E o \in Found(disk, d, n) :
            LET i == CellAt(disk, disk.inode[d], o).inode
            IN  /\ i # Root /\ Readable(disk, i)
                /\ disk.inode[i].mode = "directory" =>
                     Mapped(disk, disk.inode[i]) /\ IsEmpty(disk, i)
                /\ Begin(UnlinkSteps(disk, d, o))

\* One round of minifs_write, which stays within a block; a longer write is
\* several of them.
Write == \E i \in OpenFiles, v \in Values : \E o \in 0 .. disk.inode[i].size :
           \E n \in 1 .. CellsPerBlock - (o % CellsPerBlock) :
             /\ o + n <= SizeBound
             /\ Begin(ChunkSteps(disk, i, disk.inode[i], o, [k \in 1 .. n |-> DataCell(v)]))

Truncate == \E i \in OpenFiles :
              /\ disk.inode[i].size > 0
              /\ Begin(TruncateSteps(disk, i))

\* The next write of the plan succeeds.
WriteDone ==
    /\ plan # <<>> /\ Head(plan).write # NoSpace
    /\ disk' = Applied(disk, Head(plan).write)
    /\ GoOn(Tail(plan))
    /\ rolling' = (rolling /\ Tail(plan) # <<>>)
    /\ UNCHANGED <<faults, misled>>

\* The rest of the operation is replaced by its rollback, which goes on
\* whatever happens to its own writes.
RollBack == /\ GoOn(IF rolling THEN Tail(plan)
                    ELSE [k \in DOMAIN Head(plan).undo |->
                            Step(Head(plan).undo[k], <<>>)])
            /\ rolling' = (plan' # <<>>)

OutOfSpace ==
    /\ plan # <<>> /\ Head(plan).write = NoSpace
    /\ RollBack
    /\ UNCHANGED <<disk, faults, misled>>

Fault == faults < FaultBound /\ faults' = faults + 1

\* A poll of ata_write_sectors times out.  The drive may have taken none, some
\* or all of the sectors; it goes on with the next request, so the rollback
\* can write.
WriteFailed ==
    /\ plan # <<>> /\ Head(plan).write # NoSpace /\ Fault
    /\ disk' \in Partly(disk, Head(plan).write)
    /\ RollBack
    /\ misled' = (misled \/ (~rolling /\ rolling' /\ disk' # disk /\ View(disk') # View(disk)))

\* The drive reports an error: its error bit stays set, so ata_wait refuses
\* every request after this one, those of the rollback included, until the
\* machine is restarted.  Or the power goes, during a write or between two.
\* Then minifs_mount takes the disk as it is.
Outage ==
    /\ plan # <<>> /\ Fault
    /\ disk' \in Partly(disk, Head(plan).write)
    /\ GoOn(<<>>) /\ rolling' = FALSE
    /\ UNCHANGED misled

\* The volume that mkfs makes, once everything in it has been unlinked: the
\* root directory keeps an unused entry where /bin was.
Init ==
    /\ disk = [imap |-> {Root}, bmap |-> {1},
               inode |-> [i \in Inodes |->
                   IF i = Root
                   THEN [NewInode EXCEPT !.mode = "directory", !.link_count = 2,
                                         !.size = 3, !.direct[1] = 1]
                   ELSE NoInode],
               content |-> [b \in Blocks |-> IF b = 1 THEN DotCells(Root, Root)
                                                      ELSE ZeroBlock]]
    /\ plan = <<>> /\ rolling = FALSE /\ faults = 0
    /\ before = NoView /\ after = NoView /\ misled = FALSE

Next == \/ Create \/ Mkdir \/ Unlink \/ Write \/ Truncate
        \/ WriteDone \/ OutOfSpace \/ WriteFailed \/ Outage

Spec == Init /\ [][Next]_vars

-----------------------------------------------------------------------------
\* Properties.

Cells == {Zero} \cup {DataCell(v) : v \in Values} \cup [kind : {"pointer"}, block : Blocks]
         \cup [kind : {"entry"}, name : Names \cup {Dot, DotDot}, inode : Inodes,
               type : {"regular", "directory"}]

InodeRecords == [mode : {"none", "regular", "directory"}, link_count : Nat,
                 size : 0 .. MaxSize,
                 direct : [1 .. DirectCount -> Blocks \cup {NoBlock}],
                 indirect : Blocks \cup {NoBlock}]

TypeOK ==
    /\ disk.imap \subseteq Inodes /\ disk.bmap \subseteq Blocks
    /\ disk.inode \in [Inodes -> InodeRecords]
    /\ \A b \in Blocks : disk.content[b] \in [1 .. CellsPerBlock -> Cells]
    /\ rolling => plan # <<>>
    /\ faults \in 0 .. FaultBound /\ misled \in BOOLEAN

\* After every single write, and so after a power loss at any point or a
\* failed write and its rollback, each entry that a path leads to refers to
\* an inode that is allocated, readable and of the kind the entry says, and
\* no inode has two names.  One fault is excepted: when the write that makes
\* an operation visible is on the disk and its poll times out all the same,
\* create, mkdir and write roll back what the disk already refers to.
NamesResolve ==
    LET reached == Reached(disk)
        names == UNION {{<<d, o>> : o \in {q \in EntryOffsets(disk, d) :
                              CellAt(disk, disk.inode[d], q).name \in Names}} :
                          d \in {i \in reached : disk.inode[i].mode = "directory"}}
        cell(l) == CellAt(disk, disk.inode[l[1]], l[2])
    IN  ~misled =>
            /\ \A i \in reached : Readable(disk, i)
            /\ \A l \in names : disk.inode[cell(l).inode].mode = cell(l).type
            /\ \A l, m \in names : cell(l).inode = cell(m).inode => l = m

\* The blocks of the inodes that a path leads to are allocated and belong to
\* one file only, whatever has failed, a rollback of what is on the disk
\* excepted: the order of the writes may lose a block, but never lets a block
\* be handed out while a file still uses it.
OwnBlocks(i) ==
    LET r == disk.inode[i]
    IN  Range(FileBlocks(disk, r)) \cup ({r.indirect} \ {NoBlock})

BlocksOwned ==
    LET reached == Reached(disk)
    IN  ~misled =>
        /\ \A i \in reached :
             /\ Mapped(disk, disk.inode[i])
             /\ Cardinality(OwnBlocks(i)) =
                  BlocksFor(disk.inode[i].size) + IF disk.inode[i].indirect = NoBlock THEN 0 ELSE 1
        /\ \A i, j \in reached : i # j => OwnBlocks(i) \cap OwnBlocks(j) = {}

\* The pieces of files that v shows are those of u or those of w, file by
\* file and cell by cell, and names and sizes are those of u.
Overwritten(v, u, w) ==
    /\ v.links = u.links /\ DOMAIN v.files = DOMAIN u.files
    /\ \A i \in DOMAIN v.files :
         /\ DOMAIN v.files[i] = DOMAIN u.files[i]
         /\ \A o \in DOMAIN v.files[i] :
              \/ v.files[i][o] = u.files[i][o]
              \/ /\ i \in DOMAIN w.files /\ o \in DOMAIN w.files[i]
                 /\ v.files[i][o] = w.files[i][o]

\* Names and sizes change in one write: at every point they are those before
\* the operation or those after it, and a failed write or a power loss leaves
\* nothing in between, unless it makes the rollback undo what is visible.  Only
\* a write over data that a file has may be cut between two sectors; each
\* cell then holds the old or the new data.
CommitsAtomically ==
    [][plan # <<>> /\ ~misled' =>
         LET shown == View(disk')
         IN  shown \in {before, after} \/ Overwritten(shown, before, after)]_vars

\* As long as nothing fails, the volume between two operations is what
\* tools/fsck.py accepts: just the blocks and inodes in use are allocated,
\* and the link counts are right.  Running out of space is no failure: its
\* rollback gives everything back.
FsckClean ==
    (plan = <<>> /\ faults = 0) =>
        /\ disk.imap = Reached(disk)
        /\ disk.bmap = UNION {OwnBlocks(i) : i \in Reached(disk)}
        /\ \A i \in ReachedFiles(disk) : disk.inode[i].link_count = 1
        /\ \A i \in ReachedDirectories(disk) :
             disk.inode[i].link_count = 2 +
                Cardinality({j \in Children(disk, i) : disk.inode[j].mode = "directory"})
=============================================================================
