# A TLA+ model of MiniOrangeOS

MiniOrangeOS is a 32-bit x86 teaching operating system for one CPU: a BIOS boot
loader, a preemptive kernel in the higher half, a small file system on an ATA
disk, a shell, a line editor and a few more programs. This directory holds TLA+
modules that model the components of the kernel and these two programs, TLC
configurations that check them on small instances, and proofs that the TLA+ proof
system (TLAPS) checks. `PROJECT.json` lists components, runs, hazards, findings
and theorems, and maps each definition to the lines it models.

## The system and its concurrency

`int 0x80` is an interrupt gate, so a system call runs with interrupts off from
its entry to its `iret`. It is interleaved with other processes only where it
gives up the CPU itself: in `yield`, `sleep`, `waitpid` and `exit`, and, for the
keyboard, in the `sti; hlt; cli` loop of `syscall_read`. User code can be
preempted by the timer at any instruction. The models take one step per stretch
of kernel code between two such points. It follows that the `busy` flags of
VFS, MiniFS, the block layer and ATA are never found set by another process.

The disk adds a second kind of step: the power may go, and a transfer may fail,
between any two sector writes, and the drive itself goes on while the driver
polls it. Memory adds a third: each allocation of a call may
be the one that fails.

A program that the shell starts is waited for, so the shell and the editor have
the screen, the keyboard and their files for themselves: they are sequential
programs, and their models are about keys, commands and calls in every order.

## Inventory

| Part | Source | Modelled by |
|---|---|---|
| process scheduler, timer | `kernel/proc/scheduler.c`, `drivers/pit.c`, `arch/x86/irq.c` | `Scheduler` |
| boot thread, start of the shell | `kernel/core/kernel.c` | `Scheduler` (variable `phase`) |
| open files, descriptor tables | `kernel/fs/vfs.c` | `Vfs`, `OpenFiles` |
| file system on disk | `kernel/fs/minifs.c` | `MiniFS` |
| block layer, ATA | `kernel/block/block.c`, `drivers/ata.c` | `Ata`; `MiniFS` (what a failed write leaves) |
| memory map, placing the kernel, page allocator | `boot/stage2/entry.asm`, `kernel/mm/pmm.c` | `PhysicalMemory` |
| paging, address spaces | `kernel/mm/vmm.c`, `address_space.c` | `Memory` |
| kernel heap | `kernel/mm/heap.c` | `Heap` (blocks), `Memory` (pages) |
| program loading | `kernel/proc/elf.c`, `scheduler_spawn_image` | `ElfImage` (contents), `Memory` (frames) |
| system calls | `kernel/core/syscall.c` | the module each call enters |
| keyboard, blocking read | `kernel/drivers/keyboard.c` | `Keyboard`, `KeyQueue` |
| path names, working directory | `kernel/core/syscall.c` | `Paths` |
| user pointers | `kernel/mm/usercopy.c` | `UserMemory`, `UserLayout` |
| text screen | `kernel/drivers/vga.c`, `core/console.c` | `Terminal` |
| shell | `user/programs/sh.c` | `Shell`, `CommandLine` |
| line editor | `user/programs/edit.c`, `libc/io.c` | `Edit`, `EditLines` |
| other programs, libc, serial port, `kprintf` | `user/`, `kernel/core`, `drivers/serial.c` | not modelled, see below |
| rest of the boot loader, descriptor tables, assembly entry paths | `boot/`, `kernel/arch/x86` | not modelled, see below |
| host tools, build scripts | `tools/`, `environment/` | not modelled; `fsck.py`'s rules are the reference of `FsckClean`, `mkfs.py` gives MiniFS its initial state |

## Modules

Each component module has its `CONSTANTS` with their assumptions, one action per
operation, and its properties at the end. A definition whose name says what is
wrong with it (`DueUnsigned`, `FitsUnchecked`, ...) is a deliberately faulty variant
of the definition behind it: the property it belongs to must not survive the
exchange.

### Scheduler

State: the fields of `struct process` as functions on the slots of the table,
`current`, `next_pid` (0 after the PIDs have been used up once), `tick` (a
`uint32_t`, so an element of `0 .. TickModulus - 1`), and `wait_pid`, the argument
that the stack frame of a blocked `waitpid` keeps. `phase` is how far the boot
thread has come. `orphan` is a history variable.

Actions: `KernelThreadCreate`, `UserProcessCreate`, `Spawn`, `Yield`, `Sleep`,
`Exit`, `UserPageFault`, `Waitpid` (one turn of its loop, new or resumed), `Tick`
(IRQ 0 with wake-ups, the time slice and the switch), and the boot thread's
`BootReap`, `ThreadTestsDone`, `StartShell`.

Memory is abstract here: a spawn gets what it needs and a reap succeeds. `Memory`
is about when they do not, so "no panic" of `Scheduler` is about scheduling only.

### Vfs and OpenFiles

State: the file table, the descriptor tables, and what MiniFS looks like to
`vfs.c`: mode and size of each inode and the entries of each directory, holes
included. Every system call on files is an action with its error paths. An I/O
error is a choice where it leaves a trace: a create or mkdir whose rollback fails
keeps its inode, with a record or without one (`lost`), and its entry may be on the
disk although the write of it was reported as failed; an unlink loses its inode; an
open with `O_TRUNC` cuts the file and opens nothing; a write stores more than it
reports. `OpenFiles` says what descriptors promise, without file table and
directories; `Vfs` implements it (`DescriptorsIndependent`).

Some of these traces damage the volume: a rollback gives back an inode or a block
that the disk refers to. From then on (`damaged`, a history variable) a block may
belong to two files, and the code reads as a directory what was written to a file.
The model then no longer follows entries: a path leads to any inode with a valid
record, or to none. `FilesOwned`, `OpenInodesLive` and `DescriptorsIndependent` hold
on a damaged volume too; `TreeShape` and `EntriesStayPut` are about one that is not
damaged, apart from the root, which stays a directory.

### MiniFS

State: bitmaps, inodes and blocks on the disk, and `plan`, the writes the running
operation has still to do, each with the writes that undo the operation if it
fails. One step carries out one write. `before` and `after` are history variables:
what the volume shows a reader before and after the operation.

A write is cut off in two ways, after none, some or all of its sectors (`Partly`).
`WriteFailed`: a poll of the driver times out, and the rollback can write. (The drive
takes or refuses the requests that follow; what it may do with a command that comes
too early is in `Ata`.) `Outage`: the power goes, or the drive reports an error, after
which the driver refuses every further request (see the findings) and the rollback
cannot write. Bits, inodes and entries lie within a sector; file data may be torn
inside a block, and `CommitsAtomically` then asks that names and sizes are the old
ones and each cell holds old or new data.

One case goes wrong in the code. The write that makes a create, a mkdir or an
extending write visible reaches the disk, the last poll times out, and the
rollback frees the inode or the block that the disk now refers to. `misled` is a
history variable that records it, and `NamesResolve`, `BlocksOwned` and
`CommitsAtomically` except it; without the exception TLC finds the first two violated
within seconds. The documentation promises best effort for a single failure and no
atomicity (`docs/PROJECT.md`, lines 213 and 232), so this is a limit and not a
finding. The run follows a volume up to that point and no further (`Followed` of
`MCMiniFS`).

The instance has one fault per behaviour. With two, `BlocksOwned` fails also without
a timeout: a rollback that fails leaves a name on a freed inode. Of this the
documentation says nothing.
A power loss between the removal of a directory's entry and the update of its
parent leaves the parent's link count one too high; that harms neither names nor
blocks, and `FsckClean`, which counts links, is about volumes without a fault.

### Ata

State: the request in progress with the caller's buffer, the drive's status bits
and its command, what each sector holds, and which sectors are in the drive's
cache only. Actions of the driver: `Request` (`block_read`, `block_write`),
`Select`, `TransferSector`, `Written`, `Flushed`, each a poll loop of `ata_wait` with
what follows it. A poll that does not find what it waits for may always time out.
The drive is external: it transfers, stores, flushes and fails. A command that
arrives while it still has data of an earlier one to transfer may be ignored;
`taken` remembers that, and `RequestsExact` promises nothing for such a request.

### PhysicalMemory

State: the memory map as collected, the segments loaded so far with the bounds
stage 2 keeps, and from `pmm_init` on the two bitmaps (sets of pages) and the three
counters. `out` is the set of pages callers hold. The BIOS answers with any entry of
`Answers` (`E820Call`), the kernel has any segments (`LoadSegment`); after
`ProgramDone` and `PmmInit` there are `PmmAlloc` and `PmmFree`, the latter with every
address. The properties speak of bytes, the code of pages and of 32-bit halves of
addresses. Everything that stops the machine leads to `halted`, so deadlock is not an
error here. That a segment's headers agree and that its sectors can be read is one
choice (`sound`).

### Memory

State: which pages are handed out, the contents of the pages that are page
directories and tables, `cr3`, the size of the heap, and the processes with their
directories. The address space is cut down to a few regions (page-directory
entries) of `RegionPages` pages: user regions, heap, load window, and the window
through which other address spaces are edited.

The operations are functions from memory to memory, composed in the order of the
code's calls; `Window` is the pattern "map, use, unmap" that almost all of them
share, `OrUndo` the rollback behind a failure. The actions are `Spawn`, `Switch`,
`Exit` and `Reap`. A panic stops the machine, so deadlock is not an error there.

### Heap

State: what every address holds when it is read as a block header, and the number
of pages. Headers keep both links and a magic mark; `Valid` is `validate_block`,
and every operation applies it where the code does. Whether pages can be had is
`Memory`'s business.

### Paths, UserMemory, ElfImage

What the kernel makes of the arguments of a system call. `Paths` has one process
that spells names and changes its directory; `NormalizePath` and its helpers are
the code's, over a buffer of `PathMax` characters. `UserMemory` calls the three
copies with every pointer and every length over every layout of pages; addresses
are words modulo `AddressModulus`. `ElfImage` loads an image with any sequence of
program headers, one header per step, into pages with contents; frames may run out
in every segment, for a page (`NoMemory`) or for the page table of the window through
which pages are filled (`CopyFails`).

### Shell, CommandLine and Terminal

`Terminal` is the screen as `vga_write_char` leaves it: cells, cursor, and the
automaton for escape sequences, which survives the program that wrote them: one
that stops inside a sequence swallows the start of the next prompt, and the
outputs of the instance do not. `CommandLine` is `parse_line` with its two cursors
in one array. `Shell` has an action for each key. What a command does is a
choice (`Effects`): some output, a new working directory, a cleared screen.
`typed` is a history variable.

### Edit

State: the text, the last command, the `dirty` flag, and the file. Loading, the
commands `a`, `i`, `r`, `d`, `w`, `q`, `q!` and the end of the input are actions.
`replace_range` moves the tail byte by byte, as the code does. A save fails when
the file is opened, after any number of bytes, or when it is closed. `changed` and
`failed` are history variables. A `w` of an unchanged text that fails leaves `dirty`
false, so a `q` after it gives no further warning; `QuitKeepsChanges` allows that,
because the failure was reported, and asks that the file then holds a first part of
the text. What the commands are to do with the lines of the
text is in `EditLines`, a reference definition that only TLC evaluates.

### Keyboard and KeyQueue

State: the keys that are down, the bytes on the line, the handler's flags, the
ring, and where each process is in the read loop. A byte carries the meaning the
person gives it, computed from the keys that are down when it is sent: the decoder
never sees it, and `TypedAsMeant` compares. Pause, fake shifts around navigation
keys and bytes of the mouse are sent too. `KeyQueue` is what the ring promises.

`irq_enable` is a function, so its `sti` is followed by a `ret`, and a key can
arrive between the test of the ring and the `hlt`. The process then halts with a
character waiting, until the next timer interrupt.

## What TLC checks

| Run | Instance | States | Shows |
|---|---|---|---|
| `sched_wait` | 4 slots, 4 PIDs, slices of 1 tick | 1,216,168 | no panic by `exit` or `waitpid`, unique PIDs, no lost or spurious wake-up of `waitpid`, zombies are kept for their parent |
| `sched_time` | 3 slots, slices of 2, sleeps up to 2, tick modulo 6 | 82,464 | wake-up exactly at the deadline across the wrap of the counter; every READY process runs, every sleep ends, every `waitpid` with an exited child returns |
| `sched_pid_reuse` | as `sched_wait` | violation | see findings |
| `vfs` | 2 processes, 3 files, 2 descriptors each, 2 inodes; or 1 process, 4 inodes, 2 names, 2 entries; or 1 descriptor each and volumes that get damaged | 78,403 | file objects are neither lost nor shared, open inodes are not freed, `Vfs` implements `OpenFiles`; names form a tree and no entry moves under a `readdir`, until the volume is damaged |
| `minifs_faults` | 3 inodes, 4 blocks, 1 direct pointer, 2 values, 1 fault | 168,184 | names resolve, blocks have one owner, names and sizes change all or nothing, unless a rollback takes back what is visible; without a fault the volume is what fsck accepts |
| `memory_owners` | 11 or 16 pages, 3 processes, 5 programs | 10,657 | every page has one owner and every owner its page, and no check of the kernel fails, whichever allocation fails |
| `memory_exhausted` | 11 pages | violation | see findings |
| `memory_heap_growth` | regions of 2 pages | violation | see findings |
| `resources` | memory: 6 pages of 4 bytes, 2 entries, 2 segments; heap: 3 pages of 14 units, 10 request sizes; disk: 5 sectors, 4 of them addressable, blocks of 2, 2 requests | 198,228 | the kernel is loaded into usable memory, its Boot Info is accepted, pages handed out are usable and free of kernel bytes, the statistics add up; the block list stays valid, covers the heap, has no free neighbours, and allocated blocks stay where they are; block requests do what their results say, and a successful write survives a power loss |
| `disk_error` | the disk of `resources` | violation | see findings |
| `programs` | screen of 3 by 3, lines of 3 characters, 7 keys or 9 around the history; command lines of up to 6 characters; a text of 4 bytes; paths of up to 5 characters; 4 pages of 3 bytes; 2 program headers | 422,578 | the screen shows the line being edited; the line begun before comes back from the history; words are those that were quoted; the editor changes the lines it is told to and never quits over unsaved changes; paths resolve; copies are exact; programs are loaded as described |
| `keyboard` | 6 keys, 3 held, with every modifier; or prefixed keys with Pause; or 2 keys and 2 readers; ring of 3 | 131,566 | characters are those meant, the ring is a queue, a waiting reader is served |

Three of the runs ask about several components that do not interact: a variable
chosen in the initial state says which of them takes the steps (`resources`,
`programs`), or which of three instances it is (`vfs`). The type invariants (`TypeOK`)
are in the modules; those of `Scheduler`, `Keyboard`, `PhysicalMemory` and `Vfs` are
proved, and the inductive invariants of `Ata`, `Heap`, `Edit` and `ElfImage`, also
proved, include the types. TLC has checked each inductive invariant on the instance
of its run before it was proved; of `InStep` of the keyboard it has checked what
follows for an empty line (`ModifiersInStep`), because the run of the decoder that
`InStep` asks for is too large a set to search.

Bounds. Each is the smallest at which the hard cases happen. Four slots allow a
boot thread, a parent, and two children, and four PIDs let the counter wrap. Two
processes with two descriptors each over three file objects fill each table
before the other; a third instance of `vfs` has damaged volumes and inodes without a
record, which the other two leave aside because any path may lead anywhere in a
damaged volume. One direct pointer and four blocks make a file need its
indirect block and the volume run full inside every operation. Eleven pages are
too few for one process at every allocation of a spawn, sixteen enough for two
processes and too few for the third. The ten request sizes of the heap split with and without a
rest, fill blocks exactly, grow by one page and by two, and need the page more
that a header costs. A ring of three wraps and runs full. Pages of four
bytes let entries and segments begin and end inside pages, two entries touch and
overlap, and words of five bits leave a quarter of the addresses above "4 GiB".
A screen of nine cells wraps and scrolls within one line and its prompt, and three
characters are enough to insert, delete and move in the middle. Pages of three
bytes let a range of any alignment cross none, one or two page boundaries, and the
twelve addresses wrap. The names of the programs complete to a word, to a common
prefix, and to a list.

Fairness. `sched_time` assumes of the timer that it is delivered whenever
interrupts are enabled again and again (an IRQ that arrives while they are off
stays latched in the PIC), and of a resumed `waitpid` that it goes on, which
nothing can prevent because interrupts are off. Nothing is assumed of programs.
`keyboard` assumes that the timer goes on, that each process gets the CPU again
and again (`ReadyRuns` of `Scheduler`), and that its slice is longer than the few
instructions of the loop. Nothing is assumed of the person.

## Findings

- `sched_pid_reuse`. `waitpid` is documented to wait for direct children. A
  process that exits leaves its children with its PID as `parent_pid`; once
  `next_pid` has wrapped, a new process with that PID reaps them.
- `memory_exhausted`. Only broken kernel invariants are documented to panic.
  Activating or destroying an address space needs a page for the window's page
  table. When the heap has taken the last page, the next context switch or
  `waitpid` panics.
- `disk_error`. MiniFS is documented to roll back when a single I/O fails. A drive
  keeps its error bit until the next command, and the driver looks at it before
  it issues one. After one error every request is refused, the writes of the
  rollback included, until the machine is started again.
- `memory_heap_growth`. `vmm_map` enters a new kernel page table in the current
  directory only. When the heap grows over a 4 MiB boundary during a system call
  of a process, the next switch refreshes the kernel entries from the boot
  directory, which does not have it, and the blocks behind the boundary are
  unmapped.

## What TLAPS proves

All of it is checked by `tlapm` down to the leaves. The component modules hold the
inductive invariants, next to the properties they imply (that of `PhysicalMemory`
is with its proof); the modules below hold the proofs. Each of these starts with the few
facts about residues, quotients and least elements that it needs; they are stated
where they are used because `tlapm` carries whatever a module extends into every
obligation. Every theorem is for all values of the constants under the assumptions
in the component's module, so the limits of the instances (`HeldLimit`, `Backlog`,
`RequestLimit`, sets of inputs) do not bound it.

| Module | Theorem | States |
|---|---|---|
| `SchedulerProofs` | `PanicFreedom`, `UniquePids`, `NoLostWakeup`, `NoSpuriousWakeup`, `OrphanIsolation` | `NoPanic`, `PidsUnique`, `WaiterHasLiveChild`, `WokenWaiterFindsZombie`, `OrphansStayOrphans` |
| | `StatusDeliveredOnce`, `SleepEndsOnTime` | the action properties `ZombieKept`, `WakesAtDeadline` |
| | `TypeCorrectness`, `OneRunner`, `TimelySleep` | types, one RUNNING process, no overdue sleeper |
| `KeyboardProofs` | `RingIsQueue` | `ImplementsQueue`: the ring implements `KeyQueue` |
| | `KeysAsMeant`, `FlagsInStep` | the action property `TypedAsMeant`; no flag sticks |
| | `KeyboardTypes` | types |
| `PhysicalMemoryProofs` | `LoaderRespectsTheMap`, `HandOver`, `OnlyUsableMemory`, `Accounting` | `ImageInUsableMemory`, `BootInfoAccepted`, `HandedOutIsUsable`, `StatsAddUp` |
| | `PmmTypes` | types |
| `VfsProofs` | `FilesStayOwned`, `OpenInodesStay`, `NamesStayTree` | `FilesOwned`, `OpenInodesLive`, `TreeShape` |
| | `EntriesNeverMove` | the action property `EntriesStayPut` |
| | `DescriptorsKeepPromise` | `DescriptorsIndependent`: `Vfs` implements `OpenFiles` |
| | `VfsTypes` | types |
| `HeapLists`, `HeapProofs` | `HeapNeverPanics`, `HeapStaysTiled` | `NoHeapPanic`, `Tiled` |
| | `AllocationsKept` | the action property `AllocationsStay` |
| `AtaProofs` | `RequestsAreExact` | `RequestsExact` |
| `ProgramProofs` | `QuitIsSafe`, `CopiesAreExact`, `ImageAsDescribed` | `QuitKeepsChanges`, `CopiesExact`, `LoadedAsDescribed` |

**`SchedulerProofs`**, for every `ProcessLimit >= 2`, `PidMaximum >= ProcessLimit`,
positive time slice, and every tick counter whose modulus is twice the number of
sleep times (`2^32` and `2^31` in the code). No invariant of the table is inductive
on its own. `Inv` of `Scheduler` is: it adds that slot 0 is the boot thread, which
never sleeps and waits only while it tests kernel threads (`BootThread`), that
besides it only user processes block and that there are none of them during those
tests (`OnlyUsersBlock`), how a process's state fits the call it is in
(`CallStates`), and that `next_pid` has passed every PID in the table until it wraps
(`PidsAllocated`).

- No panic: an `exit` switches to the boot thread at worst. If that is blocked, it
  waits for a live kernel thread; kernel threads do not block, so either this one
  can run or it is the one that exits, and its exit makes the boot thread READY.
- No lost wake-up: a process blocks in `waitpid` only after the search for a zombie
  has failed, with interrupts off, so the child it names is live; the child's exit
  is the only way to lose it, and that wakes the parent in the same step.
- Unique PIDs: the table has at most `ProcessLimit` PIDs in use and the counter
  tries `PidMaximum` of them, so the search of `allocate_pid` ends at a free one.
- Timely sleep: deadline and tick differ by at most half of the modulus, on which
  the signed comparison of the code is right (`ModDifference`, `ModSum`).
- The two action properties follow from what each step does to a slot that holds a
  zombie or a sleeper (`StepFates`): most steps keep it as it is (`KeptFates`), and a
  reap or a tick changes it only for the parent that waits or at the deadline.

The theorems speak of `Scheduler`, where allocations succeed; that `waitpid` can
panic for want of memory is a finding of `Memory`.

**`KeyboardProofs`**, for every size of the ring of at least 2, every set of keys,
any number of processes and any number of bytes on the line. For `RingIsQueue`,
pushing maps to `Accept`, a successful `keyboard_try_read` to `Deliver`, and every
other step leaves the queue alone. The argument is about places: the new character
goes to the one index that no queued character has (`PushAppends`), and advancing
`tail` renumbers the rest (`ReadTakesFirst`). `TypeOK` is inductive, and enough.

`KeysAsMeant` needs more. The decoder lags behind the keys by the bytes on the
line, so its flags say nothing about the keys that are down now. `InStep` says
what does hold: there is a run of the decoder over the bytes on the line that ends
in the flags of the keys now down, and in which each byte yields what was meant by
it. An interrupt takes the first step of that run (`DecodesFirst`). A key that is
pressed or released appends a piece to it (`DecodesBoth`): a plain scancode, a
prefixed one, a fake shift around it, or Pause, for each of which a lemma shows
where it leads the decoder (`PlainKeyDecodes`, `PrefixedKeyDecodes`, `FakeDecodes`,
`PauseDecodes`).

**`PhysicalMemoryProofs`**, for every memory map, every set of segments, and every
page size, number of pages and width of the addresses of the map with room above
4 GiB. `Inv` adds to the four invariants that every loaded
segment lies below `lastEnd` and between `kernelStart` and `kernelEnd`
(`KernelPlaced`), what each phase has established (`Progress`), and that
`allocatable` is what `pmm_init` computed from the map (`FromTheMap`). The arithmetic
is in two lemmas: a page that `range_to_pages` yields is inside its range with all
its bytes (`UsableRange`), and a page that `reserve_range` spares has no byte in it
(`ReservedRange`), also where the range is cut off at 4 GiB. With `KernelPlaced` the
second one keeps the kernel's bytes out of every page handed out.

**`VfsProofs`**, for every set of processes and names, and every number of
descriptors, file objects, inodes, and entries of a directory. `FilesOwned` and
`TreeShape` count; `Inv` says the same without counting, descriptor by descriptor
and entry by entry, which is what a step changes: two descriptors never share a
file object and each object in use has one (`DescriptorsOwn`), an entry leads from a directory
that has a name to an inode that is in use and is not the root (`NamesLead`), and
two entries never lead to one inode nor share directory and name (`NamesDiffer`). With
`OpenInodesLive` and the types that is inductive, also over the steps in which a
create, a mkdir or an unlink fails half way. What `Inv` says of names it says of an
undamaged volume; that no open inode is freed does not rest on names (`Busy` looks at
the file table), and so does not depend on it. `DescriptorsKeepPromise` maps a descriptor to what its file
object says; that a step on one descriptor is invisible through all others is
again `DescriptorsOwn`.

**`HeapLists`** and **`HeapProofs`**, for every alignment, every header and page size that are
multiples of it, pages that hold a header and the smallest block, and every limit
of the heap. `HeapInv` is about single headers: each ends where the next one begins
or at the end of the heap, the links agree (`WellFormed`), and no free block is
followed by a free one (`FreeApart`). That the list visits every header, and no
address without one, is not a part of it but a consequence, by a least
counterexample among the addresses (`WalkForward`, `WalkEnds`, `ListFacts`).
`split_block`, `merge_with_next` and the growth of the heap have one lemma each for
the fields they change and one for `WellFormed` (`HeapLists`), and one for the blocks
that are allocated (`HeapProofs`).

**`AtaProofs`**, for every size of disk, block and request, and a drive that may
transfer, store, flush or fail between any two steps of the driver. `AtaInv` keeps
driver and drive in step: of a read, the buffer is filled up to the sector that the
drive has next (`Reading`); of a write, the first `n` sectors of the request are on
the disk, and the drive has, or waits for, the one after them (`WritingUpTo`). The
difference between sectors sent and sectors stored is at most one, and none after
the wait at the end of a block; this is why the cache is known to hold nothing of the
request once the flush has ended.

**`ProgramProofs`**. `QuitIsSafe`: `changed` implies `dirty`, and while nothing has
changed the file holds the text, or a first part of it after a save that failed
(`EditInv`). `CopiesAreExact`,
for every page size that divides the kernel's base and the address space: a range
is accepted exactly when each of its bytes is in a page the program could access
(`PageRange`, `RangeIsOwn`), and the loop of `copy_user_string`, which looks at one
page per turn, stops at the first byte that ends the string or cannot be read (`TurnKeeps`,
`StringLoopResult`). `ImageAsDescribed`, for every set of headers: `ElfInv` says of
the headers done so far what `LoadedAsDescribed` says of all of them, page by page;
pages that two segments share are the hard case (`PageFilled`, `SegmentLoaded`).

### Only model-checked

- `ReadyRuns`, `SleeperWakes`, `WaiterReturns`, `WaitingReaderServed`: liveness under
  fairness is out of the prover's reach.
- `NamesResolve`, `BlocksOwned`, `FsckClean`, `CommitsAtomically` (`MiniFS`): what an
  operation is to leave is a fold over the writes of its plan, and what the volume
  shows a reader follows names to any depth. A fold takes an operator as its
  argument, and no prover here can instantiate the equations that define it.
- `InvariantsKept`, `PagesOwned` (`Memory`): the operations are folds over page
  tables and over the pages of an image.
- `PathsResolve` (`Paths`), `WordsAsQuoted` (`CommandLine`), `LinesFollowCommands`
  (`EditLines`): what a scan along a sequence computes, again a fold, compared with a
  reference definition over every bounded input.
- `ScreenShowsLine`, `DraftComesBack` (`Shell`): redrawing writes a sequence of
  characters through the screen's automaton, one by one.

## Not modelled

- Stage 1 and the rest of stage 2 (reading sectors through the BIOS, A20, the
  switch to protected mode), descriptor tables, PIC and PIT set-up, the IDENTIFY
  exchange of `ata_init`, the handshake of `keyboard_init`: sequences of port writes
  that run once, before any concurrency, and whose meaning is the hardware's.
- `context_switch.asm`, `entry.asm`, `user_mode.asm`: register saving. The models start
  from its effect: a switch resumes a process where it left off.
- The self-tests in the kernel and in the programs. What they call is modelled;
  the paths only they use (`vmm_unmap` of user pages, truncation to a size other
  than 0) are not.
- `kprintf`, the serial port, panic messages, power-off: output only.
- `cat`, `cp`, `write`, `ls`, `ps`, `init`, `string.c`: straight-line uses of system calls
  that `Vfs` and `Scheduler` have in every order.
- Access rights in page tables, so `vmm_address_space_protect` is in `ElfImage` only
  (a page becomes writable); the processor's checks are external.
- Mounting a damaged volume: the models start from one that `mkfs.py` makes. Of a
  volume that becomes damaged while it is in use, `Vfs` says what descriptors may
  count on, and `MiniFS` nothing.
- The host tools and build scripts: they run on another machine, on files.

## Plan

1. Composition: processes that spawn, open, wait and exit over `Scheduler`, `Vfs`
   and `Memory` together, and an abstract process lifecycle that `Scheduler`
   implements.
2. `Memory` without folds: the effect of mapping and of unmapping a range stated as
   one function of the page tables, from which `PagesOwned` could be proved.
