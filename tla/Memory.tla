------------------------------- MODULE Memory -------------------------------
(***************************************************************************)
(* Physical pages and who holds them: the page allocator (kernel/mm/pmm.c),*)
(* page tables (vmm.c), address spaces (address_space.c), the pages of the *)
(* heap (heap.c), and the creation, dispatch and reaping of processes,     *)
(* which draw on all of them (elf.c, scheduler.c).                         *)
(*                                                                         *)
(* The kernel reaches a page that is not mapped through windows at fixed   *)
(* addresses, and a window needs a page table, taken from the allocator in *)
(* the middle of the operation and given back at its end.  So operations   *)
(* that only look, or that only free, can fail for lack of memory too.     *)
(*                                                                         *)
(* All of this runs with interrupts disabled, so a system call is one step;*)
(* the operators below take a memory and return the memory they leave, in  *)
(* the order of the code's calls, and every early return is an IF.         *)
(*                                                                         *)
(* A virtual address is a page table slot <<region, slot>>, a region being *)
(* what one page directory entry covers.  Access rights are left out, and  *)
(* the heap counts pages: Heap has its blocks.                             *)
(***************************************************************************)
EXTENDS Integers, Sequences, FiniteSets, FiniteSetsExt, SequencesExt

CONSTANTS PageLimit,      \* the most allocatable physical pages
          Sizes,          \* bound of the instance: how many a machine may have
          RegionPages,    \* PAGE_ENTRY_COUNT, 1024 in the code
          UserRegions,    \* page directory entries below KERNEL_BASE
          HeapRegions,    \* HEAP_MAX_SIZE / (1024 pages), 4 in the code
          Processes,
          BootProcess,    \* the boot thread, which has no address space
          KernelStack,    \* KERNEL_STACK_SIZE in pages
          ImageLimit,     \* bound of the instance: pages of a program file
          Images          \* bound of the instance: what programs can be loaded

ASSUME MemoryAssumption ==
    /\ PageLimit \in Nat /\ Sizes \subseteq 2 .. PageLimit
    /\ RegionPages \in Nat /\ RegionPages >= 2
    /\ UserRegions \in Nat \ {0} /\ HeapRegions \in Nat \ {0}
    /\ BootProcess \in Processes
    /\ KernelStack \in Nat \ {0} /\ ImageLimit \in Nat \ {0}

Pages == 1 .. PageLimit

NoPage == 0

KernelDirectory == PageLimit + 1    \* boot_page_directory: not allocatable

Slots == 0 .. RegionPages - 1

UserRegion == {<<"user", k>> : k \in 1 .. UserRegions}

HeapRegion == {<<"heap", k>> : k \in 0 .. HeapRegions - 1}

\* The kernel's regions that every address space takes from the boot directory.
SharedRegions == HeapRegion \cup {<<"load", 0>>}

Regions == UserRegion \cup SharedRegions \cup {<<"window", 0>>}

DirectoryWindow == <<<<"window", 0>>, 0>>

TableWindow == <<<<"window", 0>>, 1>>

LoadWindow == <<<<"load", 0>>, 0>>

\* USER_STACK_VIRTUAL, the last page below KERNEL_BASE.
StackAddress == <<<<"user", UserRegions>>, RegionPages - 1>>

HeapAddress(k) == <<<<"heap", k \div RegionPages>>, k % RegionPages>>

NoTable == [s \in Slots |-> NoPage]

NoDirectory == [r \in Regions |-> NoPage]

VARIABLES
    mem,       \* total: how many pages there are; used: pages handed out;
               \* pde, pte: contents of pages that are directories or tables;
               \* cr3; heap: pages of the heap, allocated: how many of them are
               \* in use; panic: why the kernel has stopped
    state,     \* [Processes -> {"unused", "ready", "running", "zombie"}]
    directory, \* page_directory of each process
    current

vars == <<mem, state, directory, current>>

Panicked(m, why) == IF m.panic = "none" THEN [m EXCEPT !.panic = why] ELSE m

\* What an operation returns, and the memory after it.  It has succeeded when
\* the page is not NoPage; where it returns no page, Done stands for success.
Result(p, m) == [page |-> p, mem |-> m]

Done(m) == Result(1, m)

Failed(m) == Result(NoPage, m)

Ok(r) == r.page # NoPage

Then(r, Op(_)) == IF Ok(r) THEN Op(r.mem) ELSE r

OrUndo(r, Undo(_)) == IF Ok(r) THEN r ELSE Failed(Undo(r.mem))

-----------------------------------------------------------------------------
\* pmm.c

FreePages(m) == (1 .. m.total) \ m.used

\* pmm_alloc: the lowest free page, or NoPage.
PmmAlloc(m) ==
    IF FreePages(m) = {}
    THEN Failed(m)
    ELSE Result(Min(FreePages(m)), [m EXCEPT !.used = @ \cup {Min(FreePages(m))}])

\* pmm_free; every caller panics when it refuses.
PmmFree(m, p) ==
    IF p \in m.used THEN [m EXCEPT !.used = @ \ {p}] ELSE Panicked(m, "invalid page")

-----------------------------------------------------------------------------
\* vmm.c: the page directory in use.

\* The page table of region r in directory d, allocated when there is none.
TablePage(m, d, r) ==
    IF m.pde[d][r] = NoPage THEN PmmAlloc(m) ELSE Result(m.pde[d][r], m)

\* A new table is zeroed and entered in the directory.
Installed(m, d, r, t) ==
    IF m.pde[d][r] = NoPage
    THEN [m EXCEPT !.pde[d][r] = t, !.pte[t] = NoTable] ELSE m

\* An entry that is in use is not replaced.
SetEntry(m, t, s, p) ==
    IF m.pte[t][s] # NoPage THEN Failed(m) ELSE Result(p, [m EXCEPT !.pte[t][s] = p])

MapIn(got, v, p) ==
    IF ~Ok(got) THEN got
    ELSE SetEntry(Installed(got.mem, got.mem.cr3, v[1], got.page), got.page, v[2], p)

\* vmm_map adds a page table to the current directory when it has none.
VmmMap(m, v, p) == MapIn(TablePage(m, m.cr3, v[1]), v, p)

\* vmm_unmap gives the page table back with its last entry.
VmmUnmap(m, v) ==
    LET t == m.pde[m.cr3][v[1]]
        cleared == [m EXCEPT !.pte[t][v[2]] = NoPage]
    IN  CASE t = NoPage -> Failed(m)
          [] t # NoPage /\ m.pte[t][v[2]] = NoPage -> Failed(m)
          [] OTHER ->
               Result(m.pte[t][v[2]],
                      IF cleared.pte[t] = NoTable
                      THEN PmmFree([cleared EXCEPT !.pde[m.cr3][v[1]] = NoPage], t)
                      ELSE cleared)

Expected(u, p) == IF u.page = p THEN u.mem ELSE Panicked(u.mem, "window")

\* unmap_window, and the ends of the load windows.
UnmapWindow(m, v, p) == Expected(VmmUnmap(m, v), p)

\* The pattern of every access to a page of another address space: page p is
\* mapped at the window v, Body uses it, and the window is closed whatever
\* Body returns.
Closing(r, v, p) == Result(r.page, UnmapWindow(r.mem, v, p))

Opened(w, v, p, Body(_)) == IF Ok(w) THEN Closing(Body(w.mem), v, p) ELSE w

Window(m, v, p, Body(_)) == Opened(VmmMap(m, v, p), v, p, Body)

-----------------------------------------------------------------------------
\* address_space.c

\* The kernel's entries of directory d, taken from the boot directory.
Refreshed(m, d) ==
    [m EXCEPT !.pde[d] = [r \in Regions |->
        IF r \in SharedRegions THEN m.pde[KernelDirectory][r] ELSE @[r]]]

\* Directory d and the boot directory in the two windows, to refresh d.
RefreshThroughWindows(m, d, Prepare(_)) ==
    Window(m, DirectoryWindow, d, LAMBDA m1 :
        Window(m1, TableWindow, KernelDirectory, LAMBDA m2 :
            Result(d, Refreshed(Prepare(m2), d))))

NewDirectory(got) ==
    IF ~Ok(got) THEN got
    ELSE OrUndo(RefreshThroughWindows(got.mem, got.page,
                    LAMBDA mm : [mm EXCEPT !.pde[got.page] = NoDirectory]),
                LAMBDA mm : PmmFree(mm, got.page))

\* vmm_address_space_create
AddressSpaceCreate(m) == NewDirectory(PmmAlloc(m))

\* In table got.page of region v[1] of directory d, which is given back if it
\* is new and the page cannot be entered.
MapInSpace(got, d, v, p) ==
    IF ~Ok(got) THEN got
    ELSE OrUndo(Window(got.mem, TableWindow, got.page, LAMBDA mm :
                    SetEntry(Installed(mm, d, v[1], got.page), got.page, v[2], p)),
                LAMBDA mm : IF got.mem.pde[d][v[1]] # NoPage THEN mm
                            ELSE PmmFree([mm EXCEPT !.pde[d][v[1]] = NoPage], got.page))

\* vmm_address_space_map
AddressSpaceMap(m, d, v, p) ==
    Window(m, DirectoryWindow, d, LAMBDA mm :
        MapInSpace(TablePage(mm, d, v[1]), d, v, p))

\* vmm_address_space_query: what it finds; the memory is as it was before.
AddressSpaceQuery(m, d, v) ==
    LET t == m.pde[d][v[1]]
    IN  IF ~Ok(VmmMap(m, DirectoryWindow, d)) \/ t = NoPage THEN NoPage ELSE m.pte[t][v[2]]

\* vmm_address_space_activate
AddressSpaceActivate(m, d) ==
    Then(RefreshThroughWindows(m, d, LAMBDA mm : mm),
         LAMBDA mm : Result(d, [mm EXCEPT !.cr3 = d]))

\* The pages of table t are freed.
Emptied(m, t) ==
    FoldSet(LAMBDA s, mm : PmmFree(mm, m.pte[t][s]),
            [m EXCEPT !.pte[t] = NoTable],
            {s \in Slots : m.pte[t][s] # NoPage})

DroppedNotFreed(w, d, r, t) ==
    IF Ok(w) THEN [w.mem EXCEPT !.pde[d][r] = NoPage]
    ELSE Panicked(w.mem, "no table window")

Dropped(w, d, r, t) ==
    IF Ok(w) THEN PmmFree([w.mem EXCEPT !.pde[d][r] = NoPage], t)
    ELSE Panicked(w.mem, "no table window")

\* One round of the loop of vmm_address_space_destroy: the pages of the table
\* of region r, and the table.
TableDestroyed(m, d, r) ==
    IF m.pde[d][r] = NoPage THEN m
    ELSE Dropped(Window(m, TableWindow, m.pde[d][r], LAMBDA mm : Done(Emptied(mm, m.pde[d][r]))),
                 d, r, m.pde[d][r])

\* vmm_address_space_destroy
AddressSpaceDestroy(m, d) ==
    IF m.cr3 = d THEN Failed(m)
    ELSE Then(Window(m, DirectoryWindow, d, LAMBDA m1 :
                  Done(FoldSet(LAMBDA r, mm : TableDestroyed(mm, d, r), m1, UserRegion))),
              LAMBDA m2 : Done([PmmFree(m2, d) EXCEPT !.pde[d] = NoDirectory]))

-----------------------------------------------------------------------------
\* elf.c

\* zero_physical_page, copy_to_physical, initialize_user_stack: a page is
\* filled through the load window.
FillPage(m, p) == Window(m, LoadWindow, p, Done)

NewUserPageLeaking(got, d, v) ==
    IF ~Ok(got) THEN got
    ELSE Then(FillPage(got.mem, got.page),
              LAMBDA m1 : OrUndo(AddressSpaceMap(m1, d, v, got.page),
                                 LAMBDA mm : PmmFree(mm, got.page)))

NewUserPage(got, d, v) ==
    IF ~Ok(got) THEN got
    ELSE OrUndo(Then(FillPage(got.mem, got.page),
                     LAMBDA m1 : AddressSpaceMap(m1, d, v, got.page)),
                LAMBDA mm : PmmFree(mm, got.page))

\* ensure_user_page
EnsureUserPage(m, d, v) ==
    IF AddressSpaceQuery(m, d, v) # NoPage THEN Done(m) ELSE NewUserPage(PmmAlloc(m), d, v)

CopyUserPage(m, d, v) ==
    LET p == AddressSpaceQuery(m, d, v)
    IN  IF p = NoPage THEN Failed(m) ELSE FillPage(m, p)

\* load_program: the pages of a segment, and then what the file has of it.
LoadProgram(m, d, segment) ==
    FoldLeft(LAMBDA r, v : Then(r, LAMBDA mm : CopyUserPage(mm, d, v)),
             FoldLeft(LAMBDA r, v : Then(r, LAMBDA mm : EnsureUserPage(mm, d, v)),
                      Done(m), segment),
             segment)

\* elf_load_image: validate, then one segment after the other.
ElfLoadImage(m, d, image) ==
    IF image = <<>> THEN Failed(m)
    ELSE FoldLeft(LAMBDA r, segment : Then(r, LAMBDA mm : LoadProgram(mm, d, segment)),
                  Done(m), image)

-----------------------------------------------------------------------------
\* heap.c

\* A round of map_extension, and one of its rollback.
NewHeapPage(got) ==
    IF ~Ok(got) THEN got
    ELSE OrUndo(Then(VmmMap(got.mem, HeapAddress(got.mem.heap), got.page),
                     LAMBDA mm : Done([mm EXCEPT !.heap = @ + 1])),
                LAMBDA mm : PmmFree(mm, got.page))

HeapPageReleased(u) == [PmmFree(u.mem, u.page) EXCEPT !.heap = @ - 1]

\* map_extension: n pages behind the heap, or none when one cannot be had.
MapExtension(m, n) ==
    OrUndo(FoldLeft(LAMBDA r, k : Then(r, LAMBDA mm : NewHeapPage(PmmAlloc(mm))),
                    Done(m), [k \in 1 .. n |-> k]),
           LAMBDA m1 : FoldLeft(LAMBDA mm, k :
                                  HeapPageReleased(VmmUnmap(mm, HeapAddress(mm.heap - 1))),
                                m1, [k \in 1 .. m1.heap - m.heap |-> k]))

Allocate(m, n, grow) ==
    IF m.heap + grow > HeapRegions * RegionPages THEN Failed(m)
    ELSE Then(MapExtension(m, grow), LAMBDA mm : Done([mm EXCEPT !.allocated = @ + n]))

\* kmalloc of n pages.  tail is what the free block at the end of the heap
\* can contribute, which depends on how the heap is cut up.
Kmalloc(m, n, tail) == Allocate(m, n, n - Min({tail, n, m.heap - m.allocated}))

Kfree(m, n) == [m EXCEPT !.allocated = @ - n]

-----------------------------------------------------------------------------
\* scheduler.c and syscall.c

MustSucceed(r, why) == IF Ok(r) THEN r.mem ELSE Panicked(r.mem, why)

\* scheduler_spawn_image, with a free entry in the process table: a kernel
\* stack, a page for the stack of the process and an address space are taken
\* one after the other, and given back in the opposite order on a failure.
FillSpace(space, page, image) ==
    IF ~Ok(space) THEN space
    ELSE OrUndo(Then(Then(ElfLoadImage(space.mem, space.page, image),
                          LAMBDA m1 : FillPage(m1, page)),
                     LAMBDA m2 : Then(AddressSpaceMap(m2, space.page, StackAddress, page),
                                      LAMBDA m3 : Result(space.page, m3))),
                LAMBDA mm : MustSucceed(AddressSpaceDestroy(mm, space.page), "rollback"))

SpawnWithPage(got, image) ==
    IF ~Ok(got) THEN got
    ELSE OrUndo(FillSpace(AddressSpaceCreate(got.mem), got.page, image),
                LAMBDA mm : PmmFree(mm, got.page))

SpawnImage(m, image, tail) ==
    Then(Kmalloc(m, KernelStack, tail), LAMBDA m1 :
        OrUndo(SpawnWithPage(PmmAlloc(m1), image), LAMBDA mm : Kfree(mm, KernelStack)))

\* switch_to
SwitchTo(m, q) ==
    IF directory[q] = NoPage THEN [m EXCEPT !.cr3 = KernelDirectory]
    ELSE MustSucceed(AddressSpaceActivate(m, directory[q]), "could not activate")

\* syscall_spawn: the file is read into a buffer of n pages (or cannot be
\* read), loaded from there, and the buffer given back.
SpawnFrom(buffer, n, image, tail) ==
    Then(buffer, LAMBDA m1 :
        LET spawned == SpawnImage(m1, image, tail)
        IN  Result(spawned.page, Kfree(spawned.mem, n)))

Spawned(q, r) ==
    /\ mem' = r.mem
    /\ directory' = [directory EXCEPT ![q] = r.page]
    /\ state' = [state EXCEPT ![q] = IF Ok(r) THEN "ready" ELSE "unused"]

Spawn(q) ==
    /\ mem.panic = "none" /\ state[q] = "unused"
    /\ \E n \in 1 .. ImageLimit, tail \in 0 .. ImageLimit, stackTail \in 0 .. KernelStack :
         \/ Spawned(q, Then(Kmalloc(mem, n, tail), LAMBDA mm : Failed(Kfree(mm, n))))
         \/ \E image \in Images :
              Spawned(q, SpawnFrom(Kmalloc(mem, n, tail), n, image, stackTail))
    /\ UNCHANGED current

\* yield, sleep, waitpid or the timer: another process runs.
Switch(q) ==
    /\ mem.panic = "none" /\ state[q] = "ready"
    /\ mem' = SwitchTo(mem, q)
    /\ state' = [state EXCEPT ![current] = "ready", ![q] = "running"]
    /\ current' = q
    /\ UNCHANGED directory

\* exit: what the process held stays until it is reaped.
Exit(q) ==
    /\ mem.panic = "none" /\ current # BootProcess /\ state[q] = "ready"
    /\ mem' = SwitchTo(mem, q)
    /\ state' = [state EXCEPT ![current] = "zombie", ![q] = "running"]
    /\ current' = q
    /\ UNCHANGED directory

\* reap_process, on behalf of waitpid, which panics when it fails.
Reap(q) ==
    /\ mem.panic = "none" /\ state[q] = "zombie"
    /\ LET destroyed == AddressSpaceDestroy(mem, directory[q])
       IN  IF Ok(destroyed)
           THEN /\ mem' = Kfree(destroyed.mem, KernelStack)
                /\ state' = [state EXCEPT ![q] = "unused"]
                /\ directory' = [directory EXCEPT ![q] = NoPage]
           ELSE /\ mem' = Panicked(destroyed.mem, "could not reap")
                /\ UNCHANGED <<state, directory>>
    /\ UNCHANGED current

\* After heap_init: one page of heap, and its page table.
Init ==
    /\ \E n \in Sizes : mem =
         [total |-> n, used |-> {1, 2},
          pde |-> [d \in Pages \cup {KernelDirectory} |->
                     IF d = KernelDirectory
                     THEN [NoDirectory EXCEPT ![<<"heap", 0>>] = 2]
                     ELSE NoDirectory],
          pte |-> [t \in Pages |-> IF t = 2 THEN [NoTable EXCEPT ![0] = 1] ELSE NoTable],
          cr3 |-> KernelDirectory, heap |-> 1, allocated |-> 0, panic |-> "none"]
    /\ state = [p \in Processes |-> IF p = BootProcess THEN "running" ELSE "unused"]
    /\ directory = [p \in Processes |-> NoPage]
    /\ current = BootProcess

Next == \E q \in Processes : Spawn(q) \/ Switch(q) \/ Exit(q) \/ Reap(q)

Spec == Init /\ [][Next]_vars

-----------------------------------------------------------------------------
\* Properties.

TypeOK ==
    /\ mem.total \in Sizes /\ mem.used \subseteq 1 .. mem.total
    /\ mem.pde \in [Pages \cup {KernelDirectory} -> [Regions -> Pages \cup {NoPage}]]
    /\ mem.pte \in [Pages -> [Slots -> 0 .. PageLimit + 1]]
    /\ mem.cr3 \in Pages \cup {KernelDirectory}
    /\ mem.heap \in 1 .. HeapRegions * RegionPages
    /\ mem.allocated \in 0 .. mem.heap
    /\ state \in [Processes -> {"unused", "ready", "running", "zombie"}]
    /\ directory \in [Processes -> Pages \cup {NoPage}]
    /\ current \in Processes

\* Every page that is handed out has one holder: a process whose directory
\* it is, a directory whose page table it is, or a page table that maps it.
\* So a spawn that fails at any of its allocations gives back all it took
\* but the growth of the heap, a reaped process leaves nothing behind, the
\* windows are closed, and no page belongs to two processes.
Directories == {directory[p] : p \in Processes} \ {NoPage}

TableHolders == ({KernelDirectory} \X HeapRegion) \cup (Directories \X UserRegion)

PageHolders == {h \in TableHolders : mem.pde[h[1]][h[2]] # NoPage} \X Slots

PagesOwned ==
    LET owners == {p \in Processes : directory[p] # NoPage}
        tables == {h \in TableHolders : mem.pde[h[1]][h[2]] # NoPage}
        held(h) == mem.pte[mem.pde[h[1][1]][h[1][2]]][h[2]]
        pages == {h \in PageHolders : held(h) # NoPage}
    IN  /\ mem.used = Directories \cup {mem.pde[h[1]][h[2]] : h \in tables}
                                   \cup {held(h) : h \in pages}
        /\ Cardinality(mem.used) =
             Cardinality(owners) + Cardinality(tables) + Cardinality(pages)
        /\ {h \in pages : h[1][1] = KernelDirectory} =
             {<<<<KernelDirectory, HeapAddress(k)[1]>>, HeapAddress(k)[2]>> :
                k \in 0 .. mem.heap - 1}

\* However little memory is left, no operation breaks one of the invariants
\* the kernel checks: pages are freed once, windows hold what was put there,
\* and a failed spawn can always be rolled back, although the rollback needs
\* a page itself.
InvariantsKept == mem.panic \in {"none", "could not activate", "could not reap"}

\* Panics are for broken invariants: running out of memory is none.
NoPanicForMemory == mem.panic \notin {"could not activate", "could not reap"}

\* The heap that the running process sees is the whole heap, whichever
\* process it was grown by.
HeapMapped ==
    \A k \in 0 .. mem.heap - 1 :
        LET v == HeapAddress(k)
            t == mem.pde[mem.cr3][v[1]]
        IN  t # NoPage /\ mem.pte[t][v[2]] # NoPage
=============================================================================
