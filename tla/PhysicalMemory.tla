--------------------------- MODULE PhysicalMemory ---------------------------
(***************************************************************************)
(* Physical memory from the BIOS's memory map to the page allocator.       *)
(* boot/stage2/entry.asm collects the map and loads the kernel's segments  *)
(* where the map allows it; kernel/mm/pmm.c reads the map again, with the  *)
(* place of the kernel, and from then on hands out pages.                  *)
(*                                                                         *)
(* The two bitmaps are sets of pages.  The map has addresses of 64 bits,   *)
(* of which the kernel can use 4 GiB; an entry may begin and end inside a  *)
(* page, and entries may overlap.                                          *)
(***************************************************************************)
EXTENDS Integers, Sequences, FiniteSets

CONSTANTS PageSize,      \* PAGE_SIZE, 4096 in the code
          MaxPages,      \* PMM_MAX_PAGES, 2^20 in the code
          WordModulus,   \* 2^64, where addresses of the map wrap
          LowEnd,        \* LOW_MEMORY_RESERVED_END and KERNEL_PHYSICAL_MIN,
                         \* 1 MiB in the code
          MaxEntries,    \* E820_MAX_ENTRIES, BOOT_INFO_MAX_E820_ENTRIES
          MaxSegments,   \* bound on the segments of a kernel, 32 in the code
          Answers,       \* what the BIOS may answer to a call
          Segments,      \* what segments a kernel may have
          EntryPoint     \* the kernel's entry point, as a physical address

FourGiB == PageSize * MaxPages

AllPages == 0 .. MaxPages - 1

Entries == [base : 0 .. WordModulus - 1, length : 0 .. WordModulus - 1,
            usable : BOOLEAN]

ASSUME PmmAssumption ==
    /\ PageSize \in Nat \ {0} /\ MaxPages \in Nat \ {0}
    /\ WordModulus \in Nat /\ FourGiB < WordModulus
    /\ LowEnd \in 1 .. FourGiB
    /\ MaxEntries \in Nat /\ MaxSegments \in Nat
    \* failed: the carry flag, a wrong signature or a short entry.  present is
    \* the attribute of an ACPI 3 entry, more the continuation value.
    /\ Answers \subseteq [entry : Entries, failed : BOOLEAN, present : BOOLEAN,
                          more : BOOLEAN]
    \* sound: the checks that do not concern physical memory, and the read from
    \* the disk, succeed.
    /\ Segments \subseteq [start : 0 .. FourGiB - 1, size : 1 .. FourGiB - 1,
                           sound : BOOLEAN, executable : BOOLEAN]

VARIABLES
    phase,         \* "collect", "load", "ready", "running" or "halted"
    entries,       \* the collected memory map
    image,         \* the segments of the kernel that have been loaded
    lastEnd, kernelStart, kernelEnd,  \* kernel_last_physical_end,
                                      \* kernel_physical_start and _end
    used, allocatable,      \* used_bitmap, allocatable_bitmap
    total, free, reserved,  \* total_pages, free_pages, reserved_pages
    out            \* the pages that callers have been given and not given back

loader == <<entries, image, lastEnd, kernelStart, kernelEnd>>
pmm == <<used, allocatable, total, free, reserved, out>>
vars == <<phase, loader, pmm>>

(***************************************************************************)
(* The boot loader.                                                        *)
(***************************************************************************)

\* One call of the BIOS in collect_e820.  Empty entries and entries that are
\* not present are skipped, one that wraps ends the boot.
Wraps(e) == e.base + e.length >= WordModulus

E820Call(answer) ==
    LET skipped == ~answer.present \/ answer.entry.length = 0
        failed == \/ Len(entries) >= MaxEntries \/ answer.failed
                  \/ ~skipped /\ Wraps(answer.entry)
    IN  /\ phase = "collect"
        /\ entries' = CASE failed -> <<>>
                        [] ~failed /\ skipped -> entries
                        [] ~failed /\ ~skipped -> Append(entries, answer.entry)
        /\ phase' = CASE failed -> "halted"
                      [] ~failed /\ answer.more -> "collect"
                      [] ~failed /\ ~answer.more ->
                            IF entries' = <<>> THEN "halted" ELSE "load"
        /\ UNCHANGED <<image, lastEnd, kernelStart, kernelEnd, pmm>>

EntrySet(es) == {es[i] : i \in DOMAIN es}

LimitOf(e) == e.base + e.length

\* physical_range_is_usable, for the bytes from start up to end.
RangeIsUsableIgnoringReserved(es, start, end) ==
    \E e \in EntrySet(es) :
        /\ e.usable /\ e.base < FourGiB /\ e.base <= start
        /\ LimitOf(e) >= FourGiB \/ LimitOf(e) >= end

RangeIsUsable(es, start, end) ==
    /\ \E e \in EntrySet(es) :
          /\ e.usable /\ e.base < FourGiB /\ e.base <= start
          /\ LimitOf(e) >= FourGiB \/ LimitOf(e) >= end
    /\ \A e \in EntrySet(es) :
          ~e.usable /\ e.base < FourGiB =>
              e.base >= end \/ (LimitOf(e) < FourGiB /\ LimitOf(e) <= start)

PageFloor(a) == (a \div PageSize) * PageSize

Loaded(seg) == seg.start .. seg.start + seg.size - 1

HasEntry(seg) == seg.executable /\ EntryPoint \in Loaded(seg)

\* load_kernel_segment.  A segment without memory is ignored and is no step.
Loadable(seg) ==
    /\ seg.sound
    /\ seg.start >= LowEnd /\ seg.start >= lastEnd
    /\ seg.start + seg.size + PageSize - 1 < FourGiB
    /\ RangeIsUsable(entries, seg.start, seg.start + seg.size)
    /\ ~(HasEntry(seg) /\ \E s \in image : HasEntry(s))

LoadSegment(seg) ==
    LET end == seg.start + seg.size
        first == PageFloor(seg.start)
        limit == PageFloor(end + PageSize - 1)
    IN  /\ phase = "load" /\ Cardinality(image) < MaxSegments
        /\ IF Loadable(seg)
           THEN /\ image' = image \cup {seg}
                /\ lastEnd' = end
                /\ kernelStart' = IF first < kernelStart THEN first ELSE kernelStart
                /\ kernelEnd' = IF limit > kernelEnd THEN limit ELSE kernelEnd
                /\ UNCHANGED phase
           ELSE /\ phase' = "halted"
                /\ UNCHANGED <<image, lastEnd, kernelStart, kernelEnd>>
        /\ UNCHANGED <<entries, pmm>>

\* The end of load_kernel_elf, and build_boot_info.
ProgramDoneUnchecked ==
    /\ phase = "load"
    /\ phase' = "ready"
    /\ UNCHANGED <<loader, pmm>>

ProgramDone ==
    /\ phase = "load"
    /\ phase' = IF \E s \in image : HasEntry(s) THEN "ready" ELSE "halted"
    /\ UNCHANGED <<loader, pmm>>

(***************************************************************************)
(* pmm_init.                                                               *)
(***************************************************************************)

\* The end of a range: one that wraps or leaves the 4 GiB is cut off there.
EndOf(base, length) ==
    LET end == (base + length) % WordModulus
    IN  IF end < base \/ end > FourGiB THEN FourGiB ELSE end

\* range_to_pages, first_page and limit_page: the whole pages inside a range.
NoRange == <<0, 0>>

RangeToPagesOutward(base, length) ==
    IF length = 0 \/ base >= FourGiB
    THEN NoRange
    ELSE <<base \div PageSize, (EndOf(base, length) + PageSize - 1) \div PageSize>>

RangeToPages(base, length) ==
    IF length = 0 \/ base >= FourGiB \/ base > FourGiB - (PageSize - 1)
    THEN NoRange
    ELSE LET first == (base + PageSize - 1) \div PageSize
             limit == EndOf(base, length) \div PageSize
         IN  IF first >= limit THEN NoRange ELSE <<first, limit>>

PagesOf(range) == range[1] .. range[2] - 1

\* reserve_range: every page that the range touches.
ReserveRange(base, length) ==
    IF length = 0 \/ base >= FourGiB
    THEN {}
    ELSE LET end == EndOf(base, length)
             limit == IF end = FourGiB THEN MaxPages
                      ELSE (end + PageSize - 1) \div PageSize
         IN  base \div PageSize .. limit - 1

\* The first loop of pmm_init, and the maximum that it keeps.
UsablePages(es) ==
    UNION {PagesOf(RangeToPages(e.base, e.length)) : e \in {x \in EntrySet(es) : x.usable}}

Limits(es) == {0} \cup {RangeToPages(e.base, e.length)[2] : e \in EntrySet(es)}

MaximumPage(es) == CHOOSE m \in Limits(es) : \A n \in Limits(es) : n <= m

\* What the second loop takes away again, low memory and the kernel image.
ReservedPages(es, start, end) ==
    (UNION {ReserveRange(e.base, e.length) : e \in {x \in EntrySet(es) : ~x.usable}})
        \cup ReserveRange(0, LowEnd)
        \cup ReserveRange(start, end - start)

ValidBootInfo == Len(entries) \in 1 .. MaxEntries /\ kernelStart < kernelEnd

FreePages(limit, canUse, taken) == {p \in canUse \ taken : p < limit}

PmmInit ==
    /\ phase = "ready"
    /\ IF ~ValidBootInfo
       THEN phase' = "halted" /\ UNCHANGED <<used, allocatable, total, free, reserved>>
       ELSE /\ allocatable' = UsablePages(entries)
                                  \ ReservedPages(entries, kernelStart, kernelEnd)
            /\ used' = AllPages \ allocatable'
            /\ total' = MaximumPage(entries)
            /\ free' = Cardinality(FreePages(total', allocatable', used'))
            /\ reserved' = total' - free'
            /\ phase' = IF total' = 0 \/ free' = 0 THEN "halted" ELSE "running"
    /\ UNCHANGED <<loader, out>>

-----------------------------------------------------------------------------
\* pmm_alloc: the first free page.  When there is none it returns 0 and
\* changes nothing.
PmmAlloc ==
    /\ phase = "running"
    /\ \E p \in FreePages(total, allocatable, used) :
          /\ \A q \in FreePages(total, allocatable, used) : p <= q
          /\ used' = used \cup {p}
          /\ free' = free - 1
          /\ out' = out \cup {p}
    /\ UNCHANGED <<phase, loader, allocatable, total, reserved>>

\* pmm_free, with any address a caller may have; the calls that it refuses
\* change nothing.
PmmFreeUnchecked(address) ==
    LET page == address \div PageSize
    IN  /\ phase = "running"
        /\ address % PageSize = 0
        /\ page < total /\ page \in allocatable
        /\ used' = used \ {page}
        /\ free' = free + 1
        /\ out' = out \ {page}
        /\ UNCHANGED <<phase, loader, allocatable, total, reserved>>

PmmFree(address) ==
    LET page == address \div PageSize
    IN  /\ phase = "running"
        /\ address % PageSize = 0
        /\ page < total /\ page \in allocatable /\ page \in used
        /\ used' = used \ {page}
        /\ free' = free + 1
        /\ out' = out \ {page}
        /\ UNCHANGED <<phase, loader, allocatable, total, reserved>>

Init ==
    /\ phase = "collect"
    /\ entries = <<>>
    /\ image = {} /\ lastEnd = 0
    /\ kernelStart = FourGiB - 1 /\ kernelEnd = 0
    /\ used = {} /\ allocatable = {}
    /\ total = 0 /\ free = 0 /\ reserved = 0
    /\ out = {}

Next ==
    \/ \E answer \in Answers : E820Call(answer)
    \/ \E seg \in Segments : LoadSegment(seg)
    \/ ProgramDone
    \/ PmmInit
    \/ PmmAlloc
    \/ \E address \in 0 .. FourGiB - 1 : PmmFree(address)

Spec == Init /\ [][Next]_vars

-----------------------------------------------------------------------------
(***************************************************************************)
(* Properties.                                                             *)
(***************************************************************************)
TypeOK ==
    /\ phase \in {"collect", "load", "ready", "running", "halted"}
    /\ entries \in Seq(Entries) /\ Len(entries) <= MaxEntries
    /\ image \subseteq Segments
    /\ lastEnd \in 0 .. FourGiB - 1
    /\ kernelStart \in 0 .. FourGiB - 1 /\ kernelEnd \in 0 .. FourGiB - 1
    /\ used \subseteq AllPages /\ allocatable \subseteq AllPages
    /\ total \in 0 .. MaxPages /\ free \in 0 .. MaxPages /\ reserved \in 0 .. MaxPages
    /\ out \subseteq AllPages

Covers(e, a) == e.base <= a /\ a < e.base + e.length

BytesOf(page) == page * PageSize .. page * PageSize + PageSize - 1

\* The map, byte by byte: usable in one entry and reserved in none.
UsableMemory(bytes) ==
    /\ \E e \in EntrySet(entries) : e.usable /\ \A a \in bytes : Covers(e, a)
    /\ \A a \in bytes, e \in EntrySet(entries) : Covers(e, a) => e.usable

\* load_kernel_segment writes to usable memory above 1 MiB only, and no segment
\* over another.
ImageInUsableMemory ==
    /\ \A s \in image : UsableMemory(Loaded(s)) /\ s.start >= LowEnd
    /\ \A s, t \in image : s # t => Loaded(s) \cap Loaded(t) = {}

\* Whatever stage 2 accepts, the Boot Info it builds passes the checks of
\* pmm_init.
BootInfoAccepted == phase = "ready" => ValidBootInfo

\* A page that pmm_alloc has handed out is memory that one usable entry of the
\* map covers, and no byte of it is in a reserved entry, in low memory or in a
\* segment of the kernel; in particular it is not page 0, whose address means
\* failure.
HandedOutIsUsable ==
    \A p \in out :
        /\ UsableMemory(BytesOf(p))
        /\ \A a \in BytesOf(p) : a >= LowEnd /\ \A s \in image : a \notin Loaded(s)

\* pmm_get_stats tells the truth after any calls of pmm_alloc and pmm_free,
\* refused ones included: every page below the limit is free, reserved or out,
\* and no page is out twice.
StatsAddUp ==
    phase = "running" =>
        /\ total = free + reserved + Cardinality(out)
        /\ free = Cardinality(FreePages(total, allocatable, used))
        /\ out = allocatable \cap used
=============================================================================
