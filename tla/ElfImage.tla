------------------------------ MODULE ElfImage ------------------------------
(***************************************************************************)
(* What the ELF loader (kernel/proc/elf.c) makes of a program image: it    *)
(* validates the program headers, then maps and fills the pages of one     *)
(* segment after another in a new address space.  Module Memory follows    *)
(* the frames that this takes; here it is the contents that count.  Byte o *)
(* of the image is the number o + 1, so that a byte which came from        *)
(* nowhere is a 0.                                                         *)
(***************************************************************************)
EXTENDS UserLayout, Sequences

CONSTANTS ProgramHeaders,   \* the program headers that images are made of
          ProgramLimit,     \* ELF_PROGRAM_LIMIT
          Entries,          \* entry points
          ImageSize         \* bytes in an image

\* A program header has a type, "load" or another, the range of the file, the
\* range of memory, its flags and its alignment.
ASSUME HeadersAssumption ==
    /\ \A h \in ProgramHeaders :
          /\ {h.offset, h.fileSize, h.address, h.memorySize, h.alignment} \subseteq Words
          /\ h.flags \subseteq {"R", "W", "X", "other"}
    /\ ImageSize \in Words /\ Entries \subseteq Words /\ ProgramLimit \in Nat

VARIABLES
    headers,    \* the program headers of the image
    entry,      \* and its entry point
    loading,    \* the index of the next header to load; 0 before validation
    pages,      \* the pages mapped so far: base -> [writable, bytes]
    loaded      \* what elf_load_image returned, "pending" before

elfVars == <<headers, entry, loading, pages, loaded>>

-----------------------------------------------------------------------------
\* range_within
RangeWithin(limit, offset, length) == offset <= limit /\ length <= limit - offset

PowerOfTwo(n) == \E k \in 0 .. n : 2 ^ k = n

\* program_range_valid
ProgramRangeValid(h) ==
    \/ h.type # "load"
    \/ h.memorySize = 0 /\ h.fileSize = 0
    \/ /\ h.memorySize # 0 /\ h.fileSize <= h.memorySize
       /\ RangeWithin(ImageSize, h.offset, h.fileSize)
       /\ h.address >= UserPageSize /\ h.address < KernelBase
       /\ h.memorySize <= KernelBase - h.address
       /\ h.flags \subseteq {"R", "W", "X"} /\ h.flags \cap {"R", "X"} # {}
       /\ h.alignment > 1 => /\ PowerOfTwo(h.alignment)
                             /\ Word(h.address - h.offset) % h.alignment = 0

\* load_ranges_overlap
LoadRangesOverlap(left, right) ==
    /\ left.type = "load" /\ right.type = "load"
    /\ left.address < Word(right.address + right.memorySize)
    /\ right.address < Word(left.address + left.memorySize)

\* The headers that the loader loads.
Loads(h) == h.type = "load" /\ h.memorySize # 0

\* validate_image; whether the file header is the one of an i386 executable is
\* the image's to choose and changes nothing else.
ImageValid ==
    /\ Len(headers) \in 1 .. ProgramLimit
    /\ \A i \in DOMAIN headers :
          /\ ProgramRangeValid(headers[i])
          /\ Loads(headers[i]) => \A j \in 1 .. i - 1 : ~LoadRangesOverlap(headers[i], headers[j])
    /\ \E i \in DOMAIN headers :
          /\ Loads(headers[i]) /\ "X" \in headers[i].flags
          /\ entry >= headers[i].address
          /\ entry - headers[i].address < headers[i].memorySize

Validate(foreign) ==
    /\ loaded = "pending" /\ loading = 0
    /\ IF ImageValid /\ ~foreign
       THEN loading' = 1 /\ UNCHANGED loaded
       ELSE loaded' = "ENOEXEC" /\ UNCHANGED loading
    /\ UNCHANGED <<headers, entry, pages>>

\* zero_physical_page
ZeroPage == [k \in 0 .. UserPageSize - 1 |-> 0]

\* The pages load_program goes through.
PagesOf(h) == PagesFrom(PageBase(h.address), PageBase(Word(h.address + h.memorySize - 1)))

\* Mutant of EnsureUserPage: a page that is there already is left as it is.
EnsureUserPageAsIs(space, page, writable) ==
    IF page \in DOMAIN space THEN space[page] ELSE [writable |-> writable, bytes |-> ZeroPage]

\* ensure_user_page
EnsureUserPage(space, page, writable) ==
    IF page \in DOMAIN space
    THEN [space[page] EXCEPT !.writable = @ \/ writable]
    ELSE [writable |-> writable, bytes |-> ZeroPage]

\* The space with some of the pages of h ensured.
Ensured(h, some) ==
    [page \in DOMAIN pages \cup some |->
        IF page \in some THEN EnsureUserPage(pages, page, "W" \in h.flags) ELSE pages[page]]

\* The copying loop of load_program, chunk by chunk through copy_to_physical:
\* what it leaves at offset k of a page.
CopyToPhysical(h, page, k, before) ==
    LET at == page + k - h.address
    IN  IF at \in 0 .. h.fileSize - 1 THEN h.offset + at + 1 ELSE before

\* load_program
LoadProgram ==
    LET h == headers[loading]
        space == Ensured(h, PagesOf(h))
    IN  /\ loaded = "pending" /\ loading \in DOMAIN headers
        /\ IF Loads(h)
           THEN pages' = [page \in DOMAIN space |-> [space[page] EXCEPT !.bytes =
                            [k \in DOMAIN @ |-> CopyToPhysical(h, page, k, @[k])]]]
           ELSE UNCHANGED pages
        /\ loading' = loading + 1
        /\ UNCHANGED <<headers, entry, loaded>>

\* load_program, when there is no frame for a page, or for its page table.
NoMemory ==
    LET h == headers[loading] IN
    /\ loaded = "pending" /\ loading \in DOMAIN headers /\ Loads(h)
    /\ \E page \in PagesOf(h) \ DOMAIN pages :
          pages' = Ensured(h, {p \in PagesOf(h) : p < page})
    /\ loaded' = "ENOMEM"
    /\ UNCHANGED <<headers, entry, loading>>

\* load_program, when copy_to_physical finds no frame for the page table of the
\* load window, which vmm_unmap gives back after every use: the pages below
\* are filled, the others are zero.  The other EIO, of ensure_user_page, cannot
\* happen: a page that has just been found can be protected.
CopyFails ==
    LET h == headers[loading]
        space == Ensured(h, PagesOf(h))
    IN  /\ loaded = "pending" /\ loading \in DOMAIN headers /\ Loads(h)
        /\ \E page \in {p \in PagesOf(h) : h.fileSize # 0 /\ p < h.address + h.fileSize} :
              pages' = [p \in DOMAIN space |->
                          IF p < page
                          THEN [space[p] EXCEPT !.bytes =
                                  [k \in DOMAIN @ |-> CopyToPhysical(h, p, k, @[k])]]
                          ELSE space[p]]
        /\ loaded' = "EIO"
        /\ UNCHANGED <<headers, entry, loading>>

\* The end of elf_load_image.
Finish ==
    /\ loaded = "pending" /\ loading = Len(headers) + 1
    /\ loaded' = "ok"
    /\ UNCHANGED <<headers, entry, loading, pages>>

ElfInit ==
    /\ headers \in UNION {[1 .. n -> ProgramHeaders] : n \in 0 .. ProgramLimit}
    /\ entry \in Entries
    /\ loading = 0 /\ pages = <<>> /\ loaded = "pending"

ElfNext == \/ \E foreign \in BOOLEAN : Validate(foreign)
           \/ LoadProgram \/ NoMemory \/ CopyFails \/ Finish

ElfSpec == ElfInit /\ [][ElfNext]_elfVars

-----------------------------------------------------------------------------
\* Properties.

Segments == {headers[i] : i \in {j \in DOMAIN headers : Loads(headers[j])}}

Covers(h, a) == a >= h.address /\ a < h.address + h.memorySize

\* A loaded program finds what its headers describe, in whatever order they
\* stand and even where segments share a page: each byte of a segment is the
\* byte of the file or, behind the file's part, zero; a page can be written
\* exactly if a writable segment reaches into it; there are no pages but those
\* of the segments, all of them in user space and none at address 0; and the
\* program starts in an executable segment.
LoadedAsDescribed ==
    loaded = "ok" =>
       /\ DOMAIN pages = {PageBase(a) : a \in {b \in Words : \E h \in Segments : Covers(h, b)}}
       /\ DOMAIN pages \subseteq {p \in PageBases : p # 0 /\ p < KernelBase}
       /\ \A h \in Segments : \A a \in {b \in Words : Covers(h, b)} :
             pages[PageBase(a)].bytes[PageOffset(a)] =
                 IF a - h.address < h.fileSize THEN h.offset + (a - h.address) + 1 ELSE 0
       /\ \A p \in DOMAIN pages :
             pages[p].writable <=> \E h \in Segments : /\ "W" \in h.flags
                                                       /\ \E k \in 0 .. UserPageSize - 1 : Covers(h, p + k)
       /\ \E h \in Segments : "X" \in h.flags /\ Covers(h, entry)

\* What LoadedAsDescribed rests on: after each header, the pages are those of
\* the segments so far, and hold what these describe.
Done == {j \in DOMAIN headers : j < loading /\ Loads(headers[j])}

InFile(h, a) == a - h.address \in 0 .. h.fileSize - 1

PageAsDescribed(page, p, segments) ==
    /\ page \in [writable : BOOLEAN, bytes : [0 .. UserPageSize - 1 -> Nat]]
    /\ page.writable <=> \E j \in segments : "W" \in headers[j].flags /\ p \in PagesOf(headers[j])
    /\ \A k \in 0 .. UserPageSize - 1 :
          /\ \A j \in segments : InFile(headers[j], p + k) =>
                page.bytes[k] = headers[j].offset + (p + k - headers[j].address) + 1
          /\ (\A j \in segments : ~InFile(headers[j], p + k)) => page.bytes[k] = 0

PagesAsDescribed ==
    /\ DOMAIN pages = UNION {PagesOf(headers[j]) : j \in Done}
    /\ \A p \in DOMAIN pages : PageAsDescribed(pages[p], p, Done)

ElfInv ==
    /\ headers \in Seq(ProgramHeaders) /\ entry \in Words
    /\ loading \in 0 .. Len(headers) + 1
    /\ loading # 0 => ImageValid
    /\ loaded \in {"pending", "ok", "ENOEXEC", "ENOMEM", "EIO"}
    /\ loaded = "ok" => loading = Len(headers) + 1
    /\ loaded \in {"pending", "ok"} => PagesAsDescribed
=============================================================================
