-------------------------------- MODULE Heap --------------------------------
(***************************************************************************)
(* The kernel heap (kernel/mm/heap.c): a doubly linked list of blocks that *)
(* lie one behind the other, each with a header in front of its payload.   *)
(* kmalloc takes the first free block that is large enough and splits it,  *)
(* kfree merges a block with its free neighbours, and the heap grows by    *)
(* whole pages.                                                            *)
(*                                                                         *)
(* A block is known by the address of its header.  The headers are kept as *)
(* the code keeps them, with both links, and validate_block, which panics, *)
(* is applied to the blocks that the code applies it to.  kmalloc and      *)
(* kfree run with interrupts disabled: each is one step.  Whether pages    *)
(* can be mapped is a choice here; Memory has the pages.                   *)
(***************************************************************************)
EXTENDS Integers, Sequences

CONSTANTS HeaderSize,    \* sizeof(struct heap_block), 24 bytes in the code
          Alignment,     \* HEAP_ALIGNMENT, 8
          HeapPageSize,  \* PAGE_SIZE, 4096
          HeapMaxPages,  \* HEAP_MAX_SIZE / PAGE_SIZE, 4096
          SizesRequested \* bound of the instance: sizes that are asked for

ASSUME HeapAssumption ==
    /\ Alignment \in Nat \ {0}
    /\ HeaderSize \in Nat \ {0} /\ HeaderSize % Alignment = 0
    /\ HeapPageSize \in Nat /\ HeapPageSize % Alignment = 0
    /\ HeapPageSize >= HeaderSize + Alignment
    /\ HeapMaxPages \in Nat \ {0} /\ SizesRequested \subseteq Nat

Null == 0

Start == Alignment                          \* HEAP_VIRTUAL_START

MaxSize == HeapMaxPages * HeapPageSize

Addresses == Start .. Start + MaxSize - 1

Free == "free"

Allocated == "allocated"

NoHeader == [magic |-> FALSE, size |-> 0, prev |-> Null, next |-> Null, state |-> "none"]

VARIABLES
    header,    \* what is at each address, read as a header
    pages,     \* heap_mapped_pages
    panic      \* validate_block has found a fault

heapVars == <<header, pages, panic>>

End == Start + pages * HeapPageSize             \* heap_end

Payload(b) == b + HeaderSize

-----------------------------------------------------------------------------
\* The blocks of a heap h that ends at end.

\* initialize_block
NewBlock(size, prev, next) ==
    [magic |-> TRUE, size |-> size, prev |-> prev, next |-> next, state |-> Free]

\* validate_block accepts block b.
Valid(h, end, b) ==
    LET x == h[b]
        after == Payload(b) + x.size
    IN  /\ b >= Start /\ b <= end - HeaderSize /\ x.magic /\ x.state \in {Free, Allocated}
        /\ x.size <= end - Payload(b) /\ x.size % Alignment = 0
        /\ IF x.next # Null
           THEN after <= end - HeaderSize /\ x.next = after /\ h[x.next].prev = b
           ELSE after = end
        /\ IF x.prev # Null
           THEN /\ x.prev >= Start /\ x.prev <= b - HeaderSize
                /\ h[x.prev].magic /\ h[x.prev].next = b
                /\ Payload(x.prev) + h[x.prev].size = b
           ELSE b = Start

Limit == MaxSize \div (HeaderSize + Alignment)      \* no list is longer

Follow(h, b) == IF b = Null THEN Null ELSE h[b].next

\* The blocks in the order of the list, from heap_head on.
Walk(h) == LET At[k \in 1 .. Limit] == IF k = 1 THEN Start ELSE Follow(h, At[k - 1])
           IN  At

List(h) ==
    LET walk == Walk(h)
        length == CHOOSE n \in 1 .. Limit : walk[n] # Null /\ Follow(h, walk[n]) = Null
    IN  [k \in 1 .. length |-> walk[k]]

Blocks(h) == LET l == List(h) IN {l[k] : k \in DOMAIN l}

FitsUnchecked(h, size) == LET l == List(h) IN {k \in DOMAIN l : h[l[k]].size >= size}

\* find_first_fit: the positions in the list that fit.
Fits(h, size) == LET l == List(h)
                 IN  {k \in DOMAIN l : h[l[k]].state = Free /\ h[l[k]].size >= size}

First(fits) == CHOOSE k \in fits : \A j \in fits : k <= j

\* A walk along the list up to its k-th block validates all of these.
WalkValid(h, end, k) == LET l == List(h)
                        IN  \A j \in 1 .. k : Valid(h, end, l[j])

\* align_request, for a size that it accepts.
Aligned(size) == ((size + Alignment - 1) \div Alignment) * Alignment

Acceptable(size) == size > 0 /\ Aligned(size) <= MaxSize - HeaderSize

\* split_block, unless what remains is too small for a block.
Split(h, b, size) ==
    LET remaining == h[b].size - size
        new == Payload(b) + size
        linked == [h EXCEPT ![new] = NewBlock(remaining - HeaderSize, b, h[b].next),
                            ![b].next = new, ![b].size = size]
    IN  IF remaining < HeaderSize + Alignment THEN h
        ELSE IF h[b].next = Null THEN linked
        ELSE [linked EXCEPT ![h[b].next].prev = new]

\* merge_with_next
Merge(h, b) ==
    LET n == h[b].next
        merged == [h EXCEPT ![b].size = @ + HeaderSize + h[n].size,
                            ![b].next = h[n].next, ![n] = NoHeader]
    IN  IF n = Null THEN h
        ELSE IF h[n].state # Free THEN h
        ELSE IF h[n].next = Null THEN merged
        ELSE [merged EXCEPT ![h[n].next].prev = b]

CoalesceBackward(h, b) ==
    IF h[b].prev # Null /\ h[h[b].prev].state = Free THEN Merge(h, h[b].prev) ELSE h

\* coalesce: with the next block, and then the previous one with both.
Coalesce(h, b) ==
    LET forward == Merge(h, b)
    IN  IF h[b].prev # Null /\ h[h[b].prev].state = Free
        THEN Merge(forward, h[b].prev)
        ELSE forward

\* The blocks that coalesce validates, in the heap as they find it.
CoalesceValid(h, end, b) ==
    LET forward == Merge(h, b)
        p == forward[b].prev
    IN  /\ Valid(h, end, b) /\ (h[b].next # Null => Valid(h, end, h[b].next))
        /\ p # Null => Valid(forward, end, p)
        /\ (p # Null /\ forward[p].state = Free) => Valid(forward, end, b)

-----------------------------------------------------------------------------
\* Growth.

HeapTail(h) == LET l == List(h) IN l[Len(l)]

GrowthWithoutHeader(h, size) ==
    LET tail == h[HeapTail(h)]
        required == IF tail.state = Free THEN size - tail.size ELSE size
    IN  (required + HeapPageSize - 1) \div HeapPageSize

\* page_count of grow_heap for size bytes.
Growth(h, size) ==
    LET tail == h[HeapTail(h)]
        required == IF tail.state = Free THEN size - tail.size ELSE size + HeaderSize
    IN  (required + HeapPageSize - 1) \div HeapPageSize

\* The pages become part of the last block t, or a block behind it.
Extended(h, t, end, bytes) ==
    IF h[t].state = Free
    THEN [h EXCEPT ![t].size = @ + bytes]
    ELSE [h EXCEPT ![t].next = end, ![end] = NewBlock(bytes - HeaderSize, t, Null)]

\* The heap after it has grown by n pages.
Grown(h, n) == Extended(h, HeapTail(h), End, n * HeapPageSize)

-----------------------------------------------------------------------------
\* Operations.

Take(h, b, size) == [Split(h, b, size) EXCEPT ![b].state = Allocated]

\* kmalloc of a size for which there is a block.
KmallocFit(size) ==
    LET k == First(Fits(header, size))
    IN  /\ Fits(header, size) # {}
        /\ header' = Take(header, List(header)[k], size)
        /\ panic' = ~WalkValid(header, End, k)
        /\ UNCHANGED pages

\* kmalloc of a size for which the heap has to grow first.  When the limit is
\* reached or the pages cannot be had, the heap stays as it is.
KmallocGrow(size) ==
    LET n == Growth(header, size)
        h == Grown(header, n)
        end == Start + (pages + n) * HeapPageSize
        fits == Fits(h, size)
    IN  /\ Fits(header, size) = {} /\ pages + n <= HeapMaxPages
        /\ pages' = pages + n
        /\ header' = IF fits = {} THEN h ELSE Take(h, List(h)[First(fits)], size)
        /\ panic' = \/ ~WalkValid(header, End, Len(List(header)))
                    \/ fits = {}            \* "heap growth produced no fitting block"
                    \/ ~WalkValid(h, end, First(fits))

Kmalloc == \E size \in SizesRequested : /\ ~panic /\ Acceptable(size)
                                  /\ \/ KmallocFit(Aligned(size))
                                     \/ KmallocGrow(Aligned(size))

\* kfree of the payload of an allocated block, found by a walk along the
\* list; any other address is refused and changes nothing.
Kfree ==
    /\ ~panic
    /\ LET l == List(header)
       IN \E k \in DOMAIN l :
            LET b == l[k]
                freed == [header EXCEPT ![b].state = Free]
            IN  /\ header[b].state = Allocated
                /\ Payload(b) < End /\ Payload(b) % Alignment = 0
                /\ header' = Coalesce(freed, b)
                /\ panic' = ~(WalkValid(header, End, k) /\ CoalesceValid(freed, End, b))
    /\ UNCHANGED pages

\* heap_init
HeapInit ==
    /\ header = [a \in Addresses |-> IF a = Start
                                     THEN NewBlock(HeapPageSize - HeaderSize, Null, Null)
                                     ELSE NoHeader]
    /\ pages = 1 /\ panic = FALSE

HeapNext == Kmalloc \/ Kfree

HeapSpec == HeapInit /\ [][HeapNext]_heapVars

-----------------------------------------------------------------------------
\* Properties.

\* No sequence of kmalloc and kfree makes validate_block, which is applied to
\* every block on the way of each search, find the list damaged, and growing
\* always produces a block that fits.
NoHeapPanic == ~panic

\* The blocks cover the heap from its start to heap_end without a gap or an
\* overlap, headers are nowhere else, and no two free blocks are neighbours,
\* so that memory that is free in one piece can be allocated in one piece.
Tiled ==
    LET blocks == Blocks(header)
    IN  /\ {a \in Addresses : header[a].magic} = blocks
        /\ \A b \in blocks : Valid(header, End, b)
        /\ \A b \in blocks : (header[b].state = Free /\ header[b].next # Null)
                                => header[header[b].next].state = Allocated

\* What has been allocated stays where it is and keeps its size until it is
\* freed, and a step gives out or takes back one block at most.
Owned == {<<b, header[b].size>> : b \in {c \in Blocks(header) : header[c].state = Allocated}}

AllocationsStay ==
    [][LET old == Owned
           new == Owned'
       IN  \A x, y \in (old \ new) \cup (new \ old) : x = y]_heapVars

-----------------------------------------------------------------------------
\* Why they hold: the headers in memory as a chain of adjacent blocks.

Headers(h) == {a \in Addresses : h[a].magic}

After(h, b) == Payload(b) + h[b].size

\* Every header is followed by the next one or by the end of the heap and,
\* except for the first, preceded by another, and the links say so.
WellFormed(h, end) ==
    /\ h \in [Addresses -> [magic : BOOLEAN, size : Nat, prev : Nat, next : Nat,
                            state : {Free, Allocated, "none"}]]
    /\ Start \in Headers(h)
    /\ \A b \in Headers(h) :
          /\ h[b].size >= Alignment /\ h[b].size % Alignment = 0
          /\ h[b].state \in {Free, Allocated}
          /\ After(h, b) <= end
          /\ IF After(h, b) = end THEN h[b].next = Null
             ELSE /\ h[b].next = After(h, b) /\ After(h, b) \in Headers(h)
                  /\ h[After(h, b)].prev = b
          /\ IF b = Start THEN h[b].prev = Null
             ELSE h[b].prev \in Headers(h) /\ After(h, h[b].prev) = b

\* No two free blocks are neighbours, except perhaps at block b.
FreeApart(h, b) ==
    \A c \in Headers(h) :
        (c # b /\ h[c].state = Free /\ h[c].next # Null /\ h[c].next # b)
            => h[h[c].next].state = Allocated

HeapInv ==
    /\ pages \in 1 .. HeapMaxPages /\ ~panic
    /\ WellFormed(header, End) /\ FreeApart(header, Null)
=============================================================================
