----------------------------- MODULE HeapProofs -----------------------------
(***************************************************************************)
(* Proofs that the kernel heap (Heap) is never found damaged, that its     *)
(* blocks tile it, and that what is allocated stays where it is, for every *)
(* size of the headers, of the pages, of the heap and of the requests.     *)
(***************************************************************************)
EXTENDS HeapLists

-----------------------------------------------------------------------------
\* Free neighbours.

\* After a merge, none of the two blocks' neighbours to the right is free.
LEMMA MergeApart ==
    ASSUME NEW h, NEW end \in Nat, WellFormed(h, end), NEW b \in Headers(h), FreeApart(h, b),
           NEW n \in Headers(h), n = h[b].next, h[n].state = Free, NEW g, g = Merge(h, b)
    PROVE  /\ FreeApart(g, b)
           /\ g[b].next = Null \/ g[g[b].next].state = Allocated
<1>1. /\ Headers(g) = Headers(h) \ {n} /\ g[b].next = h[n].next
      /\ \A c \in Headers(h) \ {b, n} : g[c].state = h[c].state /\ g[c].next = h[c].next
    BY MergeFields
<1>2. n # b /\ n # Null /\ Free # Allocated
    BY NextFacts, BlockFacts DEF Free, Allocated
<1>3. ASSUME NEW c \in Headers(g), c # b, g[c].state = Free, g[c].next # Null, g[c].next # b
      PROVE  g[g[c].next].state = Allocated
    <2>1. c \in Headers(h) \ {b, n} /\ g[c].next = h[c].next /\ h[c].state = Free
        BY <1>1, <1>3
    <2>2. h[h[c].next].state = Allocated
        BY <1>3, <2>1 DEF FreeApart
    <2>3. h[c].next \in Headers(h)
        BY <1>3, <2>1, NextFacts
    <2>4. h[c].next \in Headers(h) \ {b, n}
        BY <1>2, <1>3, <2>1, <2>2, <2>3
    <2> QED BY <1>1, <2>1, <2>2, <2>4
<1>4. ASSUME h[n].next # Null PROVE g[h[n].next].state = Allocated
    <2>1. PICK m \in Headers(h) : m = h[n].next /\ n < m
        BY <1>4, NextFacts
    <2>2. n \in Nat /\ m \in Nat /\ b \in Nat /\ b < n
        BY <1>2, NextFacts, BlockFacts
    <2>3. m # n /\ m # b
        BY <2>1, <2>2
    <2>4. h[m].state = Allocated
        BY <1>2, <1>4, <2>1, <2>3 DEF FreeApart
    <2> QED BY <1>1, <2>1, <2>3, <2>4
<1> QED BY <1>1, <1>3, <1>4 DEF FreeApart

\* When neither neighbour of the exception is free, there is none.
LEMMA ApartEverywhere ==
    ASSUME NEW h, NEW end \in Nat, WellFormed(h, end), NEW b \in Headers(h), FreeApart(h, b),
           h[b].next = Null \/ h[h[b].next].state = Allocated,
           h[b].prev = Null \/ h[h[b].prev].state = Allocated
    PROVE  FreeApart(h, Null)
<1>1. Free # Allocated
    BY DEF Free, Allocated
<1>2. ASSUME NEW c \in Headers(h), h[c].state = Free, h[c].next # Null
      PROVE  h[h[c].next].state = Allocated
    <2>1. CASE c = b
        BY <1>2, <2>1
    <2>2. CASE h[c].next = b
        <3>1. h[b].prev = c /\ c # Null
            BY <1>2, <2>2, NextFacts, BlockFacts
        <3> QED BY <1>1, <1>2, <3>1
    <2>3. CASE c # b /\ h[c].next # b
        BY <1>2, <2>3 DEF FreeApart
    <2> QED BY <2>1, <2>2, <2>3
<1> QED BY <1>2 DEF FreeApart

-----------------------------------------------------------------------------
\* What is allocated.

AllocatedIn(h) == {<<c, h[c].size>> : c \in {b \in Headers(h) : h[b].state = Allocated}}

\* Two heaps in which each block allocated in one is in the other, with its size,
\* have the same allocated blocks.
LEMMA AllocatedSame ==
    ASSUME NEW h, NEW g,
           \A c \in Headers(g) : g[c].state = Allocated
              => c \in Headers(h) /\ h[c].state = Allocated /\ h[c].size = g[c].size,
           \A c \in Headers(h) : h[c].state = Allocated
              => c \in Headers(g) /\ g[c].state = Allocated /\ g[c].size = h[c].size
    PROVE  AllocatedIn(g) = AllocatedIn(h)
BY DEF AllocatedIn

\* merge_with_next joins free blocks only.
LEMMA MergeAllocated ==
    ASSUME NEW h, NEW end \in Nat, WellFormed(h, end), NEW b \in Headers(h), h[b].state = Free,
           NEW n \in Headers(h), n = h[b].next, h[n].state = Free, NEW g, g = Merge(h, b)
    PROVE  AllocatedIn(g) = AllocatedIn(h)
<1>1. /\ Headers(g) = Headers(h) \ {n} /\ g[b].state = h[b].state
      /\ \A c \in Headers(h) \ {b, n} : g[c].state = h[c].state /\ g[c].size = h[c].size
    BY MergeFields
<1>2. Free # Allocated
    BY DEF Free, Allocated
<1> QED BY <1>1, <1>2, AllocatedSame

\* split_block divides a free block and touches no allocated one.
LEMMA SplitAllocated ==
    ASSUME NEW h, NEW end \in Nat, WellFormed(h, end), end <= Start + MaxSize,
           NEW b \in Headers(h), NEW size \in Nat, size >= Alignment, h[b].state = Free,
           ~(h[b].size - size < HeaderSize + Alignment), NEW g, g = Split(h, b, size)
    PROVE  AllocatedIn(g) = AllocatedIn(h)
<1>0. PICK new : new = Payload(b) + size
    OBVIOUS
<1>1. /\ Headers(g) = Headers(h) \cup {new} /\ g[b].state = h[b].state /\ g[new].state = Free
      /\ \A c \in Headers(h) \ {b} : g[c].state = h[c].state /\ g[c].size = h[c].size
    BY <1>0, SplitFields
<1>2. Free # Allocated
    BY DEF Free, Allocated
<1> QED BY <1>1, <1>2, AllocatedSame

\* Growing the heap adds free bytes at its end and touches no allocated block.
LEMMA ExtendedAllocated ==
    ASSUME NEW h, NEW end \in Nat, WellFormed(h, end), NEW t \in Headers(h), h[t].next = Null,
           NEW bytes \in Nat, bytes % Alignment = 0, bytes >= HeaderSize + Alignment,
           end + bytes <= Start + MaxSize, NEW g, g = Extended(h, t, end, bytes)
    PROVE  AllocatedIn(g) = AllocatedIn(h)
<1>1. Free # Allocated
    BY DEF Free, Allocated
<1>2. CASE h[t].state = Free
    <2>1. bytes \in Nat \ {0}
        BY HeapNumbers
    <2>2. /\ Headers(g) = Headers(h)
          /\ \A c \in Headers(h) : /\ g[c].state = h[c].state
                                   /\ c # t => g[c].size = h[c].size
        BY <1>2, <2>1, LastGrows
    <2> QED BY <1>1, <1>2, <2>2, AllocatedSame
<1>3. CASE h[t].state # Free
    <2>1. /\ Headers(g) = Headers(h) \cup {end} /\ g[end].state = Free
          /\ \A c \in Headers(h) : g[c].state = h[c].state /\ g[c].size = h[c].size
        BY <1>3, BlockAppended
    <2> QED BY <1>1, <2>1, AllocatedSame
<1> QED BY <1>2, <1>3

\* A block that changes hands is the only one.
LEMMA MarkedAllocated ==
    ASSUME NEW h, NEW end \in Nat, WellFormed(h, end), NEW b \in Headers(h),
           NEW s \in {Free, Allocated}, NEW g, g = Marked(h, b, s)
    PROVE  (AllocatedIn(h) \ AllocatedIn(g)) \cup (AllocatedIn(g) \ AllocatedIn(h))
              \subseteq {<<b, h[b].size>>}
<1>1. /\ Headers(g) = Headers(h)
      /\ \A a \in Addresses : /\ g[a].size = h[a].size
                              /\ g[a].state = IF a = b THEN s ELSE h[a].state
    BY StateFields
<1>2. Headers(h) \subseteq Addresses
    BY DEF Headers
<1>3. ASSUME NEW c \in Headers(h), c # b PROVE g[c].state = h[c].state /\ g[c].size = h[c].size
    BY <1>1, <1>2, <1>3
<1>4. g[b].size = h[b].size
    BY <1>1, <1>2
<1>5. ASSUME NEW x \in AllocatedIn(h), x \notin AllocatedIn(g) PROVE x = <<b, h[b].size>>
    <2>1. PICK c \in Headers(h) : h[c].state = Allocated /\ x = <<c, h[c].size>>
        BY <1>5 DEF AllocatedIn
    <2>2. c # b => x \in AllocatedIn(g)
        BY <1>1, <1>3, <2>1 DEF AllocatedIn
    <2> QED BY <1>5, <2>1, <2>2
<1>6. ASSUME NEW x \in AllocatedIn(g), x \notin AllocatedIn(h) PROVE x = <<b, h[b].size>>
    <2>1. PICK c \in Headers(h) : g[c].state = Allocated /\ x = <<c, g[c].size>>
        BY <1>1, <1>6 DEF AllocatedIn
    <2>2. c # b => x \in AllocatedIn(h)
        BY <1>1, <1>3, <2>1 DEF AllocatedIn
    <2> QED BY <1>4, <1>6, <2>1, <2>2
<1> QED BY <1>5, <1>6

-----------------------------------------------------------------------------
\* Operations.

\* One block at most changes hands.
OneChange(h, g) ==
    \E x : (AllocatedIn(h) \ AllocatedIn(g)) \cup (AllocatedIn(g) \ AllocatedIn(h)) \subseteq {x}

\* A free block of sufficient size is given out.
LEMMA TakeKeeps ==
    ASSUME NEW h, NEW end \in Nat, WellFormed(h, end), end <= Start + MaxSize,
           FreeApart(h, Null), NEW b \in Headers(h), h[b].state = Free,
           NEW size \in Nat, size >= Alignment, size % Alignment = 0,
           NEW g, g = Take(h, b, size)
    PROVE  WellFormed(g, end) /\ FreeApart(g, Null) /\ OneChange(h, g)
<1>0. Free # Allocated /\ Allocated \in {Free, Allocated}
    BY DEF Free, Allocated
<1>1. PICK mid : mid = Split(h, b, size)
    OBVIOUS
<1>2. g = Marked(mid, b, Allocated)
    BY <1>1 DEF Take, Marked
<1>3. /\ WellFormed(mid, end) /\ b \in Headers(mid) /\ AllocatedIn(mid) = AllocatedIn(h)
      /\ \A c \in Headers(mid) :
            (c # b /\ mid[c].state = Free /\ mid[c].next # Null /\ mid[c].next # b)
               => mid[mid[c].next].state = Allocated
    <2>1. CASE h[b].size - size < HeaderSize + Alignment
        <3>1. mid = h
            BY <1>1, <2>1 DEF Split
        <3>2. \A c \in Headers(h) : c # Null
            BY BlockFacts
        <3> QED BY <3>1, <3>2 DEF FreeApart
    <2>2. CASE ~(h[b].size - size < HeaderSize + Alignment)
        <3>1. WellFormed(mid, end)
            BY <1>1, <2>2, SplitWellFormed
        <3>2. AllocatedIn(mid) = AllocatedIn(h)
            BY <1>1, <2>2, SplitAllocated
        <3>3. PICK new : new = Payload(b) + size
            OBVIOUS
        <3>4. /\ Headers(mid) = Headers(h) \cup {new}
              /\ mid[b].state = h[b].state /\ mid[new].next = h[b].next
              /\ \A c \in Headers(h) \ {b} : /\ mid[c].state = h[c].state
                                             /\ mid[c].next = h[c].next
            BY <1>1, <2>2, <3>3, SplitFields
        <3>5. ASSUME NEW c \in Headers(mid), c # b, mid[c].state = Free,
                     mid[c].next # Null, mid[c].next # b
              PROVE  mid[mid[c].next].state = Allocated
            <4>1. PICK o \in Headers(h) : h[o].state = Free /\ mid[c].next = h[o].next
                BY <3>4, <3>5
            <4>2. h[h[o].next].state = Allocated
                <5>1. o # Null
                    BY BlockFacts
                <5> QED BY <3>5, <4>1, <5>1 DEF FreeApart
            <4>3. h[o].next \in Headers(h) \ {b}
                BY <3>5, <4>1, NextFacts
            <4> QED BY <3>4, <4>1, <4>2, <4>3
        <3> QED BY <3>1, <3>2, <3>4, <3>5
    <2> QED BY <2>1, <2>2
<1>4. WellFormed(g, end)
    BY <1>0, <1>2, <1>3, StateWellFormed
<1>5. OneChange(h, g)
    <2>1. (AllocatedIn(mid) \ AllocatedIn(g)) \cup (AllocatedIn(g) \ AllocatedIn(mid))
              \subseteq {<<b, mid[b].size>>}
        BY <1>0, <1>2, <1>3, MarkedAllocated
    <2> QED BY <1>3, <2>1, Zenon DEF OneChange
<1>6. FreeApart(g, Null)
    <2>1. /\ Headers(g) = Headers(mid)
          /\ \A a \in Addresses : /\ g[a].next = mid[a].next
                                  /\ g[a].state = IF a = b THEN Allocated ELSE mid[a].state
        BY <1>0, <1>2, <1>3, StateFields
    <2>2. Headers(mid) \subseteq Addresses
        BY DEF Headers
    <2>3. ASSUME NEW c \in Headers(mid), g[c].state = Free, g[c].next # Null
          PROVE  g[g[c].next].state = Allocated
        <3>1. c # b /\ mid[c].state = Free /\ g[c].next = mid[c].next
            BY <1>0, <2>1, <2>2, <2>3
        <3>2. mid[c].next \in Headers(mid)
            BY <1>3, <2>3, <3>1, NextFacts
        <3>3. CASE mid[c].next = b
            BY <2>1, <2>2, <3>1, <3>2, <3>3
        <3>4. CASE mid[c].next # b
            BY <1>3, <2>1, <2>2, <2>3, <3>1, <3>2, <3>4
        <3> QED BY <3>3, <3>4
    <2> QED BY <2>1, <2>3 DEF FreeApart
<1> QED BY <1>4, <1>5, <1>6

\* The sizes that are asked for, as align_request rounds them.
LEMMA AlignedFacts ==
    ASSUME NEW size \in Nat, size > 0
    PROVE  /\ Aligned(size) \in Nat /\ Aligned(size) >= Alignment
           /\ Aligned(size) % Alignment = 0
<1>1. PICK d \in Nat \ {0} : d = Alignment
    BY HeapNumbers
<1>2. PICK x \in Nat : x = size + d - 1
    BY <1>1
<1>3. PICK q \in Nat : q = x \div d /\ x < q * d + d
    BY <1>1, <1>2, Quotient
<1>4. q # 0
    BY <1>1, <1>2, <1>3
<1>5. 1 * d <= q * d
    BY <1>1, <1>3, <1>4, ProductMonotone
<1>6. (q * d + 0) % d = 0
    BY <1>1, <1>3, DivisionUnique
<1>7. Aligned(size) = q * d
    BY <1>1, <1>2, <1>3 DEF Aligned
<1>8. q * d \in Nat /\ q * d + 0 = q * d
    BY <1>1, <1>3
<1> QED BY <1>1, <1>5, <1>6, <1>7, <1>8

\* Rounding up to whole pages loses nothing.
LEMMA PagesFacts ==
    ASSUME NEW required \in Nat \ {0}, NEW n, n = (required + HeapPageSize - 1) \div HeapPageSize
    PROVE  n \in Nat /\ n >= 1 /\ n * HeapPageSize >= required
<1>1. PICK d \in Nat \ {0} : d = HeapPageSize
    BY HeapNumbers
<1>2. PICK x \in Nat : x = required + d - 1
    BY <1>1
<1>3. PICK q \in Nat : q = x \div d /\ x < q * d + d
    BY <1>1, <1>2, Quotient
<1>4. n = q
    BY <1>1, <1>2, <1>3
<1>5. q * d >= required
    BY <1>1, <1>2, <1>3
<1>6. q # 0
    BY <1>1, <1>2, <1>3
<1> QED BY <1>1, <1>3, <1>4, <1>5, <1>6

\* The first block that fits.
LEMMA FirstFit ==
    ASSUME NEW h, NEW end \in Nat, WellFormed(h, end), end <= Start + MaxSize,
           NEW size \in Nat, Fits(h, size) # {}
    PROVE  LET k == First(Fits(h, size))
           IN  /\ List(h)[k] \in Headers(h) /\ h[List(h)[k]].state = Free
               /\ WalkValid(h, end, k)
<1>1. PICK n \in Nat \ {0} : /\ DOMAIN List(h) = 1 .. n
                             /\ \A j \in 1 .. n : List(h)[j] \in Headers(h)
    BY ListFacts
<1>2. Fits(h, size) = {j \in 1 .. n : h[List(h)[j]].state = Free /\ h[List(h)[j]].size >= size}
    BY <1>1 DEF Fits
<1>3. Fits(h, size) \in SUBSET Nat
    BY <1>2
<1>4. \E x \in Fits(h, size) : \A y \in Fits(h, size) : x <= y
    BY <1>3, LeastElement
<1>5. First(Fits(h, size)) \in Fits(h, size)
    BY <1>4 DEF First
<1>6. PICK k \in 1 .. n : /\ k = First(Fits(h, size)) /\ List(h)[k] \in Headers(h)
                          /\ h[List(h)[k]].state = Free
    BY <1>1, <1>2, <1>5, Zenon
<1>7. WalkValid(h, end, k)
    <2>1. ASSUME NEW j \in 1 .. k PROVE Valid(h, end, List(h)[j])
        BY <1>1, <1>6, BlocksValid
    <2> QED BY <2>1 DEF WalkValid
<1> QED BY <1>6, <1>7

\* Where the heap ends.
LEMMA EndFacts ==
    ASSUME NEW p \in 1 .. HeapMaxPages, NEW end, end = Start + p * HeapPageSize
    PROVE  end \in Nat /\ end <= Start + MaxSize
<1>1. PICK d \in Nat, m \in Nat, s \in Nat : d = HeapPageSize /\ m = HeapMaxPages /\ s = Start
    BY HeapNumbers
<1>2. p \in Nat /\ p <= m
    BY <1>1
<1>3. p * d <= m * d
    BY <1>1, <1>2, ProductMonotone
<1>4. p * d \in Nat /\ m * d \in Nat
    BY <1>1, <1>2
<1> QED BY <1>1, <1>3, <1>4 DEF MaxSize

\* grow_heap: afterwards there is a block that fits.
LEMMA GrowthKeeps ==
    ASSUME NEW p \in 1 .. HeapMaxPages, NEW end, end = Start + p * HeapPageSize,
           NEW h, WellFormed(h, end), FreeApart(h, Null),
           NEW size \in Nat, size >= Alignment, Fits(h, size) = {},
           NEW n, n = Growth(h, size), p + n <= HeapMaxPages,
           NEW g, g = Extended(h, HeapTail(h), end, n * HeapPageSize),
           NEW end2, end2 = Start + (p + n) * HeapPageSize
    PROVE  /\ n \in Nat /\ p + n \in 1 .. HeapMaxPages
           /\ WalkValid(h, end, Len(List(h)))
           /\ WellFormed(g, end2) /\ FreeApart(g, Null) /\ AllocatedIn(g) = AllocatedIn(h)
           /\ Fits(g, size) # {}
<1>1. end \in Nat /\ end <= Start + MaxSize
    BY EndFacts
<1>2. PICK len \in Nat \ {0} : /\ DOMAIN List(h) = 1 .. len /\ Len(List(h)) = len
                               /\ \A k \in 1 .. len : List(h)[k] \in Headers(h)
                               /\ h[List(h)[len]].next = Null
    BY <1>1, ListFacts
<1>3. PICK t \in Headers(h) : t = HeapTail(h) /\ t = List(h)[len] /\ h[t].next = Null
    BY <1>2, SMTT(30) DEF HeapTail
<1>4. WalkValid(h, end, Len(List(h)))
    BY <1>1, <1>2, BlocksValid, SMTT(30) DEF WalkValid
<1>5. Free # Allocated /\ h[t].state \in {Free, Allocated} /\ h[t].size \in Nat
    BY <1>1, BlockLinks, BlockFacts, SMTT(30) DEF Free, Allocated
<1>6. h[t].state = Free => h[t].size < size
    <2>1. h[t].state = Free /\ h[t].size >= size => len \in Fits(h, size)
        BY <1>2, <1>3 DEF Fits
    <2> QED BY <1>5, <2>1, SMTT(30)
<1>7. PICK required \in Nat \ {0} :
          /\ required = IF h[t].state = Free THEN size - h[t].size ELSE size + HeaderSize
    BY <1>5, <1>6, HeapNumbers
<1>8. n \in Nat /\ n >= 1 /\ n * HeapPageSize >= required
    <2>1. n = (required + HeapPageSize - 1) \div HeapPageSize
        BY <1>3, <1>7, Zenon DEF Growth
    <2> QED BY <2>1, PagesFacts, SMTT(30)
<1>9. p + n \in 1 .. HeapMaxPages
    BY <1>8, HeapNumbers
<1>10. end2 \in Nat /\ end2 <= Start + MaxSize
    BY <1>9, EndFacts
<1>11. PICK bytes \in Nat : /\ bytes = n * HeapPageSize /\ end2 = end + bytes
                            /\ bytes >= required /\ bytes >= HeaderSize + Alignment
    <2>1. PICK d \in Nat, s \in Nat : d = HeapPageSize /\ s = Start
        BY HeapNumbers
    <2>2. n * d \in Nat /\ s + (p + n) * d = (s + p * d) + n * d
        BY <1>8, <2>1
    <2>3. 1 * d <= n * d
        BY <1>8, <2>1, ProductMonotone
    <2>4. d >= HeaderSize + Alignment /\ HeaderSize + Alignment \in Nat
        BY <2>1, HeapNumbers
    <2>5. n * d >= HeaderSize + Alignment
        BY <2>1, <2>2, <2>3, <2>4
    <2> QED BY <1>8, <2>1, <2>2, <2>5
<1>12. bytes % Alignment = 0
    BY <1>8, <1>11, HeapNumbers, MultipleOfMultiple, Zenon
<1>13. g = Extended(h, t, end, bytes)
    BY <1>3, <1>11, SMTT(30)
<1>14. AllocatedIn(g) = AllocatedIn(h)
    BY <1>1, <1>3, <1>10, <1>11, <1>12, <1>13, ExtendedAllocated
<1>15. ASSUME WellFormed(g, end2), NEW x \in Headers(g), g[x].state = Free, g[x].size >= size
       PROVE  Fits(g, size) # {}
    <2>1. PICK m \in Nat \ {0} : /\ DOMAIN List(g) = 1 .. m
                                 /\ \A b \in Headers(g) : \E k \in 1 .. m : List(g)[k] = b
        BY <1>10, <1>15, ListFacts, SMTT(30)
    <2>2. PICK k \in 1 .. m : List(g)[k] = x
        BY <1>15, <2>1
    <2>3. k \in Fits(g, size)
        BY <1>15, <2>1, <2>2, SMTT(30) DEF Fits
    <2> QED BY <2>3, SMTT(30)
<1>16. CASE h[t].state = Free
    <2>1. bytes \in Nat \ {0}
        BY <1>7, <1>11, SMTT(30)
    <2>2. /\ WellFormed(g, end + bytes) /\ Headers(g) = Headers(h)
          /\ g[t].size = h[t].size + bytes
          /\ \A c \in Headers(h) : /\ g[c].next = h[c].next /\ g[c].state = h[c].state
                                   /\ c # t => g[c].size = h[c].size
        <3>1. end \in Nat /\ h[t].next = Null
            BY <1>1, <1>3
        <3> QED BY <1>12, <1>13, <1>16, <2>1, <3>1, LastGrows, SMTT(30)
    <2>3. g[t].size >= size
        BY <1>5, <1>7, <1>11, <1>16, <2>2, SMTT(30)
    <2>4. Fits(g, size) # {}
        BY <1>11, <1>15, <1>16, <2>2, <2>3, SMTT(30)
    <2>5. FreeApart(g, Null)
        <3>1. ASSUME NEW c \in Headers(h), h[c].next # Null PROVE h[c].next \in Headers(h)
            BY <1>1, <3>1, NextFacts, SMTT(30)
        <3> QED BY <2>2, <3>1, SMTT(30) DEF FreeApart
    <2> QED BY <1>4, <1>8, <1>9, <1>11, <1>14, <2>2, <2>4, <2>5, SMTT(30)
<1>17. CASE h[t].state # Free
    <2>1. /\ WellFormed(g, end + bytes) /\ Headers(g) = Headers(h) \cup {end}
          /\ g[end].size = bytes - HeaderSize /\ g[end].state = Free /\ g[end].next = Null
          /\ \A c \in Headers(h) : /\ c # t => g[c].next = h[c].next
                                   /\ g[c].state = h[c].state
        BY <1>1, <1>3, <1>10, <1>11, <1>12, <1>13, <1>17, BlockAppended, SMTT(30)
    <2>2. g[end].size >= size
        BY <1>7, <1>11, <1>17, <2>1, HeapNumbers
    <2>3. Fits(g, size) # {}
        BY <1>11, <1>15, <2>1, <2>2
    <2>4. FreeApart(g, Null)
        <3>1. ASSUME NEW c \in Headers(h), h[c].next # Null PROVE h[c].next \in Headers(h)
            BY <1>1, <3>1, NextFacts
        <3> QED BY <1>17, <2>1, <3>1 DEF FreeApart
    <2> QED BY <1>4, <1>8, <1>9, <1>11, <1>14, <2>1, <2>3, <2>4, Zenon
<1> QED BY <1>16, <1>17

\* merge_with_next of a free block, whatever lies behind it.
LEMMA MergeKeeps ==
    ASSUME NEW h, NEW end \in Nat, WellFormed(h, end), NEW b \in Headers(h), FreeApart(h, b),
           h[b].state = Free, NEW g, g = Merge(h, b)
    PROVE  /\ WellFormed(g, end) /\ FreeApart(g, b) /\ AllocatedIn(g) = AllocatedIn(h)
           /\ g[b].next = Null \/ g[g[b].next].state = Allocated
           /\ b \in Headers(g) /\ g[b].state = Free /\ g[b].prev = h[b].prev
           /\ \A c \in Headers(h) : c < b => c \in Headers(g) /\ g[c].state = h[c].state
<1>1. CASE h[b].next = Null
    <2>1. g = h
        BY <1>1 DEF Merge
    <2> QED BY <1>1, <2>1
<1>2. CASE h[b].next # Null /\ h[h[b].next].state # Free
    <2>1. g = h
        BY <1>2 DEF Merge
    <2>2. h[b].next \in Headers(h)
        BY <1>2, NextFacts
    <2>3. h[h[b].next].state = Allocated
        BY <1>2, <2>2, BlockLinks
    <2> QED BY <2>1, <2>3
<1>3. CASE h[b].next # Null /\ h[h[b].next].state = Free
    <2>1. PICK n \in Headers(h) : n = h[b].next /\ b < n /\ h[n].state = Free
        BY <1>3, NextFacts
    <2>2. WellFormed(g, end)
        BY <2>1, MergeWellFormed
    <2>3. FreeApart(g, b) /\ (g[b].next = Null \/ g[g[b].next].state = Allocated)
        BY <2>1, MergeApart
    <2>4. AllocatedIn(g) = AllocatedIn(h)
        BY <2>1, MergeAllocated
    <2>5. /\ Headers(g) = Headers(h) \ {n}
          /\ g[b].prev = h[b].prev /\ g[b].state = h[b].state
          /\ \A c \in Headers(h) \ {b, n} :
                /\ g[c].state = h[c].state /\ g[c].next = h[c].next
                /\ g[c].prev = IF c = h[n].next THEN b ELSE h[c].prev
        BY <2>1, MergeFields
    <2>6. ASSUME NEW c \in Headers(h), c < b
          PROVE  c \in Headers(h) \ {b, n} /\ c # h[n].next
        <3>1. c \in Nat /\ b \in Nat /\ n \in Nat
            BY BlockFacts
        <3>2. h[n].next # Null => h[n].next \in Nat /\ n < h[n].next
            BY NextFacts
        <3>3. c # Null
            BY BlockFacts
        <3> QED BY <2>1, <2>6, <3>1, <3>2, <3>3
    <2>7. b \in Headers(g)
        <3>1. b \in Nat /\ n \in Nat
            BY BlockFacts
        <3> QED BY <2>1, <2>5, <3>1
    <2> QED BY <2>2, <2>3, <2>4, <2>5, <2>6, <2>7
<1> QED BY <1>1, <1>2, <1>3, Zenon

\* The block that prev names lies below, and its next leads back.
LEMMA PrevFacts ==
    ASSUME NEW h, NEW end \in Nat, WellFormed(h, end), NEW b \in Headers(h), h[b].prev # Null
    PROVE  /\ h[b].prev \in Headers(h) /\ h[b].prev \in Nat /\ h[b].prev < b
           /\ h[h[b].prev].next = b
<1>1. PICK p \in Headers(h) : p = h[b].prev /\ After(h, p) = b
    BY BlockLinks
<1>2. p \in Nat /\ b \in Nat /\ p < b /\ b < After(h, b) /\ After(h, b) <= end /\ After(h, b) \in Nat
    BY <1>1, BlockFacts
<1>3. After(h, p) # end
    BY <1>1, <1>2
<1>4. h[p].next = b
    BY <1>1, <1>3, BlockLinks
<1> QED BY <1>1, <1>2, <1>4

\* kfree: the block is free and merged with the free blocks next to it, all the
\* headers that coalesce looks at on the way are in order, and no two free
\* blocks are left side by side.
LEMMA FreeKeeps ==
    ASSUME NEW h, NEW end \in Nat, WellFormed(h, end), FreeApart(h, Null),
           NEW b \in Headers(h), h[b].state = Allocated,
           NEW f, f = Marked(h, b, Free), NEW g, g = Coalesce(f, b)
    PROVE  WellFormed(g, end) /\ FreeApart(g, Null) /\ OneChange(h, g) /\ CoalesceValid(f, end, b)
<1>0. Free # Allocated /\ Free \in {Free, Allocated}
    BY DEF Free, Allocated
<1>1. /\ WellFormed(f, end) /\ Headers(f) = Headers(h)
      /\ \A a \in Addresses : /\ f[a].next = h[a].next
                              /\ f[a].state = IF a = b THEN Free ELSE h[a].state
    BY <1>0, StateWellFormed, StateFields
<1>2. b \in Headers(f) /\ f[b].state = Free
    BY <1>1 DEF Headers
<1>3. FreeApart(f, b)
    <2>1. ASSUME NEW c \in Headers(h), c # b, f[c].state = Free, f[c].next # Null, f[c].next # b
          PROVE  f[f[c].next].state = Allocated
        <3>1. c \in Addresses /\ c # Null
            BY BlockFacts
        <3>2. f[c].next = h[c].next /\ h[c].state = Free
            BY <1>1, <2>1, <3>1, SMTT(30)
        <3>3. h[c].next \in Headers(h) /\ h[c].next \in Addresses
            BY <2>1, <3>2, NextFacts, BlockFacts, SMTT(30)
        <3>4. h[h[c].next].state = Allocated
            BY <2>1, <3>1, <3>2 DEF FreeApart
        <3> QED BY <1>1, <2>1, <3>2, <3>3, <3>4
    <2> QED BY <1>1, <2>1 DEF FreeApart
<1>4. PICK w : w = Merge(f, b)
    OBVIOUS
<1>5. /\ WellFormed(w, end) /\ FreeApart(w, b) /\ AllocatedIn(w) = AllocatedIn(f)
      /\ w[b].next = Null \/ w[w[b].next].state = Allocated
      /\ b \in Headers(w) /\ w[b].state = Free /\ w[b].prev = f[b].prev
      /\ \A c \in Headers(f) : c < b => c \in Headers(w) /\ w[c].state = f[c].state
    <2>1. WellFormed(f, end)
        BY <1>1, SMTT(30)
    <2> QED BY <1>2, <1>3, <1>4, <2>1, MergeKeeps
<1>6. f[b].prev # Null => /\ f[b].prev \in Headers(f) /\ f[b].prev < b
                          /\ f[b].prev \in Headers(w) /\ w[f[b].prev].state = f[f[b].prev].state
    BY <1>1, <1>2, <1>5, PrevFacts, Zenon
<1>7. CoalesceValid(f, end, b)
    <2>1. Valid(f, end, b) /\ Valid(w, end, b)
        BY <1>1, <1>2, <1>5, BlocksValid, SMTT(30)
    <2>2. f[b].next # Null => Valid(f, end, f[b].next)
        BY <1>1, <1>2, NextFacts, BlocksValid, SMTT(30)
    <2>3. w[b].prev # Null => Valid(w, end, w[b].prev)
        BY <1>5, <1>6, BlocksValid, Zenon
    <2> QED BY <1>4, <2>1, <2>2, <2>3, SMTT(30) DEF CoalesceValid
<1>8. /\ WellFormed(g, end) /\ FreeApart(g, Null) /\ AllocatedIn(g) = AllocatedIn(f)
    <2>1. CASE ~(f[b].prev # Null /\ f[f[b].prev].state = Free)
        <3>1. g = w
            BY <1>4, <2>1, SMTT(30) DEF Coalesce
        <3>2. w[b].prev = Null \/ w[w[b].prev].state = Allocated
            <4>1. f[b].prev # Null => w[f[b].prev].state \in {Free, Allocated}
                BY <1>5, <1>6, BlockLinks, Zenon
            <4> QED BY <1>5, <1>6, <2>1, <4>1, Zenon
        <3>3. FreeApart(w, Null)
            BY <1>5, <3>2, ApartEverywhere, Zenon
        <3> QED BY <1>5, <3>1, <3>3
    <2>2. CASE f[b].prev # Null /\ f[f[b].prev].state = Free
        <3>1. PICK p \in Headers(w) : /\ p = f[b].prev /\ p = w[b].prev /\ w[p].state = Free
                                      /\ p < b /\ p # Null /\ w[p].next = b
            <4>1. w[b].prev # Null
                BY <1>5, <2>2, Zenon
            <4>2. w[w[b].prev].next = b
                BY <1>5, <4>1, PrevFacts, SMTT(30)
            <4> QED BY <1>5, <1>6, <2>2, <4>2, Zenon
        <3>2. g = Merge(w, p)
            BY <1>4, <2>2, <3>1 DEF Coalesce
        <3>3. FreeApart(w, p)
            <4>1. ASSUME NEW c \in Headers(w), c # p, w[c].state = Free,
                         w[c].next # Null, w[c].next # p
                  PROVE  w[w[c].next].state = Allocated
                <5>1. w[c].next # b
                    <6>1. WellFormed(w, end)
                        BY <1>5
                    <6>2. w[w[c].next].prev = c
                        BY <4>1, <6>1, NextFacts
                    <6> QED BY <3>1, <4>1, <6>2, Zenon
                <5>2. CASE c = b
                    BY <1>5, <4>1, <5>2, SMTT(30)
                <5>3. CASE c # b
                    BY <1>5, <4>1, <5>1, <5>3, SMTT(30) DEF FreeApart
                <5> QED BY <5>2, <5>3
            <4> QED BY <4>1 DEF FreeApart
        <3>4. /\ WellFormed(g, end) /\ FreeApart(g, p) /\ AllocatedIn(g) = AllocatedIn(w)
              /\ g[p].next = Null \/ g[g[p].next].state = Allocated
              /\ p \in Headers(g) /\ g[p].state = Free /\ g[p].prev = w[p].prev
              /\ \A c \in Headers(w) : c < p => c \in Headers(g) /\ g[c].state = w[c].state
            <4>1. WellFormed(w, end) /\ w[p].state = Free
                BY <1>5, <3>1
            <4> QED BY <3>2, <3>3, <4>1, MergeKeeps, SMTT(30)
        <3>5. g[p].prev = Null \/ g[g[p].prev].state = Allocated
            <4> SUFFICES ASSUME w[p].prev # Null PROVE g[w[p].prev].state = Allocated
                BY <3>4
            <4>1. PICK q \in Headers(w) : q = w[p].prev /\ q \in Nat /\ q < p /\ w[q].next = p
                BY <1>5, PrevFacts, SMTT(30)
            <4>2. p \in Nat /\ b \in Nat
                BY <1>5, BlockFacts
            <4>3. q # b /\ p # b
                BY <3>1, <4>1, <4>2
            <4>4. w[q].state # Free
                BY <1>0, <1>5, <3>1, <4>1, <4>3, Zenon DEF FreeApart
            <4>5. w[q].state = Allocated
                <5>1. WellFormed(w, end)
                    BY <1>5
                <5>2. w[q].state \in {Free, Allocated}
                    BY <4>1, <5>1, BlockLinks, Zenon
                <5> QED BY <4>4, <5>2
            <4> QED BY <3>4, <4>1, <4>5, SMTT(30)
        <3>6. FreeApart(g, Null)
            BY <3>4, <3>5, ApartEverywhere, Zenon
        <3> QED BY <1>5, <3>4, <3>6, Zenon
    <2> QED BY <2>1, <2>2
<1>9. OneChange(h, g)
    <2>1. (AllocatedIn(h) \ AllocatedIn(f)) \cup (AllocatedIn(f) \ AllocatedIn(h))
              \subseteq {<<b, h[b].size>>}
        BY <1>0, MarkedAllocated
    <2>2. AllocatedIn(g) = AllocatedIn(f)
        BY <1>8
    <2>3. (AllocatedIn(h) \ AllocatedIn(g)) \cup (AllocatedIn(g) \ AllocatedIn(h))
              \subseteq {<<b, h[b].size>>}
        BY <2>1, <2>2
    <2> QED BY <2>3 DEF OneChange
<1> QED BY <1>7, <1>8, <1>9

-----------------------------------------------------------------------------
\* The heap.

\* heap_init leaves one free block of a page.
LEMMA HeapInitInv == HeapInit => HeapInv
<1> SUFFICES ASSUME HeapInit PROVE HeapInv
    OBVIOUS
<1>1. /\ pages = 1 /\ ~panic
      /\ header = [a \in Addresses |-> IF a = Start
                                       THEN NewBlock(HeapPageSize - HeaderSize, Null, Null)
                                       ELSE NoHeader]
    BY DEF HeapInit
<1>2. End = Start + HeapPageSize /\ 1 \in 1 .. HeapMaxPages
    BY <1>1, HeapNumbers DEF End
<1>3. End \in Nat /\ End <= Start + MaxSize
    BY <1>1, <1>2, EndFacts DEF End
<1>4. Start \in Addresses
    BY <1>2, <1>3, HeapNumbers DEF Addresses
<1>5. PICK s \in Nat : s = HeapPageSize - HeaderSize /\ s >= Alignment /\ s % Alignment = 0
    <2>1. HeapPageSize - HeaderSize \in Nat /\ HeapPageSize - HeaderSize >= Alignment
        BY HeapNumbers
    <2>2. PICK d \in Nat \ {0}, x \in Nat, y \in Nat :
              /\ d = Alignment /\ x = HeapPageSize /\ y = HeaderSize
              /\ x % d = 0 /\ y % d = 0 /\ y <= x
        BY HeapNumbers
    <2>3. (x - y) % d = 0
        BY <2>2, Multiples, Zenon
    <2> QED BY <2>1, <2>2, <2>3
<1>6. NewBlock(s, Null, Null) \in HeaderRecords /\ NoHeader \in HeaderRecords
    BY HeapNumbers DEF NewBlock, NoHeader, HeaderRecords
<1>7. header \in [Addresses -> HeaderRecords]
    BY <1>1, <1>5, <1>6, SMTT(30)
<1>8. Headers(header) = {Start}
    BY <1>1, <1>4, <1>5 DEF Headers, NewBlock, NoHeader
<1>9. /\ header[Start].size = s /\ header[Start].state = Free
      /\ header[Start].next = Null /\ header[Start].prev = Null
    BY <1>1, <1>4, <1>5 DEF NewBlock
<1>10. After(header, Start) = End
    BY <1>2, <1>5, <1>9, HeapNumbers DEF After, Payload
<1>11. WellFormed(header, End)
    BY <1>3, <1>5, <1>7, <1>8, <1>9, <1>10, WellFormedIf
<1>12. FreeApart(header, Null)
    BY <1>8, <1>9 DEF FreeApart
<1> QED BY <1>1, <1>2, <1>11, <1>12 DEF HeapInv

\* kmalloc and kfree keep the chain whole and change the owner of one block.
LEMMA HeapStep ==
    ASSUME HeapInv, HeapNext
    PROVE  HeapInv' /\ OneChange(header, header')
<1>1. /\ pages \in 1 .. HeapMaxPages /\ ~panic
      /\ WellFormed(header, End) /\ FreeApart(header, Null)
    BY DEF HeapInv
<1>2. End = Start + pages * HeapPageSize /\ End \in Nat /\ End <= Start + MaxSize
    BY <1>1, EndFacts DEF End
<1>3. ASSUME NEW size \in SizesRequested, Acceptable(size), KmallocFit(Aligned(size))
      PROVE  HeapInv' /\ OneChange(header, header')
    <2>1. PICK s \in Nat : s = Aligned(size) /\ s >= Alignment /\ s % Alignment = 0
        BY <1>3, HeapAssumption, AlignedFacts DEF Acceptable
    <2>2. PICK k : k = First(Fits(header, s))
        OBVIOUS
    <2>3. /\ Fits(header, s) # {} /\ pages' = pages
          /\ header' = Take(header, List(header)[k], s)
          /\ panic' = ~WalkValid(header, End, k)
        BY <1>3, <2>1, <2>2, SMTT(30) DEF KmallocFit
    <2>4. /\ List(header)[k] \in Headers(header) /\ header[List(header)[k]].state = Free
          /\ WalkValid(header, End, k)
        BY <1>1, <1>2, <2>2, <2>3, FirstFit, Zenon
    <2>5. WellFormed(header', End) /\ FreeApart(header', Null) /\ OneChange(header, header')
        BY <1>1, <1>2, <2>1, <2>3, <2>4, TakeKeeps, Zenon
    <2>6. End' = End
        BY <2>3 DEF End
    <2> QED BY <1>1, <2>3, <2>4, <2>5, <2>6, Zenon DEF HeapInv
<1>4. ASSUME NEW size \in SizesRequested, Acceptable(size), KmallocGrow(Aligned(size))
      PROVE  HeapInv' /\ OneChange(header, header')
    <2>1. PICK s \in Nat : s = Aligned(size) /\ s >= Alignment /\ s % Alignment = 0
        BY <1>4, HeapAssumption, AlignedFacts DEF Acceptable
    <2>2. PICK n : n = Growth(header, s)
        OBVIOUS
    <2>3. PICK h : h = Extended(header, HeapTail(header), End, n * HeapPageSize)
        OBVIOUS
    <2>4. PICK end : end = Start + (pages + n) * HeapPageSize
        OBVIOUS
    <2>5. PICK k : k = First(Fits(h, s))
        OBVIOUS
    <2>6. /\ Fits(header, s) = {} /\ pages + n <= HeapMaxPages /\ pages' = pages + n
          /\ header' = IF Fits(h, s) = {} THEN h ELSE Take(h, List(h)[k], s)
          /\ panic' = \/ ~WalkValid(header, End, Len(List(header)))
                      \/ Fits(h, s) = {}
                      \/ ~WalkValid(h, end, k)
        BY <1>4, <2>1, <2>2, <2>3, <2>4, <2>5, Zenon DEF KmallocGrow, Grown
    <2>7. /\ n \in Nat /\ pages + n \in 1 .. HeapMaxPages
          /\ WalkValid(header, End, Len(List(header)))
          /\ WellFormed(h, end) /\ FreeApart(h, Null) /\ AllocatedIn(h) = AllocatedIn(header)
          /\ Fits(h, s) # {}
        BY <1>1, <1>2, <2>1, <2>2, <2>3, <2>4, <2>6, GrowthKeeps
    <2>8. end \in Nat /\ end <= Start + MaxSize
        BY <2>4, <2>7, EndFacts
    <2>9. /\ List(h)[k] \in Headers(h) /\ h[List(h)[k]].state = Free /\ WalkValid(h, end, k)
        BY <2>1, <2>5, <2>7, <2>8, FirstFit, Zenon
    <2>10. WellFormed(header', end) /\ FreeApart(header', Null) /\ OneChange(h, header')
        BY <2>1, <2>6, <2>7, <2>8, <2>9, TakeKeeps, Zenon
    <2>11. End' = end
        BY <2>4, <2>6 DEF End
    <2>12. OneChange(header, header')
        BY <2>7, <2>10 DEF OneChange
    <2> QED BY <2>6, <2>7, <2>9, <2>10, <2>11, <2>12, Zenon DEF HeapInv
<1>5. ASSUME Kfree PROVE HeapInv' /\ OneChange(header, header')
    <2>1. PICK len \in Nat \ {0} : /\ DOMAIN List(header) = 1 .. len
                                   /\ \A k \in 1 .. len : List(header)[k] \in Headers(header)
        BY <1>1, <1>2, ListFacts
    <2>2. PICK k \in 1 .. len :
              LET b == List(header)[k]
                  freed == [header EXCEPT ![b].state = Free]
              IN  /\ header[b].state = Allocated
                  /\ header' = Coalesce(freed, b)
                  /\ panic' = ~(WalkValid(header, End, k) /\ CoalesceValid(freed, End, b))
        BY <1>5, <2>1 DEF Kfree
    <2>3. PICK b \in Headers(header) : b = List(header)[k]
        BY <2>1
    <2>4. PICK f : f = Marked(header, b, Free)
        OBVIOUS
    <2>5. /\ header[b].state = Allocated /\ header' = Coalesce(f, b)
          /\ panic' = ~(WalkValid(header, End, k) /\ CoalesceValid(f, End, b))
        BY <2>2, <2>3, <2>4, Zenon DEF Marked
    <2>6. /\ WellFormed(header', End) /\ FreeApart(header', Null)
          /\ OneChange(header, header') /\ CoalesceValid(f, End, b)
        BY <1>1, <1>2, <2>4, <2>5, FreeKeeps, Zenon
    <2>7. WalkValid(header, End, k)
        BY <1>1, <1>2, <2>1, BlocksValid DEF WalkValid
    <2>8. pages' = pages
        BY <1>5 DEF Kfree
    <2>9. End' = End
        BY <2>8 DEF End
    <2> QED BY <1>1, <2>5, <2>6, <2>7, <2>8, <2>9, Zenon DEF HeapInv
<1> QED BY <1>3, <1>4, <1>5 DEF HeapNext, Kmalloc

\* The invariant of the heap holds after any sequence of kmalloc and kfree.
LEMMA HeapInvAlways == HeapSpec => []HeapInv
<1>1. HeapInv /\ [HeapNext]_heapVars => HeapInv'
    <2>1. HeapInv /\ UNCHANGED heapVars => HeapInv'
        BY DEF HeapInv, heapVars, End
    <2> QED BY <2>1, HeapStep
<1> QED BY <1>1, HeapInitInv, PTL DEF HeapSpec

\* For all sizes of headers and pages, no sequence of kmalloc and kfree leads to
\* a panic of validate_block or of kmalloc: the list that each of them leaves is
\* in order, and growing yields a block that is large enough.
THEOREM HeapNeverPanics == HeapSpec => []NoHeapPanic
<1>1. HeapInv => NoHeapPanic
    BY DEF HeapInv, NoHeapPanic
<1> QED BY <1>1, HeapInvAlways, PTL

\* The list reaches every header.
LEMMA BlocksAreHeaders ==
    ASSUME NEW h, NEW end \in Nat, WellFormed(h, end), end <= Start + MaxSize
    PROVE  Blocks(h) = Headers(h)
<1>1. PICK n \in Nat \ {0} : /\ DOMAIN List(h) = 1 .. n
                             /\ \A k \in 1 .. n : List(h)[k] \in Headers(h)
                             /\ \A b \in Headers(h) : \E k \in 1 .. n : List(h)[k] = b
    BY ListFacts
<1> QED BY <1>1 DEF Blocks

\* kmalloc and kfree keep the heap covered by its blocks without a gap or an
\* overlap, and leave no two free blocks side by side, for all sizes.
THEOREM HeapStaysTiled == HeapSpec => []Tiled
<1>1. ASSUME HeapInv PROVE Tiled
    <2>1. /\ pages \in 1 .. HeapMaxPages
          /\ WellFormed(header, End) /\ FreeApart(header, Null)
        BY <1>1 DEF HeapInv
    <2>2. End \in Nat /\ End <= Start + MaxSize
        BY <2>1, EndFacts DEF End
    <2>3. Blocks(header) = Headers(header)
        BY <2>1, <2>2, BlocksAreHeaders
    <2>4. \A b \in Headers(header) : Valid(header, End, b) /\ b # Null
        BY <2>1, <2>2, BlocksValid, BlockFacts
    <2>5. \A b \in Headers(header) : (header[b].state = Free /\ header[b].next # Null)
                                        => header[header[b].next].state = Allocated
        BY <2>1, <2>4 DEF FreeApart
    <2> QED BY <2>3, <2>4, <2>5 DEF Tiled, Headers
<1> QED BY <1>1, HeapInvAlways, PTL

\* A step of the heap gives out or takes back one block at most, and every other
\* allocated block keeps its place and its size, also when its neighbours are
\* split or merged or the heap grows.
THEOREM AllocationsKept == HeapSpec => AllocationsStay
<1>1. ASSUME HeapInv, HeapInv', [HeapNext]_heapVars
      PROVE  [\A x, y \in (Owned \ Owned') \cup (Owned' \ Owned) : x = y]_heapVars
    <2> SUFFICES ASSUME HeapNext
                 PROVE  \A x, y \in (Owned \ Owned') \cup (Owned' \ Owned) : x = y
        BY <1>1
    <2>1. Blocks(header) = Headers(header)
        BY <1>1, EndFacts, BlocksAreHeaders DEF HeapInv, End
    <2>2. Blocks(header') = Headers(header')
        <3>1. /\ pages' \in 1 .. HeapMaxPages /\ WellFormed(header', End')
              /\ End' = Start + pages' * HeapPageSize
            BY <1>1 DEF HeapInv, End
        <3>2. End' \in Nat /\ End' <= Start + MaxSize
            BY <3>1, EndFacts
        <3> QED BY <3>1, <3>2, BlocksAreHeaders
    <2>3. Owned = AllocatedIn(header) /\ Owned' = AllocatedIn(header')
        BY <2>1, <2>2 DEF Owned, AllocatedIn
    <2>4. OneChange(header, header')
        BY <1>1, HeapStep
    <2>5. PICK z : (Owned \ Owned') \cup (Owned' \ Owned) \subseteq {z}
        BY <2>3, <2>4 DEF OneChange
    <2> QED BY <2>5
<1> QED BY <1>1, HeapInvAlways, PTL DEF HeapSpec, AllocationsStay
=============================================================================
