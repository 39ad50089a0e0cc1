------------------------ MODULE PhysicalMemoryProofs ------------------------
(***************************************************************************)
(* Proofs about PhysicalMemory for every memory map, kernel, page size and *)
(* number of pages: the kernel is loaded into usable memory, its Boot Info *)
(* is accepted, what is handed out is usable memory without a byte of the  *)
(* kernel, and the statistics add up.                                      *)
(***************************************************************************)
EXTENDS PhysicalMemory, FiniteSetTheorems, TLAPS

-----------------------------------------------------------------------------
\* Numbers.

\* A part of a bounded number, and what is left of it, have the same bound.
LEMMA PartAndRest ==
    ASSUME NEW bound \in Nat, NEW whole \in 0 .. bound, NEW part \in 0 .. whole
    PROVE  part \in 0 .. bound /\ whole - part \in 0 .. bound
  OBVIOUS

\* A sum of two residues needs at most one correction.
LEMMA ModSum ==
    ASSUME NEW m \in Nat \ {0}, NEW a \in 0 .. m - 1, NEW b \in 0 .. m - 1
    PROVE  /\ (a + b) % m \in 0 .. m - 1
           /\ (a + b) % m = IF a + b < m THEN a + b ELSE a + b - m
<1> DEFINE d == a + b
<1>1. d \in Nat /\ d < 2 * m
    OBVIOUS
<1> HIDE DEF d
<1>2. /\ d % m \in 0 .. m - 1
      /\ d % m = IF d < m THEN d ELSE d - m
    BY <1>1
<1> QED BY <1>2 DEF d

\* What a division leaves is smaller than the divisor.
LEMMA Quotient ==
    ASSUME NEW x \in Nat, NEW d \in Nat \ {0}
    PROVE  /\ x \div d \in Nat
           /\ (x \div d) * d <= x /\ x < (x \div d) * d + d
OBVIOUS

\* Multiplication by a natural number keeps the order.
LEMMA ProductMonotone ==
    ASSUME NEW a \in Nat, NEW b \in Nat, NEW d \in Nat, a <= b
    PROVE  a * d <= b * d
OBVIOUS

\* A non-empty set of naturals has a least element.
LEMMA LeastElement ==
    ASSUME NEW T \in SUBSET Nat, T # {}
    PROVE  \E x \in T : \A y \in T : x <= y
<1>1. PICK x \in T : \A y \in T : ~(<<y, x>> \in OpToRel(<, Nat))
    BY NatLessThanWellFounded, WFMin, Zenon
<1>2. \A y \in T : ~(y < x)
    BY <1>1, Zenon DEF OpToRel
<1> QED BY <1>2

\* A non-empty set of naturals with a bound has a greatest element.
LEMMA GreatestElement ==
    ASSUME NEW bound \in Nat, NEW T \in SUBSET (0 .. bound), T # {}
    PROVE  \E x \in T : \A y \in T : y <= x
<1> DEFINE U == {bound - y : y \in T}
<1>1. U \in SUBSET Nat /\ U # {}
    <2>1. \A y \in T : bound - y \in Nat
        OBVIOUS
    <2>2. U # {}
        BY Zenon
    <2> QED BY <2>1, <2>2, Zenon
<1>2. PICK u \in U : \A v \in U : u <= v
    BY <1>1, LeastElement, Zenon
<1>3. PICK x \in T : u = bound - x
    BY <1>2
<1>4. \A y \in T : bound - x <= bound - y
    BY <1>2, <1>3, Zenon
<1> QED BY <1>4

-----------------------------------------------------------------------------
(***************************************************************************)
(* Ranges and pages.                                                       *)
(***************************************************************************)

\* Whether the sum wraps or not, a range ends where it would without a limit to
\* the word, or at 4 GiB if that is less.
LEMMA EndOfResult ==
    ASSUME NEW base \in 0 .. WordModulus - 1, NEW length \in 0 .. WordModulus - 1,
           base < FourGiB
    PROVE  /\ EndOf(base, length) = IF base + length > FourGiB
                                    THEN FourGiB ELSE base + length
           /\ EndOf(base, length) \in 0 .. FourGiB
<1>1. FourGiB \in Nat /\ WordModulus \in Nat \ {0} /\ FourGiB < WordModulus
    BY PmmAssumption DEF FourGiB
<1>2. (base + length) % WordModulus = IF base + length < WordModulus
                                      THEN base + length ELSE base + length - WordModulus
    BY <1>1, ModSum, Zenon
<1> QED BY <1>1, <1>2 DEF EndOf

\* 4 GiB is a whole number of pages.
LEMMA LimitResult ==
    ASSUME NEW x \in 0 .. FourGiB
    PROVE  x \div PageSize \in 0 .. MaxPages
<1>1. PageSize \in Nat \ {0} /\ MaxPages \in Nat
    BY PmmAssumption
<1>2. x \in Nat /\ x <= MaxPages * PageSize
    BY <1>1 DEF FourGiB
<1> DEFINE q == x \div PageSize
<1>3. q \in Nat /\ q * PageSize <= x
    BY <1>1, <1>2, Quotient
<1> HIDE DEF q
<1>4. q <= MaxPages
    <2> SUFFICES ASSUME MaxPages + 1 <= q PROVE FALSE
        BY <1>1, <1>3
    <2>1. (MaxPages + 1) * PageSize <= q * PageSize
        BY <1>1, <1>3, ProductMonotone
    <2>2. (MaxPages + 1) * PageSize = MaxPages * PageSize + PageSize
        BY <1>1
    <2> DEFINE a == MaxPages * PageSize
               b == q * PageSize
    <2>3. a \in Nat /\ b \in Nat
        BY <1>1, <1>3
    <2> QED BY <1>1, <1>2, <1>3, <2>1, <2>2, <2>3
<1> QED BY <1>3, <1>4 DEF q

\* A page of a usable range is inside the range with all of its bytes.
LEMMA UsableRange ==
    ASSUME NEW base \in 0 .. WordModulus - 1, NEW length \in 0 .. WordModulus - 1
    PROVE  /\ RangeToPages(base, length)[2] \in 0 .. MaxPages
           /\ \A p \in PagesOf(RangeToPages(base, length)) :
                 /\ p \in AllPages
                 /\ \A a \in BytesOf(p) : base <= a /\ a < base + length
<1>1. PageSize \in Nat \ {0} /\ MaxPages \in Nat /\ FourGiB \in Nat /\ base \in Nat /\ length \in Nat
    BY PmmAssumption DEF FourGiB
<1>2. CASE RangeToPages(base, length) = NoRange
    BY <1>1, <1>2 DEF NoRange, PagesOf
<1>3. CASE RangeToPages(base, length) # NoRange
    <2> DEFINE first == (base + PageSize - 1) \div PageSize
               limit == EndOf(base, length) \div PageSize
    <2>1. base < FourGiB /\ RangeToPages(base, length) = <<first, limit>>
        BY <1>1, <1>3 DEF RangeToPages
    <2>2. EndOf(base, length) \in 0 .. FourGiB /\ EndOf(base, length) <= base + length
        BY <1>1, <2>1, EndOfResult
    <2>3. limit \in 0 .. MaxPages /\ limit * PageSize <= base + length
        <3>1. limit \in 0 .. MaxPages
            BY <2>2, LimitResult
        <3>2. limit * PageSize <= EndOf(base, length)
            BY <1>1, <2>2, Quotient
        <3> QED BY <1>1, <2>2, <3>1, <3>2
    <2>4. first \in Nat /\ base <= first * PageSize
        <3>1. base + PageSize - 1 \in Nat
            BY <1>1
        <3>2. first \in Nat /\ base + PageSize - 1 < first * PageSize + PageSize
            BY <1>1, <3>1, Quotient
        <3> HIDE DEF first
        <3>3. first * PageSize \in Nat
            BY <1>1, <3>2
        <3> QED BY <1>1, <3>2, <3>3
    <2> HIDE DEF first, limit
    <2>5. ASSUME NEW p \in first .. limit - 1
          PROVE  p \in AllPages /\ \A a \in BytesOf(p) : base <= a /\ a < base + length
        <3>1. p \in Nat /\ first <= p /\ p + 1 <= limit /\ p \in AllPages
            BY <1>1, <2>3, <2>4 DEF AllPages
        <3>2. first * PageSize <= p * PageSize /\ (p + 1) * PageSize <= limit * PageSize
            BY <1>1, <2>3, <2>4, <3>1, ProductMonotone
        <3>3. (p + 1) * PageSize = p * PageSize + PageSize
            BY <1>1, <3>1
        <3>4. p * PageSize \in Nat /\ first * PageSize \in Nat /\ limit * PageSize \in Nat
            BY <1>1, <2>3, <2>4, <3>1
        <3>5. base <= p * PageSize /\ p * PageSize + PageSize <= base + length
            BY <1>1, <2>3, <2>4, <3>2, <3>3, <3>4
        <3> QED BY <1>1, <3>1, <3>4, <3>5 DEF BytesOf
    <2> QED BY <2>1, <2>3, <2>5 DEF PagesOf
<1> QED BY <1>2, <1>3

\* A page that a reserved range does not take has no byte in the range.
LEMMA ReservedRange ==
    ASSUME NEW base \in 0 .. WordModulus - 1, NEW length \in 0 .. WordModulus - 1,
           NEW p \in AllPages \ ReserveRange(base, length), NEW a \in BytesOf(p)
    PROVE  ~(base <= a /\ a < base + length)
<1>1. /\ PageSize \in Nat \ {0} /\ MaxPages \in Nat /\ FourGiB \in Nat
      /\ base \in Nat /\ length \in Nat /\ p \in Nat /\ p + 1 <= MaxPages
    BY PmmAssumption DEF FourGiB, AllPages
<1>2. /\ p * PageSize \in Nat /\ (p + 1) * PageSize = p * PageSize + PageSize
      /\ (p + 1) * PageSize <= FourGiB
    <2>1. (p + 1) * PageSize <= MaxPages * PageSize
        BY <1>1, ProductMonotone
    <2> QED BY <1>1, <2>1 DEF FourGiB
<1>3. a \in Nat /\ p * PageSize <= a /\ a < p * PageSize + PageSize /\ a < FourGiB
    BY <1>1, <1>2 DEF BytesOf
<1>4. CASE length = 0 \/ base >= FourGiB
    BY <1>1, <1>3, <1>4
<1>5. CASE length # 0 /\ base < FourGiB
    <2> DEFINE end == EndOf(base, length)
               first == base \div PageSize
               ceiling == (end + PageSize - 1) \div PageSize
               limit == IF end = FourGiB THEN MaxPages ELSE ceiling
    <2>1. /\ end = IF base + length > FourGiB THEN FourGiB ELSE base + length
          /\ end \in 0 .. FourGiB
        BY <1>5, EndOfResult
    <2>2. p \notin first .. limit - 1
        BY <1>1, <1>5 DEF ReserveRange
    <2>3. first \in Nat /\ first * PageSize <= base
        BY <1>1, Quotient
    <2>4. ceiling \in Nat /\ end <= ceiling * PageSize
        <3> HIDE DEF end
        <3>1. end + PageSize - 1 \in Nat
            BY <1>1, <2>1
        <3>2. ceiling \in Nat /\ end + PageSize - 1 < ceiling * PageSize + PageSize
            BY <1>1, <3>1, Quotient
        <3> HIDE DEF ceiling
        <3>3. ceiling * PageSize \in Nat
            BY <1>1, <3>2
        <3> QED BY <1>1, <2>1, <3>2, <3>3
    <2> HIDE DEF end, first, ceiling
    <2>5. p + 1 <= first \/ (end # FourGiB /\ ceiling <= p)
        BY <1>1, <2>2, <2>3, <2>4
    <2>6. CASE p + 1 <= first
        <3>1. (p + 1) * PageSize <= first * PageSize
            BY <1>1, <2>3, <2>6, ProductMonotone
        <3>2. first * PageSize \in Nat
            BY <1>1, <2>3
        <3> QED BY <1>1, <1>2, <1>3, <2>3, <3>1, <3>2
    <2>7. CASE end # FourGiB /\ ceiling <= p
        <3>1. ceiling * PageSize <= p * PageSize
            BY <1>1, <2>4, <2>7, ProductMonotone
        <3>2. ceiling * PageSize \in Nat /\ end \in Nat
            BY <1>1, <2>1, <2>4
        <3> QED BY <1>1, <1>2, <1>3, <2>1, <2>4, <2>7, <3>1, <3>2
    <2> QED BY <2>5, <2>6, <2>7
<1> QED BY <1>1, <1>4, <1>5

-----------------------------------------------------------------------------
(***************************************************************************)
(* What pmm_init makes of a memory map.                                    *)
(***************************************************************************)
LEMMA EntryType ==
    ASSUME NEW es \in Seq(Entries)
    PROVE  EntrySet(es) \subseteq Entries
BY DEF EntrySet

\* A page that make_range_allocatable yields lies inside a usable entry.
LEMMA UsableResult ==
    ASSUME NEW es \in Seq(Entries), NEW p \in UsablePages(es)
    PROVE  /\ p \in AllPages
           /\ \E e \in EntrySet(es) : e.usable /\ \A a \in BytesOf(p) : Covers(e, a)
<1>1. PICK e \in EntrySet(es) : e.usable /\ p \in PagesOf(RangeToPages(e.base, e.length))
    BY Zenon DEF UsablePages
<1>2. e.base \in 0 .. WordModulus - 1 /\ e.length \in 0 .. WordModulus - 1
    BY EntryType, Zenon DEF Entries
<1>3. p \in AllPages /\ \A a \in BytesOf(p) : e.base <= a /\ a < e.base + e.length
    BY <1>1, <1>2, UsableRange, Zenon
<1> QED BY <1>1, <1>3, Zenon DEF Covers

\* A page that survives the reservations has no byte in low memory, in the kernel or
\* in an entry that is not usable.
LEMMA ReservedResult ==
    ASSUME NEW es \in Seq(Entries),
           NEW start \in 0 .. FourGiB - 1, NEW end \in 0 .. FourGiB - 1, start < end,
           NEW p \in AllPages \ ReservedPages(es, start, end), NEW a \in BytesOf(p)
    PROVE  /\ a >= LowEnd
           /\ ~(start <= a /\ a < end)
           /\ \A e \in EntrySet(es) : Covers(e, a) => e.usable
<1>1. /\ FourGiB \in Nat /\ WordModulus \in Nat /\ FourGiB < WordModulus /\ LowEnd \in 1 .. FourGiB
      /\ start \in 0 .. FourGiB - 1 /\ end \in 0 .. FourGiB - 1 /\ start < end
    BY PmmAssumption DEF FourGiB
<1>2. a \in Nat
    BY PmmAssumption DEF BytesOf, AllPages
<1>3. a >= LowEnd
    <2>1. p \notin ReserveRange(0, LowEnd)
        BY Zenon DEF ReservedPages
    <2>2. 0 \in 0 .. WordModulus - 1 /\ LowEnd \in 0 .. WordModulus - 1
        BY <1>1
    <2>3. ~(0 <= a /\ a < 0 + LowEnd)
        BY <2>1, <2>2, ReservedRange, Zenon
    <2> QED BY <1>1, <1>2, <2>3
<1>4. ~(start <= a /\ a < end)
    <2>1. p \notin ReserveRange(start, end - start)
        BY Zenon DEF ReservedPages
    <2>2. start \in 0 .. WordModulus - 1 /\ end - start \in 0 .. WordModulus - 1
        BY <1>1
    <2>3. ~(start <= a /\ a < start + (end - start))
        BY <2>1, <2>2, ReservedRange, Zenon
    <2> QED BY <1>1, <1>2, <2>3
<1>5. ASSUME NEW e \in EntrySet(es), Covers(e, a)
      PROVE  e.usable
    <2> SUFFICES ASSUME ~e.usable PROVE FALSE
        OBVIOUS
    <2>1. p \notin ReserveRange(e.base, e.length)
        BY Zenon DEF ReservedPages
    <2>2. e.base \in 0 .. WordModulus - 1 /\ e.length \in 0 .. WordModulus - 1
        BY EntryType, Zenon DEF Entries
    <2> QED BY <1>5, <2>1, <2>2, ReservedRange, Zenon DEF Covers
<1> QED BY <1>3, <1>4, <1>5

\* The highest page of the map is below the limit of the bitmaps.
LEMMA MaximumResult ==
    ASSUME NEW es \in Seq(Entries)
    PROVE  MaximumPage(es) \in 0 .. MaxPages
<1>1. MaxPages \in Nat
    BY PmmAssumption
<1>2. Limits(es) \subseteq 0 .. MaxPages
    <2>1. \A e \in EntrySet(es) : e.base \in 0 .. WordModulus - 1 /\ e.length \in 0 .. WordModulus - 1
        BY EntryType, Zenon DEF Entries
    <2>2. \A e \in EntrySet(es) : RangeToPages(e.base, e.length)[2] \in 0 .. MaxPages
        BY <2>1, UsableRange, Zenon
    <2>3. 0 \in 0 .. MaxPages
        BY <1>1
    <2> QED BY <2>2, <2>3, Zenon DEF Limits
<1>3. \E m \in Limits(es) : \A n \in Limits(es) : n <= m
    <2>1. Limits(es) # {}
        BY Zenon DEF Limits
    <2> QED BY <1>1, <1>2, <2>1, GreatestElement, Zenon
<1> QED BY <1>2, <1>3, Zenon DEF MaximumPage

-----------------------------------------------------------------------------
(***************************************************************************)
(* The inductive invariant.  While the kernel is loaded, every segment is  *)
(* where it may be, below lastEnd, and between kernelStart and kernelEnd;  *)
(* as long as the allocator runs, it allocates from what pmm_init found in *)
(* the memory map.                                                         *)
(***************************************************************************)
Placed(s) ==
    /\ s.start >= LowEnd /\ s.start + s.size <= lastEnd
    /\ kernelStart <= s.start /\ s.start + s.size <= kernelEnd

Progress ==
    /\ phase = "collect" => image = {}
    /\ phase \in {"load", "ready", "running"} => entries # <<>>
    /\ phase \in {"ready", "running"} => image # {}

KernelPlaced == ImageInUsableMemory /\ \A s \in image : Placed(s)

FromTheMap ==
    /\ phase = "running" =>
          allocatable = UsablePages(entries) \ ReservedPages(entries, kernelStart, kernelEnd)
    /\ phase # "running" => out = {}

Inv == TypeOK /\ Progress /\ KernelPlaced /\ StatsAddUp /\ FromTheMap

\* There are finitely many free pages, at most one for each bit.
LEMMA FreeFacts ==
    ASSUME NEW limit \in 0 .. MaxPages, NEW canUse \in SUBSET AllPages, NEW taken
    PROVE  /\ IsFiniteSet(FreePages(limit, canUse, taken))
           /\ Cardinality(FreePages(limit, canUse, taken)) \in 0 .. limit
<1>1. limit \in Nat
    BY PmmAssumption
<1>2. FreePages(limit, canUse, taken) \subseteq 0 .. limit - 1
    <2>1. \A q \in FreePages(limit, canUse, taken) : q \in AllPages /\ q < limit
        BY Zenon DEF FreePages
    <2>2. \A q \in AllPages : q \in Nat
        BY PmmAssumption DEF AllPages
    <2> QED BY <1>1, <2>1, <2>2
<1>3. IsFiniteSet(0 .. limit - 1) /\ Cardinality(0 .. limit - 1) = limit
    BY <1>1, FS_Interval
<1>4. /\ IsFiniteSet(FreePages(limit, canUse, taken))
      /\ Cardinality(FreePages(limit, canUse, taken)) <= limit
    BY <1>2, <1>3, FS_Subset
<1>5. Cardinality(FreePages(limit, canUse, taken)) \in Nat
    BY <1>4, FS_CardinalityType
<1> QED BY <1>1, <1>4, <1>5

\* Callers hold finitely many pages.
LEMMA OutFinite ==
    ASSUME out \subseteq AllPages
    PROVE  IsFiniteSet(out) /\ Cardinality(out) \in Nat
<1>1. IsFiniteSet(AllPages)
    <2>1. 0 \in Int /\ MaxPages - 1 \in Int
        BY PmmAssumption
    <2> QED BY <2>1, FS_Interval, Zenon DEF AllPages
<1>2. IsFiniteSet(out)
    BY <1>1, FS_Subset
<1> QED BY <1>2, FS_CardinalityType

\* Before the first BIOS call nothing is loaded and nothing handed out.
LEMMA InitInv == Init => Inv
<1> SUFFICES ASSUME Init PROVE Inv
    OBVIOUS
<1>1. FourGiB \in Nat \ {0} /\ MaxPages \in Nat /\ MaxEntries \in Nat
    BY PmmAssumption DEF FourGiB
<1>2. TypeOK
    BY <1>1 DEF Init, TypeOK
<1>3. Progress /\ KernelPlaced /\ StatsAddUp /\ FromTheMap
    BY DEF Init, Progress, KernelPlaced, ImageInUsableMemory, StatsAddUp, FromTheMap
<1> QED BY <1>2, <1>3 DEF Inv

\* What does not concern the allocator leaves its part of the invariant alone.
LEMMA LoaderFrame ==
    ASSUME Inv, phase # "running", phase' # "running", UNCHANGED pmm
    PROVE  /\ StatsAddUp' /\ FromTheMap'
           /\ used' \subseteq AllPages /\ allocatable' \subseteq AllPages
           /\ total' \in 0 .. MaxPages /\ free' \in 0 .. MaxPages
           /\ reserved' \in 0 .. MaxPages /\ out' \subseteq AllPages
BY DEF Inv, TypeOK, pmm, StatsAddUp, FromTheMap

\* What does not concern the loader leaves its part of the invariant alone.
LEMMA KernelFrame ==
    ASSUME KernelPlaced, UNCHANGED loader
    PROVE  KernelPlaced'
<1>1. /\ entries' = entries /\ image' = image /\ lastEnd' = lastEnd
      /\ kernelStart' = kernelStart /\ kernelEnd' = kernelEnd
    BY DEF loader
<1>2. \A bytes : UsableMemory(bytes) => UsableMemory(bytes)'
    BY <1>1, Zenon DEF UsableMemory, EntrySet
<1>3. ImageInUsableMemory'
    BY <1>1, <1>2, Zenon DEF KernelPlaced, ImageInUsableMemory
<1>4. \A s \in image' : Placed(s)'
    BY <1>1, Zenon DEF KernelPlaced, Placed
<1> QED BY <1>3, <1>4 DEF KernelPlaced

\* One BIOS call adds at most one entry to the map.
LEMMA CollectStep ==
    ASSUME Inv, NEW answer \in Answers, E820Call(answer)
    PROVE  Inv'
<1> DEFINE skipped == ~answer.present \/ answer.entry.length = 0
           failed == \/ Len(entries) >= MaxEntries \/ answer.failed
                     \/ ~skipped /\ Wraps(answer.entry)
<1>1. phase = "collect" /\ UNCHANGED <<image, lastEnd, kernelStart, kernelEnd>> /\ UNCHANGED pmm
    BY Zenon DEF E820Call
<1>2. \/ failed /\ entries' = <<>> /\ phase' = "halted"
      \/ /\ ~failed
         /\ entries' = entries \/ entries' = Append(entries, answer.entry)
         /\ phase' = "collect" \/ phase' = "halted" \/ (entries' # <<>> /\ phase' = "load")
    <2>1. CASE failed
        BY <2>1, Zenon DEF E820Call
    <2>2. CASE ~failed
        <3>1. entries' = entries \/ entries' = Append(entries, answer.entry)
            <4>1. CASE skipped
                BY <2>2, <4>1, Zenon DEF E820Call
            <4>2. CASE ~skipped
                BY <2>2, <4>2, Zenon DEF E820Call
            <4> QED BY <4>1, <4>2, Zenon
        <3>2. phase' = "collect" \/ phase' = "halted" \/ (entries' # <<>> /\ phase' = "load")
            <4>1. CASE answer.more
                BY <2>2, <4>1, Zenon DEF E820Call
            <4>2. CASE ~answer.more
                BY <2>2, <4>2, Zenon DEF E820Call
            <4> QED BY <4>1, <4>2, Zenon
        <3> QED BY <2>2, <3>1, <3>2, Zenon
    <2> QED BY <2>1, <2>2, Zenon
<1>3. entries' \in Seq(Entries) /\ Len(entries') <= MaxEntries
    <2>1. entries \in Seq(Entries) /\ Len(entries) <= MaxEntries /\ MaxEntries \in Nat
        BY PmmAssumption DEF Inv, TypeOK
    <2>2. answer.entry \in Entries
        BY PmmAssumption
    <2>3. failed \/ Len(entries) < MaxEntries
        BY <2>1
    <2>4. /\ Append(entries, answer.entry) \in Seq(Entries)
          /\ Len(Append(entries, answer.entry)) = Len(entries) + 1
        BY <2>1, <2>2
    <2>5. <<>> \in Seq(Entries) /\ Len(<<>>) = 0 /\ Len(entries) \in Nat
        BY <2>1
    <2> HIDE DEF failed
    <2>6. CASE entries' = <<>>
        BY <2>1, <2>5, <2>6
    <2>7. CASE entries' = entries
        BY <2>1, <2>7
    <2>8. CASE ~failed /\ entries' = Append(entries, answer.entry)
        BY <2>1, <2>3, <2>4, <2>5, <2>8
    <2> QED BY <1>2, <2>6, <2>7, <2>8, Zenon
<1>4. phase' \in {"collect", "load", "halted"} /\ (phase' = "load" => entries' # <<>>)
    BY <1>2, Zenon
<1>5. image = {} /\ image' = {}
    BY <1>1 DEF Inv, Progress
<1>6. KernelPlaced' /\ Progress'
    BY <1>4, <1>5 DEF KernelPlaced, ImageInUsableMemory, Progress
<1>7. phase # "running" /\ phase' # "running"
    BY <1>1, <1>4
<1>8. TypeOK'
    BY <1>1, <1>3, <1>4, <1>7, LoaderFrame DEF Inv, TypeOK
<1> QED BY <1>1, <1>6, <1>7, <1>8, LoaderFrame DEF Inv

\* The range that physical_range_is_usable accepts is usable in the map.
LEMMA UsableSegment ==
    ASSUME TypeOK, NEW start \in Nat, NEW size \in Nat \ {0}, start + size < FourGiB,
           RangeIsUsable(entries, start, start + size)
    PROVE  UsableMemory(start .. start + size - 1)
<1>1. FourGiB \in Nat
    BY PmmAssumption DEF FourGiB
<1>2. \A e \in EntrySet(entries) : e.base \in Nat /\ e.length \in Nat
    <2>1. EntrySet(entries) \subseteq Entries
        BY EntryType DEF TypeOK
    <2> QED BY <2>1, PmmAssumption DEF Entries
<1>3. \E e \in EntrySet(entries) : e.usable /\ \A a \in start .. start + size - 1 : Covers(e, a)
    <2>1. PICK e \in EntrySet(entries) :
             /\ e.usable /\ e.base <= start
             /\ LimitOf(e) >= FourGiB \/ LimitOf(e) >= start + size
        BY Zenon DEF RangeIsUsable
    <2>2. e.base \in Nat /\ e.length \in Nat
        BY <1>2
    <2>3. \A a \in start .. start + size - 1 : Covers(e, a)
        BY <1>1, <2>1, <2>2 DEF Covers, LimitOf
    <2> QED BY <2>1, <2>3
<1>4. ASSUME NEW a \in start .. start + size - 1, NEW e \in EntrySet(entries), Covers(e, a)
      PROVE  e.usable
    <2> SUFFICES ASSUME ~e.usable PROVE FALSE
        OBVIOUS
    <2>1. e.base \in Nat /\ e.length \in Nat
        BY <1>2
    <2>2. e.base < FourGiB =>
             e.base >= start + size \/ (LimitOf(e) < FourGiB /\ LimitOf(e) <= start)
        BY Zenon DEF RangeIsUsable
    <2> QED BY <1>1, <1>4, <2>1, <2>2 DEF Covers, LimitOf
<1> QED BY <1>3, <1>4, Zenon DEF UsableMemory

\* Rounding an address down to its page.
LEMMA PageFloorResult ==
    ASSUME NEW a \in Nat
    PROVE  PageFloor(a) \in Nat /\ PageFloor(a) <= a /\ a < PageFloor(a) + PageSize
<1>1. PageSize \in Nat \ {0}
    BY PmmAssumption
<1>2. a \div PageSize \in Nat
    BY <1>1, Quotient
<1> QED BY <1>1, <1>2, Quotient DEF PageFloor

\* Stage 2 loads a segment above the last one, or stops.
LEMMA LoadStep ==
    ASSUME Inv, NEW seg \in Segments, LoadSegment(seg)
    PROVE  Inv'
<1>1. phase = "load" /\ entries' = entries /\ UNCHANGED pmm /\ TypeOK /\ KernelPlaced /\ Progress
    BY Zenon DEF LoadSegment, Inv
<1>2. CASE ~Loadable(seg)
    <2>1. phase' = "halted" /\ UNCHANGED loader
        BY <1>1, <1>2, Zenon DEF LoadSegment, loader
    <2>2. TypeOK' /\ Progress'
        BY <1>1, <2>1, LoaderFrame DEF TypeOK, Progress, loader
    <2> QED BY <1>1, <2>1, <2>2, KernelFrame, LoaderFrame DEF Inv
<1>3. CASE Loadable(seg)
    <2> DEFINE end == seg.start + seg.size
               first == PageFloor(seg.start)
               limit == PageFloor(end + PageSize - 1)
    <2>1. /\ image' = image \cup {seg} /\ lastEnd' = end
          /\ kernelStart' = IF first < kernelStart THEN first ELSE kernelStart
          /\ kernelEnd' = IF limit > kernelEnd THEN limit ELSE kernelEnd
          /\ phase' = phase
        BY <1>3, Zenon DEF LoadSegment
    <2>2. /\ FourGiB \in Nat /\ PageSize \in Nat \ {0} /\ LowEnd \in Nat
          /\ seg.start \in Nat /\ seg.size \in Nat \ {0}
        BY PmmAssumption DEF FourGiB
    <2>3. /\ seg.start >= LowEnd /\ seg.start >= lastEnd /\ end + PageSize - 1 < FourGiB
          /\ RangeIsUsable(entries, seg.start, end)
        BY <1>3 DEF Loadable
    <2>4. first \in Nat /\ first <= seg.start
        BY <2>2, PageFloorResult
    <2>5. limit \in Nat /\ limit < FourGiB /\ end <= limit
        <3>1. end + PageSize - 1 \in Nat
            BY <2>2
        <3>2. /\ limit \in Nat /\ limit <= end + PageSize - 1
              /\ end + PageSize - 1 < limit + PageSize
            BY <3>1, PageFloorResult, Zenon
        <3> HIDE DEF limit
        <3> QED BY <2>2, <2>3, <3>2
    <2>6. /\ lastEnd \in 0 .. FourGiB - 1 /\ kernelStart \in 0 .. FourGiB - 1
          /\ kernelEnd \in 0 .. FourGiB - 1
        BY <1>1 DEF TypeOK
    <2> HIDE DEF first, limit
    <2>7. TypeOK'
        <3>1. /\ lastEnd' \in 0 .. FourGiB - 1 /\ kernelStart' \in 0 .. FourGiB - 1
              /\ kernelEnd' \in 0 .. FourGiB - 1
            BY <2>1, <2>2, <2>3, <2>4, <2>5, <2>6
        <3>2. image' \subseteq Segments
            BY <1>1, <2>1 DEF TypeOK
        <3> QED BY <1>1, <2>1, <3>1, <3>2, LoaderFrame, Zenon DEF TypeOK
    <2>8. Progress'
        BY <1>1, <2>1 DEF Progress
    <2>9. ASSUME NEW s \in image
          PROVE  /\ s.start \in Nat /\ s.size \in Nat \ {0} /\ s.start >= LowEnd
                 /\ s.start + s.size <= lastEnd
                 /\ kernelStart <= s.start /\ s.start + s.size <= kernelEnd
        <3>1. s \in Segments
            BY <1>1 DEF TypeOK
        <3> QED BY <1>1, <3>1, PmmAssumption DEF KernelPlaced, Placed
    <2>10. ASSUME NEW s \in image'
           PROVE  Placed(s)'
        <3>1. CASE s = seg
            BY <2>1, <2>2, <2>3, <2>4, <2>5, <2>6, <3>1 DEF Placed
        <3>2. CASE s \in image
            BY <2>1, <2>2, <2>3, <2>4, <2>5, <2>6, <2>9, <3>2 DEF Placed
        <3> QED BY <2>1, <3>1, <3>2
    <2>11. ASSUME NEW s \in image'
           PROVE  UsableMemory(Loaded(s))' /\ s.start >= LowEnd
        <3>1. UsableMemory(Loaded(s)) /\ s.start >= LowEnd
            <4>1. CASE s = seg
                <5>1. seg.start + seg.size < FourGiB
                    BY <2>2, <2>3
                <5>2. UsableMemory(Loaded(seg))
                    BY <1>1, <2>2, <2>3, <5>1, UsableSegment, Zenon DEF Loaded
                <5> QED BY <2>3, <4>1, <5>2
            <4>2. CASE s \in image
                BY <1>1, <4>2, Zenon DEF KernelPlaced, ImageInUsableMemory
            <4> QED BY <2>1, <4>1, <4>2
        <3> QED BY <1>1, <3>1, Zenon DEF UsableMemory, EntrySet
    <2>12. ASSUME NEW s \in image', NEW t \in image', s # t
           PROVE  Loaded(s) \cap Loaded(t) = {}
        <3>1. ASSUME NEW u \in image
              PROVE  Loaded(u) \cap Loaded(seg) = {}
            BY <2>2, <2>3, <2>6, <2>9 DEF Loaded
        <3>2. CASE s \in image /\ t \in image
            BY <1>1, <2>12, <3>2, Zenon DEF KernelPlaced, ImageInUsableMemory
        <3>3. CASE s = seg /\ t \in image
            BY <3>1, <3>3
        <3>4. CASE s \in image /\ t = seg
            BY <3>1, <3>4
        <3> QED BY <2>1, <2>12, <3>2, <3>3, <3>4
    <2>13. KernelPlaced'
        BY <2>10, <2>11, <2>12, Zenon DEF KernelPlaced, ImageInUsableMemory
    <2> QED BY <1>1, <2>1, <2>7, <2>8, <2>13, LoaderFrame DEF Inv
<1> QED BY <1>2, <1>3

\* Stage 2 has loaded the last segment and hands over.
LEMMA DoneStep ==
    ASSUME Inv, ProgramDone
    PROVE  Inv'
<1>1. phase = "load" /\ UNCHANGED loader /\ UNCHANGED pmm
    BY Zenon DEF ProgramDone
<1>2. phase' = "halted" \/ (phase' = "ready" /\ image # {})
    BY Zenon DEF ProgramDone
<1>3. TypeOK' /\ Progress'
    BY <1>1, <1>2, LoaderFrame, Zenon DEF Inv, TypeOK, Progress, loader
<1> QED BY <1>1, <1>2, <1>3, KernelFrame, LoaderFrame DEF Inv

\* What stage 2 has accepted passes the checks of pmm_init.
LEMMA Accepted ==
    ASSUME Inv, phase \in {"ready", "running"}
    PROVE  ValidBootInfo
<1>1. Len(entries) \in Nat /\ Len(entries) # 0 /\ Len(entries) <= MaxEntries /\ MaxEntries \in Nat
    BY PmmAssumption DEF Inv, TypeOK, Progress
<1>2. PICK s \in image : TRUE
    BY DEF Inv, Progress
<1>3. s.start \in Nat /\ s.size \in Nat \ {0}
    BY PmmAssumption DEF Inv, TypeOK
<1>4. kernelStart <= s.start /\ s.start + s.size <= kernelEnd
    BY DEF Inv, KernelPlaced, Placed
<1>5. kernelStart \in Nat /\ kernelEnd \in Nat
    BY DEF Inv, TypeOK
<1> QED BY <1>1, <1>3, <1>4, <1>5 DEF ValidBootInfo

\* pmm_init computes the bitmaps from the map.
LEMMA PmmInitStep ==
    ASSUME Inv, PmmInit
    PROVE  Inv'
<1>1. phase = "ready" /\ UNCHANGED loader /\ out' = out
    BY Zenon DEF PmmInit
<1>2. ValidBootInfo /\ out = {} /\ entries \in Seq(Entries) /\ MaxPages \in Nat
    BY <1>1, Accepted, PmmAssumption DEF Inv, TypeOK, FromTheMap
<1>3. /\ allocatable' = UsablePages(entries) \ ReservedPages(entries, kernelStart, kernelEnd)
      /\ used' = AllPages \ allocatable'
      /\ total' = MaximumPage(entries)
      /\ free' = Cardinality(FreePages(total', allocatable', used'))
      /\ reserved' = total' - free'
      /\ phase' = IF total' = 0 \/ free' = 0 THEN "halted" ELSE "running"
    BY <1>2, Zenon DEF PmmInit
<1>4. allocatable' \subseteq AllPages
    BY <1>2, <1>3, UsableResult
<1>5. total' \in 0 .. MaxPages
    BY <1>2, <1>3, MaximumResult
<1>6. free' \in 0 .. total'
    BY <1>3, <1>4, <1>5, FreeFacts, Zenon
<1>7. TypeOK' /\ Progress'
    <2>1. TypeOK'
        <3>1. free' \in 0 .. MaxPages /\ reserved' \in 0 .. MaxPages
            <4>1. reserved' = total' - free'
                BY <1>3, Zenon
            <4> QED BY <1>2, <1>5, <1>6, <4>1, PartAndRest, Zenon
        <3>2. phase' \in {"halted", "running"} /\ used' \subseteq AllPages /\ out' \subseteq AllPages
            <4>1. phase' = "halted" \/ phase' = "running"
                BY <1>3, Zenon
            <4> QED BY <1>1, <1>2, <1>3, <4>1, Zenon
        <3>3. TypeOK /\ UNCHANGED <<entries, image, lastEnd, kernelStart, kernelEnd>>
            BY <1>1, Zenon DEF Inv, loader
        <3> QED BY <1>4, <1>5, <3>1, <3>2, <3>3, Zenon DEF TypeOK
    <2>2. Progress'
        BY <1>1, <1>2, <1>3 DEF Inv, Progress, loader
    <2> QED BY <2>1, <2>2
<1>8. StatsAddUp'
    <2>1. Cardinality(out') = 0
        BY <1>1, <1>2, FS_EmptySet
    <2>2. out' = allocatable' \cap used'
        BY <1>1, <1>2, <1>3
    <2>3. total' = free' + reserved' + Cardinality(out')
        BY <1>2, <1>3, <1>5, <1>6, <2>1
    <2> QED BY <1>3, <2>2, <2>3 DEF StatsAddUp
<1>9. FromTheMap'
    BY <1>1, <1>2, <1>3 DEF FromTheMap, loader
<1>10. KernelPlaced'
    BY <1>1, KernelFrame DEF Inv
<1> QED BY <1>7, <1>8, <1>9, <1>10 DEF Inv

\* pmm_alloc takes a free page, or fails.
LEMMA AllocStep ==
    ASSUME Inv, PmmAlloc
    PROVE  Inv'
<1> DEFINE F == FreePages(total, allocatable, used)
<1>1. PICK p \in F : used' = used \cup {p} /\ free' = free - 1 /\ out' = out \cup {p}
    BY Zenon DEF PmmAlloc
<1>2. phase = "running" /\ UNCHANGED <<phase, allocatable, total, reserved>> /\ UNCHANGED loader
    BY Zenon DEF PmmAlloc
<1>3. TypeOK /\ StatsAddUp /\ FromTheMap /\ MaxPages \in Nat
    BY PmmAssumption DEF Inv
<1>4. p \in allocatable /\ p \notin used /\ p \in AllPages
    BY <1>1, <1>3 DEF FreePages, TypeOK
<1>5. /\ total = free + reserved + Cardinality(out) /\ free = Cardinality(F)
      /\ out = allocatable \cap used
    BY <1>2, <1>3 DEF StatsAddUp
<1>6. IsFiniteSet(F) /\ free \in Nat /\ free <= MaxPages /\ total \in Nat /\ reserved \in Nat
    BY <1>3, <1>5, FreeFacts DEF TypeOK
<1>7. IsFiniteSet(out) /\ Cardinality(out) \in Nat
    BY <1>3, OutFinite DEF TypeOK
<1>8. FreePages(total', allocatable', used') = F \ {p}
    BY <1>1, <1>2 DEF FreePages
<1>9. Cardinality(F \ {p}) = free - 1 /\ free > 0
    <2>1. Cardinality(F \ {p}) = Cardinality(F) - 1 /\ Cardinality(F \ {p}) \in Nat
        BY <1>1, <1>6, FS_RemoveElement, FS_CardinalityType
    <2> QED BY <1>5, <1>6, <2>1
<1>10. Cardinality(out') = Cardinality(out) + 1
    BY <1>1, <1>4, <1>5, <1>7, FS_AddElement, Zenon
<1>11. TypeOK'
    BY <1>1, <1>2, <1>3, <1>4, <1>6, <1>9 DEF TypeOK, loader
<1>12. StatsAddUp'
    <2>1. out' = allocatable' \cap used'
        BY <1>1, <1>2, <1>4, <1>5
    <2>2. total' = free' + reserved' + Cardinality(out')
        BY <1>1, <1>2, <1>5, <1>6, <1>7, <1>10
    <2> QED BY <1>1, <1>8, <1>9, <2>1, <2>2, Zenon DEF StatsAddUp
<1>13. FromTheMap'
    BY <1>2, <1>3 DEF FromTheMap, loader
<1>14. Progress' /\ KernelPlaced'
    BY <1>2, KernelFrame DEF Inv, Progress, loader
<1> QED BY <1>11, <1>12, <1>13, <1>14 DEF Inv

\* pmm_free gives back an allocated page and refuses any other address.
LEMMA FreeStep ==
    ASSUME Inv, NEW address \in 0 .. FourGiB - 1, PmmFree(address)
    PROVE  Inv'
<1> DEFINE F == FreePages(total, allocatable, used)
           page == address \div PageSize
<1>1. /\ page < total /\ page \in allocatable /\ page \in used
      /\ used' = used \ {page} /\ free' = free + 1 /\ out' = out \ {page}
    BY Zenon DEF PmmFree
<1>2. phase = "running" /\ UNCHANGED <<phase, allocatable, total, reserved>> /\ UNCHANGED loader
    BY Zenon DEF PmmFree
<1> HIDE DEF page
<1>3. TypeOK /\ StatsAddUp /\ FromTheMap /\ MaxPages \in Nat
    BY PmmAssumption DEF Inv
<1>4. /\ total = free + reserved + Cardinality(out) /\ free = Cardinality(F)
      /\ out = allocatable \cap used
    BY <1>2, <1>3 DEF StatsAddUp
<1>5. IsFiniteSet(F) /\ free \in Nat /\ total \in 0 .. MaxPages /\ reserved \in Nat
    BY <1>3, <1>4, FreeFacts DEF TypeOK
<1>6. IsFiniteSet(out) /\ Cardinality(out) \in Nat
    BY <1>3, OutFinite DEF TypeOK
<1>7. FreePages(total', allocatable', used') = F \cup {page}
    BY <1>1, <1>2 DEF FreePages
<1>8. Cardinality(F \cup {page}) = free + 1
    <2>1. page \notin F
        BY <1>1 DEF FreePages
    <2> HIDE DEF F
    <2>2. Cardinality(F \cup {page}) = Cardinality(F) + 1
        BY <1>5, <2>1, FS_AddElement
    <2> QED BY <1>4, <2>2
<1>9. Cardinality(out') = Cardinality(out) - 1 /\ Cardinality(out) > 0
    <2>1. /\ Cardinality(out \ {page}) = Cardinality(out) - 1
          /\ Cardinality(out \ {page}) \in Nat
        BY <1>1, <1>4, <1>6, FS_RemoveElement, FS_CardinalityType, Zenon
    <2> QED BY <1>1, <1>6, <2>1
<1>10. TypeOK'
    <2>1. free' \in 0 .. MaxPages
        BY <1>1, <1>3, <1>4, <1>5, <1>6, <1>9
    <2>2. used' \subseteq AllPages /\ out' \subseteq AllPages
        BY <1>1, <1>3 DEF TypeOK
    <2> QED BY <1>2, <1>3, <2>1, <2>2 DEF TypeOK, loader
<1>11. StatsAddUp'
    <2>1. out' = allocatable' \cap used'
        BY <1>1, <1>2, <1>4
    <2>2. total' = free' + reserved' + Cardinality(out')
        BY <1>1, <1>2, <1>4, <1>5, <1>6, <1>9
    <2> QED BY <1>1, <1>7, <1>8, <2>1, <2>2, Zenon DEF StatsAddUp
<1>12. FromTheMap'
    BY <1>2, <1>3 DEF FromTheMap, loader
<1>13. Progress' /\ KernelPlaced'
    BY <1>2, KernelFrame DEF Inv, Progress, loader
<1> QED BY <1>10, <1>11, <1>12, <1>13 DEF Inv

\* Every step of the loader and of the allocator keeps the invariant.
LEMMA NextInv == Inv /\ [Next]_vars => Inv'
<1> SUFFICES ASSUME Inv, [Next]_vars PROVE Inv'
    OBVIOUS
<1>1. CASE UNCHANGED vars
    <2>1. UNCHANGED phase /\ UNCHANGED loader /\ UNCHANGED pmm
        BY <1>1 DEF vars
    <2>2. KernelPlaced'
        BY <2>1, KernelFrame DEF Inv
    <2> QED BY <2>1, <2>2 DEF Inv, TypeOK, Progress, StatsAddUp, FromTheMap, loader, pmm
<1>2. CASE Next
    BY <1>2, CollectStep, LoadStep, DoneStep, PmmInitStep, AllocStep, FreeStep, Zenon DEF Next
<1> QED BY <1>1, <1>2

\* The invariant of stage 2 and pmm.c holds from the first BIOS call on.
THEOREM PmmInvariance == Spec => []Inv
BY InitInv, NextInv, PTL DEF Spec

\* The counters of pmm.c stay within the number of pages.
THEOREM PmmTypes == Spec => []TypeOK
<1>1. Inv => TypeOK
    BY DEF Inv
<1> QED BY <1>1, PmmInvariance, PTL

\* Whatever calls of pmm_alloc and pmm_free are made, the statistics agree with
\* the bitmaps, and pmm_free takes back only what is out.
THEOREM Accounting == Spec => []StatsAddUp
<1>1. Inv => StatsAddUp
    BY DEF Inv
<1> QED BY <1>1, PmmInvariance, PTL

\* Whatever the BIOS reports and whatever segments the kernel has, the loader
\* writes them to usable memory and apart from each other.
THEOREM LoaderRespectsTheMap == Spec => []ImageInUsableMemory
<1>1. Inv => ImageInUsableMemory
    BY DEF Inv, KernelPlaced
<1> QED BY <1>1, PmmInvariance, PTL

\* pmm_init never rejects the Boot Info that stage 2 has built.
THEOREM HandOver == Spec => []BootInfoAccepted
<1>1. Inv => BootInfoAccepted
    BY Accepted DEF BootInfoAccepted
<1> QED BY <1>1, PmmInvariance, PTL

\* Whatever the BIOS reports, overlapping entries included, pmm_alloc hands out
\* whole pages of usable memory without a byte of the kernel.
THEOREM OnlyUsableMemory == Spec => []HandedOutIsUsable
<1>1. Inv => HandedOutIsUsable
    <2> SUFFICES ASSUME Inv, NEW p \in out
                 PROVE  /\ UsableMemory(BytesOf(p))
                        /\ \A a \in BytesOf(p) :
                              a >= LowEnd /\ \A s \in image : a \notin Loaded(s)
        BY Zenon DEF HandedOutIsUsable
    <2>1. entries \in Seq(Entries) /\ p \in AllPages
        BY DEF Inv, TypeOK
    <2>2. phase = "running"
        BY DEF Inv, FromTheMap
    <2>3. p \in UsablePages(entries) /\ p \notin ReservedPages(entries, kernelStart, kernelEnd)
        BY <2>2 DEF Inv, FromTheMap, StatsAddUp
    <2>4. \E e \in EntrySet(entries) : e.usable /\ \A a \in BytesOf(p) : Covers(e, a)
        BY <2>1, <2>3, UsableResult, Zenon
    <2>5. /\ kernelStart < kernelEnd
          /\ kernelStart \in 0 .. FourGiB - 1 /\ kernelEnd \in 0 .. FourGiB - 1
        BY <2>2, Accepted DEF ValidBootInfo, Inv, TypeOK
    <2>6. \A a \in BytesOf(p) :
             /\ a >= LowEnd
             /\ ~(kernelStart <= a /\ a < kernelEnd)
             /\ \A e \in EntrySet(entries) : Covers(e, a) => e.usable
        BY <2>1, <2>3, <2>5, ReservedResult, Zenon
    <2>7. ASSUME NEW a \in BytesOf(p), NEW s \in image
          PROVE  a \notin Loaded(s)
        <3>1. a \in Nat
            BY <2>1, PmmAssumption DEF BytesOf, AllPages
        <3>2. s.start \in Nat /\ s.size \in Nat /\ FourGiB \in Nat
            BY PmmAssumption DEF Inv, TypeOK, FourGiB
        <3>3. kernelStart <= s.start /\ s.start + s.size <= kernelEnd
            BY DEF Inv, KernelPlaced, Placed
        <3>4. ~(kernelStart <= a /\ a < kernelEnd)
            BY <2>6
        <3> QED BY <2>5, <3>1, <3>2, <3>3, <3>4 DEF Loaded
    <2> QED BY <2>4, <2>6, <2>7, Zenon DEF UsableMemory
<1> QED BY <1>1, PmmInvariance, PTL
=============================================================================
