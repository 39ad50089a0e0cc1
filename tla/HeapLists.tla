----------------------------- MODULE HeapLists -----------------------------
(***************************************************************************)
(* The list of blocks of the kernel heap (Heap): the links visit every     *)
(* block once, and merge_with_next, split_block and the growth of the heap *)
(* keep the list well formed, for every size of the headers, of the pages  *)
(* and of the heap.                                                        *)
(***************************************************************************)
EXTENDS Heap, WellFoundedInduction, TLAPS

-----------------------------------------------------------------------------
\* Numbers.

\* What a division leaves is smaller than the divisor.
LEMMA Quotient ==
    ASSUME NEW x \in Nat, NEW d \in Nat \ {0}
    PROVE  /\ x \div d \in Nat
           /\ (x \div d) * d <= x /\ x < (x \div d) * d + d
OBVIOUS

\* A number is made of its quotient and its residue,
LEMMA Division ==
    ASSUME NEW x \in Nat, NEW d \in Nat \ {0}
    PROVE  \E q \in Nat, r \in 0 .. d - 1 :
              x = q * d + r /\ x \div d = q /\ x % d = r
<1>1. x \div d \in Nat /\ x % d \in 0 .. d - 1
    OBVIOUS
<1>2. x % d = x - d * (x \div d)
    OBVIOUS
<1>3. PICK q \in Nat, r \in 0 .. d - 1 : q = x \div d /\ r = x % d
    BY <1>1
<1>4. r = x - d * q
    BY <1>2, <1>3, Zenon
<1>5. x = q * d + r
    BY <1>4
<1> QED BY <1>3, <1>5, Zenon

\* in one way only.
LEMMA DivisionUnique ==
    ASSUME NEW d \in Nat \ {0}, NEW q \in Nat, NEW r \in 0 .. d - 1
    PROVE  (q * d + r) \div d = q /\ (q * d + r) % d = r
<1>1. q * d + r \in Nat
    OBVIOUS
<1>2. PICK x \in Nat : x = q * d + r
    BY <1>1
<1>3. PICK p \in Nat, s \in 0 .. d - 1 : x = p * d + s /\ x \div d = p /\ x % d = s
    BY Division
<1>4. q * d + r = p * d + s /\ q * d \in Nat /\ p * d \in Nat
    BY <1>2, <1>3
<1>5. ~(p < q)
    <2> SUFFICES ASSUME p + 1 <= q PROVE FALSE
        OBVIOUS
    <2>1. (p + 1) * d <= q * d /\ (p + 1) * d = p * d + d
        OBVIOUS
    <2> QED BY <1>4, <2>1
<1>6. ~(q < p)
    <2> SUFFICES ASSUME q + 1 <= p PROVE FALSE
        OBVIOUS
    <2>1. (q + 1) * d <= p * d /\ (q + 1) * d = q * d + d
        OBVIOUS
    <2> QED BY <1>4, <2>1
<1>7. p = q
    BY <1>5, <1>6
<1>8. s = r
    BY <1>4, <1>7
<1> QED BY <1>2, <1>3, <1>7, <1>8, Zenon

\* Multiplication by a natural number keeps the order.
LEMMA ProductMonotone ==
    ASSUME NEW a \in Nat, NEW b \in Nat, NEW d \in Nat, a <= b
    PROVE  a * d <= b * d
OBVIOUS

\* A non-empty set of naturals has a least element.
LEMMA LeastElement ==
    ASSUME NEW T \in SUBSET Nat, T # {}
    PROVE  \E x \in T : \A y \in T : x <= y
<1>1. PICK x \in T : \A y \in T : ~(<<y, x>> \in OpToRel(<, Nat))
    BY NatLessThanWellFounded, WFMin, Zenon
<1>2. \A y \in T : ~(y < x)
    BY <1>1, Zenon DEF OpToRel
<1> QED BY <1>2

\* A non-empty set of naturals with a bound has a greatest element.
LEMMA GreatestElement ==
    ASSUME NEW bound \in Nat, NEW T \in SUBSET (0 .. bound), T # {}
    PROVE  \E x \in T : \A y \in T : y <= x
<1> DEFINE U == {bound - y : y \in T}
<1>1. U \in SUBSET Nat /\ U # {}
    <2>1. \A y \in T : bound - y \in Nat
        OBVIOUS
    <2>2. U # {}
        BY Zenon
    <2> QED BY <2>1, <2>2, Zenon
<1>2. PICK u \in U : \A v \in U : u <= v
    BY <1>1, LeastElement, Zenon
<1>3. PICK x \in T : u = bound - x
    BY <1>2
<1>4. \A y \in T : bound - x <= bound - y
    BY <1>2, <1>3, Zenon
<1> QED BY <1>4

\* Sums, differences and products of multiples are multiples.
LEMMA Multiples ==
    ASSUME NEW d \in Nat \ {0}, NEW x \in Nat, NEW y \in Nat, x % d = 0, y % d = 0
    PROVE  (x + y) % d = 0 /\ (y <= x => (x - y) % d = 0)
<1>1. PICK p \in Nat : x = p * d
    <2>1. PICK q \in Nat, r \in 0 .. d - 1 : x = q * d + r /\ x % d = r
        BY Division, ZenonT(30)
    <2>2. x = q * d
        BY <2>1
    <2> QED BY <2>2
<1>2. PICK q \in Nat : y = q * d
    <2>1. PICK k \in Nat, r \in 0 .. d - 1 : y = k * d + r /\ y % d = r
        BY Division, ZenonT(30)
    <2>2. y = k * d
        BY <2>1
    <2> QED BY <2>2
<1>3. (x + y) % d = 0
    <2>1. x + y = (p + q) * d + 0 /\ p + q \in Nat
        BY <1>1, <1>2
    <2>2. ((p + q) * d + 0) % d = 0
        <3>1. 0 \in 0 .. d - 1
            OBVIOUS
        <3> QED BY <2>1, <3>1, DivisionUnique
    <2> QED BY <2>1, <2>2
<1>4. ASSUME y <= x PROVE (x - y) % d = 0
    <2>1. q <= p
        <3> SUFFICES ASSUME p + 1 <= q PROVE FALSE
            OBVIOUS
        <3>1. (p + 1) * d <= q * d
            BY ProductMonotone
        <3>2. p * d + d <= q * d /\ p * d \in Nat /\ q * d \in Nat
            BY <3>1
        <3> QED BY <1>1, <1>2, <1>4, <3>2
    <2>2. x - y = (p - q) * d + 0 /\ p - q \in Nat
        BY <1>1, <1>2, <2>1
    <2>3. ((p - q) * d + 0) % d = 0
        <3>1. 0 \in 0 .. d - 1
            OBVIOUS
        <3> QED BY <2>2, <3>1, DivisionUnique
    <2> QED BY <2>2, <2>3
<1> QED BY <1>3, <1>4

\* A multiple of a multiple of d is one of d.
LEMMA MultipleOfMultiple ==
    ASSUME NEW d \in Nat \ {0}, NEW x \in Nat, NEW k \in Nat, x % d = 0
    PROVE  (k * x) % d = 0
<1>1. PICK q \in Nat, r \in 0 .. d - 1 : x = q * d + r /\ x \div d = q /\ x % d = r
    BY Division, ZenonT(30)
<1>2. x = q * d
    BY <1>1
<1>3. k * x = (k * q) * d + 0 /\ k * q \in Nat
    BY <1>2
<1>4. 0 \in 0 .. d - 1
    OBVIOUS
<1>5. ((k * q) * d + 0) % d = 0
    BY <1>3, <1>4, DivisionUnique, Zenon
<1> QED BY <1>3, <1>5

-----------------------------------------------------------------------------
\* The blocks of a heap.

\* The constants of heap.c and the ranges that follow from their assumptions.
LEMMA HeapNumbers ==
    /\ Alignment \in Nat \ {0} /\ HeaderSize \in Nat \ {0} /\ HeapPageSize \in Nat \ {0}
    /\ HeapMaxPages \in Nat \ {0} /\ MaxSize \in Nat /\ Start \in Nat \ {0}
    /\ HeapPageSize >= HeaderSize + Alignment
    /\ HeaderSize % Alignment = 0 /\ HeapPageSize % Alignment = 0
    /\ Addresses \subseteq Nat /\ Null = 0 /\ Start = Alignment
    /\ \A a \in Addresses : Start <= a /\ a < Start + MaxSize
BY HeapAssumption DEF MaxSize, Start, Addresses, Null

\* Where a block lies.
LEMMA BlockFacts ==
    ASSUME NEW h, NEW end \in Nat, WellFormed(h, end), NEW b \in Headers(h)
    PROVE  /\ b \in Nat /\ b \in Addresses /\ Start <= b /\ b # Null
           /\ h[b].size \in Nat /\ h[b].size >= Alignment
           /\ h[b].next \in Nat /\ h[b].prev \in Nat /\ h[b].magic
           /\ After(h, b) \in Nat /\ After(h, b) = b + HeaderSize + h[b].size
           /\ b + HeaderSize + Alignment <= After(h, b) /\ b < After(h, b)
           /\ After(h, b) <= end
<1>1. b \in Addresses /\ h[b].magic
    BY DEF Headers
<1>2. h[b] \in [magic : BOOLEAN, size : Nat, prev : Nat, next : Nat,
                state : {Free, Allocated, "none"}]
    BY <1>1 DEF WellFormed
<1>3. h[b].size >= Alignment /\ After(h, b) <= end
    BY DEF WellFormed
<1>4. h[b].size \in Nat /\ h[b].next \in Nat /\ h[b].prev \in Nat
    BY <1>2
<1> QED BY <1>1, <1>3, <1>4, HeapNumbers DEF After, Payload

\* What the links of a block say.
LEMMA BlockLinks ==
    ASSUME NEW h, NEW end, WellFormed(h, end), NEW b \in Headers(h)
    PROVE  /\ IF After(h, b) = end THEN h[b].next = Null
              ELSE /\ h[b].next = After(h, b) /\ After(h, b) \in Headers(h)
                   /\ h[After(h, b)].prev = b
           /\ IF b = Start THEN h[b].prev = Null
              ELSE h[b].prev \in Headers(h) /\ After(h, h[b].prev) = b
           /\ h[b].size % Alignment = 0 /\ h[b].state \in {Free, Allocated}
BY Zenon DEF WellFormed

\* No block begins inside another.
LEMMA NoOverlap ==
    ASSUME NEW h, NEW end \in Nat, WellFormed(h, end)
    PROVE  \A b, c \in Headers(h) : b < c => After(h, b) <= c
<1> DEFINE Inside == {c \in Headers(h) : \E b \in Headers(h) : b < c /\ ~(After(h, b) <= c)}
<1>1. SUFFICES ASSUME Inside # {} PROVE FALSE
    OBVIOUS
<1>2. Inside \subseteq Nat
    BY BlockFacts
<1>3. PICK c \in Inside : \A d \in Inside : c <= d
    BY <1>1, <1>2, LeastElement, Zenon
<1>4. PICK b \in Headers(h) : b < c /\ ~(After(h, b) <= c)
    OBVIOUS
<1>5. c \in Headers(h)
    OBVIOUS
<1>6. /\ b \in Nat /\ c \in Nat /\ After(h, b) \in Nat /\ Start <= b
      /\ c < After(h, b) /\ c # Start /\ Start \in Nat
    BY <1>4, <1>5, BlockFacts, HeapNumbers
<1>7. PICK p \in Headers(h) : After(h, p) = c
    BY <1>5, <1>6, BlockLinks
<1>8. p \in Nat /\ p < c
    BY <1>7, BlockFacts
<1>9. ASSUME NEW d \in Headers(h), d < c PROVE d \notin Inside
    <2>1. d \in Nat /\ ~(c <= d)
        BY <1>6, <1>9, BlockFacts
    <2> QED BY <1>3, <2>1
<1>10. CASE p = b
    BY <1>6, <1>7, <1>10
<1>11. CASE b < p
    <2>1. ~(After(h, b) <= p)
        BY <1>6, <1>8
    <2>2. p \in Inside
        BY <1>11, <2>1
    <2> QED BY <1>8, <1>9, <2>2
<1>12. CASE p < b
    <2>1. ~(After(h, p) <= b)
        BY <1>4, <1>6, <1>7
    <2>2. b \in Inside
        BY <1>12, <2>1
    <2> QED BY <1>4, <1>9, <2>2
<1> QED BY <1>6, <1>8, <1>10, <1>11, <1>12

\* Different blocks have different successors, and only one is the last.
LEMMA DifferentAfter ==
    ASSUME NEW h, NEW end \in Nat, WellFormed(h, end),
           NEW b \in Headers(h), NEW c \in Headers(h), After(h, b) = After(h, c)
    PROVE  b = c
<1>1. b \in Nat /\ c \in Nat /\ b < After(h, b) /\ c < After(h, c) /\ After(h, b) \in Nat
    BY BlockFacts
<1>2. ~(b < c)
    <2> SUFFICES ASSUME b < c PROVE FALSE
        OBVIOUS
    <2>1. After(h, b) <= c
        BY NoOverlap
    <2> QED BY <1>1, <2>1
<1>3. ~(c < b)
    <2> SUFFICES ASSUME c < b PROVE FALSE
        OBVIOUS
    <2>1. After(h, c) <= b
        BY NoOverlap
    <2> QED BY <1>1, <2>1
<1> QED BY <1>1, <1>2, <1>3

\* validate_block accepts every block.
LEMMA BlocksValid ==
    ASSUME NEW h, NEW end \in Nat, WellFormed(h, end), NEW b \in Headers(h)
    PROVE  Valid(h, end, b)
<1>1. /\ b \in Nat /\ Start <= b /\ h[b].size \in Nat /\ h[b].magic
      /\ After(h, b) \in Nat /\ After(h, b) = b + HeaderSize + h[b].size
      /\ After(h, b) <= end
    BY BlockFacts
<1>2. h[b].size % Alignment = 0 /\ h[b].state \in {Free, Allocated}
    BY BlockLinks
<1>3. IF h[b].next # Null
      THEN /\ After(h, b) <= end - HeaderSize /\ h[b].next = After(h, b)
           /\ h[h[b].next].prev = b
      ELSE After(h, b) = end
    <2>1. CASE After(h, b) = end
        BY <2>1, BlockLinks
    <2>2. CASE After(h, b) # end
        <3>1. /\ h[b].next = After(h, b) /\ After(h, b) \in Headers(h)
              /\ h[After(h, b)].prev = b
            BY <2>2, BlockLinks
        <3>2. /\ After(h, b) + HeaderSize + Alignment <= After(h, After(h, b))
              /\ After(h, After(h, b)) <= end /\ After(h, After(h, b)) \in Nat
            BY <3>1, BlockFacts
        <3>3. After(h, b) <= end - HeaderSize
            BY <1>1, <3>2, HeapNumbers
        <3>4. h[b].next # Null
            BY <3>1, BlockFacts
        <3> QED BY <3>1, <3>3, <3>4
    <2> QED BY <2>1, <2>2
<1>4. IF h[b].prev # Null
      THEN /\ h[b].prev >= Start /\ h[b].prev <= b - HeaderSize
           /\ h[h[b].prev].magic /\ h[h[b].prev].next = b
           /\ Payload(h[b].prev) + h[h[b].prev].size = b
      ELSE b = Start
    <2>1. CASE b = Start
        BY <2>1, BlockLinks
    <2>2. CASE b # Start
        <3>1. PICK p \in Headers(h) : p = h[b].prev /\ After(h, p) = b
            BY <2>2, BlockLinks
        <3>2. /\ p \in Nat /\ Start <= p /\ p # Null /\ h[p].magic
              /\ p + HeaderSize + Alignment <= After(h, p)
            BY BlockFacts
        <3>3. b # end
            BY <1>1, BlockFacts
        <3>4. h[p].next = b
            BY <3>1, <3>3, BlockLinks
        <3>5. p <= b - HeaderSize /\ p >= Start
            BY <1>1, <3>1, <3>2, HeapNumbers
        <3> QED BY <3>1, <3>2, <3>4, <3>5 DEF After
    <2> QED BY <2>1, <2>2
<1>5. b <= end - HeaderSize /\ h[b].size <= end - Payload(b) /\ b >= Start
    BY <1>1, HeapNumbers DEF Payload
<1> QED BY <1>1, <1>2, <1>3, <1>4, <1>5 DEF Valid, After

\* No list is empty, and the walk along a list has room for all of it.
LEMMA LimitFacts ==
    /\ Limit \in Nat /\ Limit >= 1
    /\ MaxSize < Limit * (HeaderSize + Alignment) + (HeaderSize + Alignment)
<1>1. PICK B \in Nat \ {0} : B = HeaderSize + Alignment
    BY HeapNumbers
<1>2. MaxSize \div B \in Nat /\ MaxSize < (MaxSize \div B) * B + B
    BY <1>1, HeapNumbers, Quotient, Zenon
<1>3. PICK q \in Nat : q = MaxSize \div B
    BY <1>2
<1>4. B <= MaxSize
    <2>1. HeapPageSize <= HeapMaxPages * HeapPageSize
        <3>1. PICK s \in Nat, m \in Nat : s = HeapPageSize /\ m = HeapMaxPages /\ 1 <= m
            BY HeapNumbers
        <3>2. 1 * s <= m * s
            BY <3>1, ProductMonotone
        <3> QED BY <3>1, <3>2
    <2>2. HeapMaxPages * HeapPageSize \in Nat
        BY HeapNumbers
    <2> QED BY <1>1, <2>1, <2>2, HeapNumbers DEF MaxSize
<1>5. q >= 1
    <2> SUFFICES ASSUME q = 0 PROVE FALSE
        BY <1>3
    <2>1. MaxSize < 0 * B + B
        BY <1>2, <1>3
    <2> QED BY <1>1, <1>4, <2>1, HeapNumbers
<1> QED BY <1>1, <1>2, <1>3, <1>5 DEF Limit

\* The walk: from heap_head along the links.
LEMMA WalkRuns ==
    ASSUME NEW h
    PROVE  /\ Walk(h)[1] = Start
           /\ \A k \in 2 .. Limit : Walk(h)[k] = Follow(h, Walk(h)[k - 1])
<1> DEFINE Step(b) == Follow(h, b)
           Runs(n, f) == f = [k \in 1 .. n |-> IF k = 1 THEN Start ELSE Step(f[k - 1])]
           Stuck == {n \in Nat : ~\E f : Runs(n, f)}
<1>1. Walk(h) = CHOOSE f : Runs(Limit, f)
    BY DEF Walk
<1> HIDE DEF Step
<1>2. Stuck = {}
    <2> SUFFICES ASSUME Stuck # {} PROVE FALSE
        OBVIOUS
    <2>1. PICK n \in Stuck : \A m \in Stuck : n <= m
        BY LeastElement, Zenon
    <2>2. n \in Nat /\ ~\E f : Runs(n, f)
        OBVIOUS
    <2>3. n # 0
        <3> DEFINE g == [k \in 1 .. 0 |-> Start]
        <3>1. Runs(0, g)
            OBVIOUS
        <3> QED BY <2>2, <3>1, Zenon
    <2>4. n - 1 \in Nat /\ ~(n <= n - 1)
        BY <2>2, <2>3
    <2>5. PICK g : Runs(n - 1, g)
        BY <2>1, <2>4, Zenon
    <2> DEFINE f == [k \in 1 .. n |-> IF k = n THEN IF n = 1 THEN Start ELSE Step(g[n - 1]) ELSE g[k]]
    <2>6. ASSUME NEW k \in 1 .. n PROVE f[k] = IF k = 1 THEN Start ELSE Step(f[k - 1])
        <3>1. CASE k = n
            <4>1. f[n] = (IF n = 1 THEN Start ELSE Step(g[n - 1])) /\ (n # 1 => f[n - 1] = g[n - 1])
                BY <2>2, <2>3, <2>4
            <4> QED BY <2>3, <3>1, <4>1
        <3>2. CASE k # n
            <4>1. k \in 1 .. n - 1 /\ f[k] = g[k] /\ (k # 1 => f[k - 1] = g[k - 1])
                BY <2>2, <3>2
            <4>2. g[k] = IF k = 1 THEN Start ELSE Step(g[k - 1])
                BY <2>5, <4>1
            <4> QED BY <4>1, <4>2
        <3> QED BY <3>1, <3>2
    <2>7. Runs(n, f)
        <3>1. f = [k \in 1 .. n |-> f[k]]
            OBVIOUS
        <3> HIDE DEF f
        <3> QED BY <2>6, <3>1, Zenon
    <2> QED BY <2>2, <2>7, Zenon
<1>3. \E f : Runs(Limit, f)
    BY <1>2, LimitFacts, Zenon
<1>4. PICK f : f = CHOOSE g : Runs(Limit, g)
    OBVIOUS
<1>5. Runs(Limit, f)
    BY <1>3, <1>4, Zenon
<1>6. f[1] = Start /\ \A k \in 2 .. Limit : f[k] = Step(f[k - 1])
    BY <1>5, LimitFacts
<1> QED BY <1>1, <1>4, <1>6, Zenon DEF Step

\* The block behind a block, if there is one.
LEMMA FollowFacts ==
    ASSUME NEW h, NEW end \in Nat, WellFormed(h, end), NEW b \in Headers(h)
    PROVE  /\ Follow(h, b) = h[b].next
           /\ Follow(h, b) # Null => /\ Follow(h, b) \in Headers(h) /\ Follow(h, b) = After(h, b)
                                     /\ Follow(h, b) \in Nat
                                     /\ b + (HeaderSize + Alignment) <= Follow(h, b)
<1>1. Follow(h, b) = h[b].next
    BY BlockFacts DEF Follow
<1>2. ASSUME h[b].next # Null PROVE h[b].next = After(h, b) /\ After(h, b) \in Headers(h)
    BY <1>2, BlockLinks
<1>3. After(h, b) \in Nat /\ b + (HeaderSize + Alignment) <= After(h, b)
    BY BlockFacts, HeapNumbers
<1> QED BY <1>1, <1>2, <1>3

\* The walk meets headers only, until it is past the last one, and comes forward
\* by at least the smallest block with each step.
LEMMA WalkForward ==
    ASSUME NEW h, NEW end \in Nat, WellFormed(h, end), NEW k \in 1 .. Limit
    PROVE  Walk(h)[k] = Null
              \/ /\ Walk(h)[k] \in Headers(h)
                 /\ Start + (k - 1) * (HeaderSize + Alignment) <= Walk(h)[k]
<1>a. PICK w : w = Walk(h)
    OBVIOUS
<1>b. PICK B \in Nat : B = HeaderSize + Alignment
    BY HeapNumbers
<1>0. w = Walk(h) /\ B = HeaderSize + Alignment
    BY <1>a, <1>b
<1> DEFINE Good(j) == w[j] = Null \/ (w[j] \in Headers(h) /\ Start + (j - 1) * B <= w[j])
           Bad == {j \in 1 .. Limit : ~Good(j)}
<1>1. SUFFICES ASSUME Bad # {} PROVE FALSE
    BY <1>0
<1>2. PICK n \in Bad : \A m \in Bad : n <= m
    <2>1. Bad \in SUBSET Nat
        BY LimitFacts
    <2> QED BY <1>1, <2>1, LeastElement, Zenon
<1>3. n \in 1 .. Limit /\ ~Good(n)
    OBVIOUS
<1>4. CASE n = 1
    <2>1. w[1] = Start /\ Start \in Headers(h)
        BY <1>0, WalkRuns DEF WellFormed
    <2>2. Start + (1 - 1) * B <= Start
        BY <1>0, HeapNumbers
    <2> QED BY <1>3, <1>4, <2>1, <2>2
<1>5. CASE n # 1
    <2>1. n \in 2 .. Limit /\ n - 1 \in 1 .. Limit /\ ~(n <= n - 1)
        BY <1>3, <1>5, LimitFacts
    <2>2. Good(n - 1)
        BY <1>2, <2>1
    <2>3. w[n] = Follow(h, w[n - 1])
        BY <1>0, <2>1, WalkRuns
    <2>4. CASE w[n - 1] = Null
        BY <1>3, <2>3, <2>4 DEF Follow
    <2>5. CASE w[n - 1] # Null
        <3>1. PICK b \in Headers(h) : b = w[n - 1] /\ Start + (n - 1 - 1) * B <= b
            BY <2>2, <2>5
        <3>2. w[n] # Null => w[n] \in Headers(h) /\ w[n] \in Nat /\ b + B <= w[n]
            BY <1>0, <2>3, <3>1, FollowFacts
        <3>3. b \in Nat
            BY BlockFacts
        <3>4. (n - 1) * B = (n - 1 - 1) * B + B /\ (n - 1 - 1) * B \in Nat
            <4>1. PICK m \in Nat : m = n - 1 - 1 /\ n - 1 = m + 1
                BY <2>1
            <4>2. (m + 1) * B = m * B + B /\ m * B \in Nat
                BY <1>b
            <4> QED BY <4>1, <4>2
        <3>5. PICK x \in Nat : x = (n - 1 - 1) * B
            BY <3>4
        <3>6. w[n] # Null => Start + (x + B) <= w[n]
            BY <1>0, <3>1, <3>2, <3>3, <3>5, HeapNumbers
        <3> QED BY <1>3, <3>2, <3>4, <3>5, <3>6
    <2> QED BY <2>4, <2>5
<1> QED BY <1>4, <1>5

\* The walk ends.
LEMMA WalkEnds ==
    ASSUME NEW h, NEW end \in Nat, WellFormed(h, end), end <= Start + MaxSize
    PROVE  \E n \in 1 .. Limit : Walk(h)[n] # Null /\ Follow(h, Walk(h)[n]) = Null
<1>a. PICK w : w = Walk(h)
    OBVIOUS
<1>b. PICK B \in Nat : B = HeaderSize + Alignment
    BY HeapNumbers
<1>0. w = Walk(h) /\ B = HeaderSize + Alignment
    BY <1>a, <1>b
<1> SUFFICES ASSUME \A n \in 1 .. Limit : w[n] # Null => Follow(h, w[n]) # Null PROVE FALSE
    BY <1>0
<1> DEFINE Past == {k \in 1 .. Limit : w[k] = Null}
<1>1. Past = {}
    <2> SUFFICES ASSUME Past # {} PROVE FALSE
        OBVIOUS
    <2>1. PICK n \in Past : \A m \in Past : n <= m
        <3>1. Past \in SUBSET Nat
            BY LimitFacts
        <3> QED BY <3>1, LeastElement, Zenon
    <2>2. n \in 1 .. Limit /\ w[n] = Null
        OBVIOUS
    <2>3. n # 1
        BY <1>0, <2>2, WalkRuns, HeapNumbers
    <2>4. n \in 2 .. Limit /\ n - 1 \in 1 .. Limit /\ ~(n <= n - 1)
        BY <2>2, <2>3, LimitFacts
    <2>5. w[n - 1] # Null
        BY <2>1, <2>4
    <2>6. w[n] = Follow(h, w[n - 1])
        BY <1>0, <2>4, WalkRuns
    <2> QED BY <2>2, <2>4, <2>5, <2>6
<1>2. Limit \in 1 .. Limit
    BY LimitFacts
<1>3. PICK b \in Headers(h) : b = w[Limit] /\ Start + (Limit - 1) * B <= b
    BY <1>0, <1>1, <1>2, WalkForward
<1>4. PICK c \in Headers(h) : c = Follow(h, b) /\ b + B <= c
    <2>1. Follow(h, b) # Null
        BY <1>1, <1>2, <1>3
    <2> QED BY <1>0, <2>1, FollowFacts
<1>5. /\ b \in Nat /\ c \in Nat /\ c + B <= After(h, c) /\ After(h, c) <= end
      /\ After(h, c) \in Nat
    BY <1>0, BlockFacts, HeapNumbers
<1>6. PICK y \in Nat, x \in Nat : y = Limit * B /\ x = (Limit - 1) * B /\ y = x + B
    <2>1. Limit * B = (Limit - 1) * B + B /\ (Limit - 1) * B \in Nat /\ Limit * B \in Nat
        BY <1>0, LimitFacts
    <2> QED BY <2>1
<1>7. MaxSize < y + B
    BY <1>0, <1>6, LimitFacts
<1> QED BY <1>0, <1>3, <1>4, <1>5, <1>6, <1>7, HeapNumbers

\* The list has every block and nothing else, and ends with the last block.
LEMMA ListFacts ==
    ASSUME NEW h, NEW end \in Nat, WellFormed(h, end), end <= Start + MaxSize
    PROVE  \E n \in Nat \ {0} :
              /\ DOMAIN List(h) = 1 .. n /\ Len(List(h)) = n
              /\ \A k \in 1 .. n : List(h)[k] \in Headers(h)
              /\ h[List(h)[n]].next = Null
              /\ \A b \in Headers(h) : \E k \in 1 .. n : List(h)[k] = b
<1>0. PICK w : w = Walk(h)
    OBVIOUS
<1>1. PICK n : n = CHOOSE m \in 1 .. Limit : w[m] # Null /\ Follow(h, w[m]) = Null
    OBVIOUS
<1>2. n \in 1 .. Limit /\ w[n] # Null /\ Follow(h, w[n]) = Null
    <2>1. \E m \in 1 .. Limit : w[m] # Null /\ Follow(h, w[m]) = Null
        BY <1>0, WalkEnds
    <2> QED BY <1>1, <2>1, Zenon
<1>3. n \in Nat \ {0} /\ 1 .. n \subseteq 1 .. Limit
    BY <1>2, LimitFacts
<1>4. PICK l : l = [k \in 1 .. n |-> w[k]]
    BY Zenon
<1>5. List(h) = l
    BY <1>0, <1>1, <1>4, Zenon DEF List
<1>6. DOMAIN l = 1 .. n /\ \A k \in 1 .. n : l[k] = w[k]
    BY <1>4
<1>7. Len(l) = n
    BY <1>3, <1>4, <1>6
<1>8. \A k \in 1 .. n : w[k] # Null
    <2> DEFINE Past == {k \in 1 .. n : w[k] = Null}
    <2> SUFFICES ASSUME Past # {} PROVE FALSE
        OBVIOUS
    <2>1. Past \in SUBSET (0 .. n)
        BY <1>3
    <2>2. PICK k \in Past : \A m \in Past : m <= k
        BY <1>3, <2>1, GreatestElement, Zenon
    <2>3. k \in 1 .. n /\ w[k] = Null /\ k # n
        BY <1>2
    <2>4. k + 1 \in 1 .. n /\ k + 1 \in 2 .. Limit /\ ~(k + 1 <= k) /\ (k + 1) - 1 = k
        BY <1>2, <1>3, <2>3, LimitFacts
    <2>5. w[k + 1] = Follow(h, w[k])
        BY <1>0, <2>4, WalkRuns
    <2>6. k + 1 \in Past
        BY <2>3, <2>4, <2>5 DEF Follow
    <2> QED BY <2>2, <2>4, <2>6
<1>9. \A k \in 1 .. n : w[k] \in Headers(h)
    BY <1>0, <1>3, <1>8, WalkForward
<1>10. n \in 1 .. n
    BY <1>3
<1>11. h[w[n]].next = Null
    BY <1>2, <1>9, <1>10, FollowFacts
<1>12. \A b \in Headers(h) : \E k \in 1 .. n : w[k] = b
    <2> DEFINE Missed == {b \in Headers(h) : ~\E k \in 1 .. n : w[k] = b}
    <2> SUFFICES ASSUME Missed # {} PROVE FALSE
        OBVIOUS
    <2>1. Missed \subseteq Nat
        BY BlockFacts
    <2>2. PICK b \in Missed : \A c \in Missed : b <= c
        BY <2>1, LeastElement, Zenon
    <2>3. b \in Headers(h) /\ ~\E k \in 1 .. n : w[k] = b
        OBVIOUS
    <2>4. b # Start
        <3>1. w[1] = Start /\ 1 \in 1 .. n
            BY <1>0, <1>3, WalkRuns
        <3> QED BY <2>3, <3>1
    <2>5. PICK p \in Headers(h) : After(h, p) = b
        BY <2>3, <2>4, BlockLinks
    <2>6. p \in Nat /\ b \in Nat /\ p < b /\ b < end
        BY <2>3, <2>5, BlockFacts
    <2>7. PICK k \in 1 .. n : w[k] = p
        BY <2>2, <2>6
    <2>8. h[p].next = b /\ b # Null /\ Follow(h, p) = b
        BY <2>3, <2>5, <2>6, BlockLinks, BlockFacts, FollowFacts
    <2>9. k # n
        BY <1>2, <2>7, <2>8
    <2>10. k + 1 \in 1 .. n /\ k + 1 \in 2 .. Limit /\ (k + 1) - 1 = k
        BY <1>2, <1>3, <2>9, LimitFacts
    <2>11. w[k + 1] = b
        BY <1>0, <2>7, <2>8, <2>10, WalkRuns
    <2> QED BY <2>3, <2>10, <2>11
<1>13. /\ DOMAIN l = 1 .. n /\ Len(l) = n
       /\ \A k \in 1 .. n : l[k] \in Headers(h)
       /\ h[l[n]].next = Null
       /\ \A b \in Headers(h) : \E k \in 1 .. n : l[k] = b
    BY <1>6, <1>7, <1>9, <1>10, <1>11, <1>12
<1> QED BY <1>3, <1>5, <1>13

-----------------------------------------------------------------------------
\* merge_with_next

HeaderRecords == [magic : BOOLEAN, size : Nat, prev : Nat, next : Nat,
                  state : {Free, Allocated, "none"}]

\* The block behind a block lies behind it.
LEMMA NextFacts ==
    ASSUME NEW h, NEW end \in Nat, WellFormed(h, end), NEW b \in Headers(h), h[b].next # Null
    PROVE  /\ h[b].next \in Headers(h) /\ h[b].next = After(h, b) /\ After(h, b) # end
           /\ h[b].next \in Nat /\ b < h[b].next /\ h[b].next # b /\ h[b].next # Start
           /\ h[h[b].next].prev = b
<1>1. /\ h[b].next = After(h, b) /\ After(h, b) \in Headers(h) /\ After(h, b) # end
      /\ h[After(h, b)].prev = b
    BY BlockLinks
<1>2. b \in Nat /\ After(h, b) \in Nat /\ b < After(h, b) /\ Start <= b /\ Start \in Nat
    BY BlockFacts, HeapNumbers
<1> QED BY <1>1, <1>2

\* What becomes of each header.
LEMMA MergeFields ==
    ASSUME NEW h, NEW end \in Nat, WellFormed(h, end), NEW b \in Headers(h),
           NEW n \in Headers(h), n = h[b].next, h[n].state = Free, NEW g, g = Merge(h, b)
    PROVE  /\ g \in [Addresses -> HeaderRecords]
           /\ Headers(g) = Headers(h) \ {n}
           /\ g[b].size = h[b].size + HeaderSize + h[n].size /\ g[b].next = h[n].next
           /\ g[b].prev = h[b].prev /\ g[b].state = h[b].state
           /\ \A c \in Headers(h) \ {b, n} :
                 /\ g[c].size = h[c].size /\ g[c].state = h[c].state /\ g[c].next = h[c].next
                 /\ g[c].prev = IF c = h[n].next THEN b ELSE h[c].prev
<1>1. h \in [Addresses -> HeaderRecords] /\ b \in Addresses /\ n \in Addresses
    BY DEF WellFormed, HeaderRecords, Headers
<1>2. /\ n # Null /\ b # n /\ b \in Nat /\ n \in Nat /\ h[b].size \in Nat /\ h[n].size \in Nat
      /\ HeaderSize \in Nat
    BY BlockFacts, NextFacts, HeapNumbers
<1>3. PICK m \in Nat : m = h[n].next
    BY BlockFacts
<1>4. m # Null => m \in Headers(h) /\ m \in Addresses /\ m # b /\ m # n
    <2> SUFFICES ASSUME m # Null PROVE m \in Headers(h) /\ m \in Addresses /\ m # b /\ m # n
        OBVIOUS
    <2>1. m \in Headers(h) /\ n < m
        BY <1>3, NextFacts
    <2>2. b < n
        BY <1>2, NextFacts
    <2>3. m \in Addresses
        BY <2>1 DEF Headers
    <2> QED BY <1>2, <1>3, <2>1, <2>2, <2>3
<1>5. PICK hb \in HeaderRecords : hb = [h[b] EXCEPT !.size = @ + HeaderSize + h[n].size, !.next = m]
    <2>1. h[b] \in HeaderRecords
        BY <1>1
    <2>2. h[b].size + HeaderSize + h[n].size \in Nat
        BY <1>2
    <2> QED BY <1>3, <2>1, <2>2, Zenon DEF HeaderRecords
<1>6. /\ hb.size = h[b].size + HeaderSize + h[n].size /\ hb.next = m /\ hb.prev = h[b].prev
      /\ hb.state = h[b].state /\ hb.magic = h[b].magic
    <2>1. h[b] \in HeaderRecords
        BY <1>1
    <2> QED BY <1>5, <2>1 DEF HeaderRecords
<1>7. PICK merged : merged = [h EXCEPT ![b].size = @ + HeaderSize + h[n].size,
                                       ![b].next = h[n].next, ![n] = NoHeader]
    BY Zenon
<1>8. NoHeader \in HeaderRecords /\ ~NoHeader.magic
    BY DEF NoHeader, HeaderRecords, Null
<1>9. /\ merged \in [Addresses -> HeaderRecords]
      /\ \A a \in Addresses : merged[a] = IF a = n THEN NoHeader ELSE IF a = b THEN hb ELSE h[a]
    BY <1>1, <1>2, <1>3, <1>5, <1>7, <1>8
<1>10. g = IF m = Null THEN merged ELSE [merged EXCEPT ![m].prev = b]
    BY <1>2, <1>3, <1>7, Zenon DEF Merge
<1>11. PICK hm : hm = [h[m] EXCEPT !.prev = b]
    BY Zenon
<1>12. m # Null => /\ hm \in HeaderRecords /\ hm.prev = b /\ hm.size = h[m].size
                   /\ hm.next = h[m].next /\ hm.state = h[m].state /\ hm.magic = h[m].magic
    <2>1. m # Null => h[m] \in HeaderRecords
        BY <1>1, <1>4
    <2> QED BY <1>2, <1>11, <2>1 DEF HeaderRecords
<1>13. /\ g \in [Addresses -> HeaderRecords]
       /\ \A a \in Addresses : g[a] = IF a = n THEN NoHeader ELSE IF a = b THEN hb
                                      ELSE IF m # Null /\ a = m THEN hm ELSE h[a]
    <2>1. CASE m = Null
        BY <1>9, <1>10, <2>1
    <2>2. CASE m # Null
        <3>1. g = [merged EXCEPT ![m].prev = b] /\ merged[m] = h[m] /\ m \in Addresses
            BY <1>4, <1>9, <1>10, <2>2
        <3>2. g = [merged EXCEPT ![m] = hm]
            BY <1>11, <3>1
        <3> QED BY <1>4, <1>9, <1>12, <2>2, <3>2
    <2> QED BY <2>1, <2>2
<1>14. Headers(g) = Headers(h) \ {n}
    <2>1. ASSUME NEW a \in Addresses PROVE g[a].magic <=> (h[a].magic /\ a # n)
        <3>1. CASE a = n
            BY <1>8, <1>13, <3>1
        <3>2. CASE a = b
            BY <1>2, <1>6, <1>13, <3>2
        <3>3. CASE m # Null /\ a = m
            BY <1>4, <1>12, <1>13, <3>3
        <3>4. CASE a # n /\ a # b /\ ~(m # Null /\ a = m)
            BY <1>13, <3>4
        <3> QED BY <3>1, <3>2, <3>3, <3>4
    <2> QED BY <2>1 DEF Headers
<1>15. g[b] = hb
    BY <1>1, <1>2, <1>13
<1>16. ASSUME NEW c \in Headers(h) \ {b, n}
       PROVE  /\ g[c].size = h[c].size /\ g[c].state = h[c].state /\ g[c].next = h[c].next
              /\ g[c].prev = IF c = h[n].next THEN b ELSE h[c].prev
    <2>1. c \in Addresses /\ c # Null
        BY BlockFacts, SMTT(30)
    <2>2. CASE c = m
        BY <1>3, <1>12, <1>13, <2>1, <2>2, Zenon
    <2>3. CASE c # m
        BY <1>3, <1>13, <2>1, <2>3
    <2> QED BY <2>2, <2>3
<1> QED BY <1>3, <1>6, <1>13, <1>14, <1>15, <1>16

\* A well-formed heap, header by header.
LEMMA WellFormedIf ==
    ASSUME NEW g, NEW end, g \in [Addresses -> HeaderRecords], Start \in Headers(g),
           \A b \in Headers(g) :
              /\ g[b].size >= Alignment /\ g[b].size % Alignment = 0
              /\ g[b].state \in {Free, Allocated} /\ After(g, b) <= end,
           \A b \in Headers(g) :
              IF After(g, b) = end THEN g[b].next = Null
              ELSE /\ g[b].next = After(g, b) /\ After(g, b) \in Headers(g)
                   /\ g[After(g, b)].prev = b,
           \A b \in Headers(g) :
              IF b = Start THEN g[b].prev = Null
              ELSE g[b].prev \in Headers(g) /\ After(g, g[b].prev) = b
    PROVE  WellFormed(g, end)
BY Zenon DEF WellFormed, HeaderRecords

\* Merging keeps the heap well-formed.
LEMMA MergeWellFormed ==
    ASSUME NEW h, NEW end \in Nat, WellFormed(h, end), NEW b \in Headers(h),
           NEW n \in Headers(h), n = h[b].next, h[n].state = Free, NEW g, g = Merge(h, b)
    PROVE  WellFormed(g, end)
<1>1. /\ g \in [Addresses -> HeaderRecords]
      /\ Headers(g) = Headers(h) \ {n}
      /\ g[b].size = h[b].size + HeaderSize + h[n].size /\ g[b].next = h[n].next
      /\ g[b].prev = h[b].prev /\ g[b].state = h[b].state
      /\ \A c \in Headers(h) \ {b, n} :
            /\ g[c].size = h[c].size /\ g[c].state = h[c].state /\ g[c].next = h[c].next
            /\ g[c].prev = IF c = h[n].next THEN b ELSE h[c].prev
    BY MergeFields
<1>2. /\ n = After(h, b) /\ b < n /\ n # b /\ n # Start /\ After(h, b) # end
      /\ b \in Nat /\ n \in Nat /\ Start \in Nat /\ Start <= b
    BY BlockFacts, NextFacts, HeapNumbers
<1>3. b \in Headers(g) /\ Headers(g) \subseteq Headers(h) /\ Start \in Headers(g)
    BY <1>1, <1>2 DEF WellFormed
<1>4. After(g, b) = After(h, n)
    <2>1. After(h, n) = n + HeaderSize + h[n].size /\ After(h, b) = b + HeaderSize + h[b].size
          /\ h[b].size \in Nat /\ h[n].size \in Nat
        BY BlockFacts
    <2> QED BY <1>1, <1>2, <2>1, HeapNumbers DEF After, Payload
<1>5. ASSUME NEW c \in Headers(g), c # b PROVE After(g, c) = After(h, c) /\ c \in Headers(h) \ {b, n}
    BY <1>1, <1>5 DEF After
<1>6. ASSUME NEW c \in Headers(g)
      PROVE  /\ g[c].size >= Alignment /\ g[c].size % Alignment = 0
             /\ g[c].state \in {Free, Allocated} /\ After(g, c) <= end
    <2>1. CASE c = b
        <3>1. /\ h[b].size \in Nat /\ h[n].size \in Nat /\ h[b].size >= Alignment
              /\ After(h, n) <= end
            BY BlockFacts
        <3>2. /\ h[b].size % Alignment = 0 /\ h[n].size % Alignment = 0
              /\ h[b].state \in {Free, Allocated}
            BY BlockLinks
        <3>3. (h[b].size + HeaderSize) % Alignment = 0
            BY <3>1, <3>2, HeapNumbers, Multiples
        <3>4. (h[b].size + HeaderSize + h[n].size) % Alignment = 0
            <4>1. PICK x \in Nat : x = h[b].size + HeaderSize
                BY <3>1, HeapNumbers
            <4>2. (x + h[n].size) % Alignment = 0
                BY <3>1, <3>2, <3>3, <4>1, HeapNumbers, Multiples, Zenon
            <4> QED BY <4>1, <4>2
        <3>5. h[b].size + HeaderSize + h[n].size >= Alignment
            BY <3>1, HeapNumbers
        <3> QED BY <1>1, <1>4, <2>1, <3>1, <3>2, <3>4, <3>5
    <2>2. CASE c # b
        <3>1. c \in Headers(h) \ {b, n} /\ After(g, c) = After(h, c)
            BY <1>5, <2>2
        <3>2. h[c].size >= Alignment /\ After(h, c) <= end
            BY <3>1, BlockFacts
        <3>3. h[c].size % Alignment = 0 /\ h[c].state \in {Free, Allocated}
            BY <3>1, BlockLinks
        <3> QED BY <1>1, <3>1, <3>2, <3>3
    <2> QED BY <2>1, <2>2
<1>7. ASSUME NEW c \in Headers(g)
      PROVE  IF After(g, c) = end THEN g[c].next = Null
             ELSE /\ g[c].next = After(g, c) /\ After(g, c) \in Headers(g)
                  /\ g[After(g, c)].prev = c
    <2>1. CASE c = b
        <3>1. CASE After(h, n) = end
            BY <1>1, <1>4, <2>1, <3>1, BlockLinks
        <3>2. CASE After(h, n) # end
            <4>1. PICK m \in Headers(h) : m = After(h, n) /\ h[n].next = m
                BY <3>2, BlockLinks
            <4>2. m \in Nat /\ n < m
                BY <4>1, BlockFacts
            <4>3. m # n /\ m # b
                BY <1>2, <4>2
            <4> QED BY <1>1, <1>4, <2>1, <3>2, <4>1, <4>3
        <3> QED BY <3>1, <3>2
    <2>2. CASE c # b
        <3>1. c \in Headers(h) \ {b, n} /\ After(g, c) = After(h, c) /\ g[c].next = h[c].next
            BY <1>1, <1>5, <2>2
        <3>2. CASE After(h, c) = end
            BY <3>1, <3>2, BlockLinks
        <3>3. CASE After(h, c) # end
            <4>1. PICK x \in Headers(h) : x = After(h, c) /\ h[c].next = x /\ h[x].prev = c
                BY <3>1, <3>3, BlockLinks
            <4>2. x # n
                BY <1>2, <3>1, <4>1, DifferentAfter
            <4>3. g[x].prev = c
                <5>1. CASE x = b
                    BY <1>1, <4>1, <5>1
                <5>2. CASE x # b
                    <6>1. x # Null
                        BY BlockFacts
                    <6>2. x # h[n].next
                        <7> SUFFICES ASSUME x = h[n].next PROVE FALSE
                            OBVIOUS
                        <7>1. After(h, n) = x
                            BY <6>1, NextFacts
                        <7> QED BY <3>1, <4>1, <7>1, DifferentAfter
                    <6> QED BY <1>1, <4>1, <4>2, <5>2, <6>2
                <5> QED BY <5>1, <5>2
            <4> QED BY <1>1, <3>1, <3>3, <4>1, <4>2, <4>3
        <3> QED BY <3>2, <3>3
    <2> QED BY <2>1, <2>2
<1>8. ASSUME NEW c \in Headers(g)
      PROVE  IF c = Start THEN g[c].prev = Null
             ELSE g[c].prev \in Headers(g) /\ After(g, g[c].prev) = c
    <2>1. CASE c = b
        <3>1. CASE b = Start
            BY <1>1, <2>1, <3>1, BlockLinks
        <3>2. CASE b # Start
            <4>1. PICK p \in Headers(h) : p = h[b].prev /\ After(h, p) = b
                BY <3>2, BlockLinks
            <4>2. p \in Nat /\ p < b
                BY <4>1, BlockFacts
            <4>3. p # b /\ p # n
                BY <1>2, <4>2
            <4>4. p \in Headers(g) /\ After(g, p) = b
                BY <1>1, <1>5, <4>1, <4>3
            <4> QED BY <1>1, <2>1, <3>2, <4>1, <4>4
        <3> QED BY <3>1, <3>2
    <2>2. CASE c # b
        <3>1. c \in Headers(h) \ {b, n}
            BY <1>5, <2>2
        <3>2. CASE c = h[n].next
            <4>1. c # Null
                BY <3>1, BlockFacts
            <4>2. After(h, n) = c /\ c # Start
                BY <3>2, <4>1, NextFacts
            <4>3. g[c].prev = b
                BY <1>1, <3>1, <3>2
            <4> QED BY <1>3, <1>4, <4>2, <4>3
        <3>3. CASE c # h[n].next
            <4>1. g[c].prev = h[c].prev
                BY <1>1, <3>1, <3>3
            <4>2. CASE c = Start
                BY <3>1, <4>1, <4>2, BlockLinks
            <4>3. CASE c # Start
                <5>1. PICK p \in Headers(h) : p = h[c].prev /\ After(h, p) = c
                    BY <3>1, <4>3, BlockLinks
                <5>2. p # b
                    BY <1>2, <3>1, <5>1
                <5>3. c # end
                    BY <3>1, BlockFacts
                <5>4. p # n
                    <6> SUFFICES ASSUME p = n PROVE FALSE
                        OBVIOUS
                    <6>1. h[n].next = c
                        BY <5>1, <5>3, BlockLinks
                    <6> QED BY <3>3, <6>1
                <5>5. p \in Headers(g) /\ After(g, p) = c
                    BY <1>1, <1>5, <5>1, <5>2, <5>4
                <5> QED BY <4>1, <4>3, <5>1, <5>5
            <4> QED BY <4>2, <4>3
        <3> QED BY <3>2, <3>3
    <2> QED BY <2>1, <2>2
<1> QED BY <1>1, <1>3, <1>6, <1>7, <1>8, WellFormedIf

-----------------------------------------------------------------------------
\* split_block

\* Where the new block lies.
LEMMA SplitPlace ==
    ASSUME NEW h, NEW end \in Nat, WellFormed(h, end), end <= Start + MaxSize,
           NEW b \in Headers(h), NEW size \in Nat, size >= Alignment,
           ~(h[b].size - size < HeaderSize + Alignment)
    PROVE  /\ Payload(b) + size \in Addresses /\ Payload(b) + size \in Nat
           /\ b < Payload(b) + size /\ Payload(b) + size < After(h, b)
           /\ Payload(b) + size \notin Headers(h) /\ Payload(b) + size # Null
           /\ h[b].size - size - HeaderSize \in Nat
           /\ h[b].size - size - HeaderSize >= Alignment
           /\ Payload(b) + size + HeaderSize + (h[b].size - size - HeaderSize) = After(h, b)
<1>1. PICK x \in Nat : x = h[b].size
    BY BlockFacts
<1>2. /\ b \in Nat /\ Start <= b /\ After(h, b) = b + HeaderSize + x /\ After(h, b) <= end
    BY <1>1, BlockFacts
<1>3. PICK new \in Nat : new = Payload(b) + size
    BY <1>2, HeapNumbers DEF Payload
<1>4. /\ new = b + HeaderSize + size /\ b < new /\ new < After(h, b) /\ new # Null
      /\ x - size - HeaderSize \in Nat /\ x - size - HeaderSize >= Alignment
      /\ new + HeaderSize + (x - size - HeaderSize) = After(h, b)
    BY <1>1, <1>2, <1>3, HeapNumbers DEF Payload
<1>5. new \in Addresses
    BY <1>2, <1>4, HeapNumbers DEF Addresses
<1>6. new \notin Headers(h)
    <2> SUFFICES ASSUME new \in Headers(h) PROVE FALSE
        OBVIOUS
    <2>1. After(h, b) <= new
        BY <1>4, NoOverlap
    <2> QED BY <1>2, <1>4, <2>1, HeapNumbers
<1> QED BY <1>1, <1>3, <1>4, <1>5, <1>6

\* What becomes of each header.
LEMMA SplitFields ==
    ASSUME NEW h, NEW end \in Nat, WellFormed(h, end), end <= Start + MaxSize,
           NEW b \in Headers(h), NEW size \in Nat, size >= Alignment,
           ~(h[b].size - size < HeaderSize + Alignment),
           NEW new, new = Payload(b) + size, NEW g, g = Split(h, b, size)
    PROVE  /\ g \in [Addresses -> HeaderRecords]
           /\ Headers(g) = Headers(h) \cup {new}
           /\ g[b].size = size /\ g[b].next = new
           /\ g[b].prev = h[b].prev /\ g[b].state = h[b].state
           /\ g[new].size = h[b].size - size - HeaderSize /\ g[new].prev = b
           /\ g[new].next = h[b].next /\ g[new].state = Free
           /\ \A c \in Headers(h) \ {b} :
                 /\ g[c].size = h[c].size /\ g[c].state = h[c].state /\ g[c].next = h[c].next
                 /\ g[c].prev = IF c = h[b].next THEN new ELSE h[c].prev
<1>1. h \in [Addresses -> HeaderRecords] /\ b \in Addresses
    BY DEF WellFormed, HeaderRecords, Headers
<1>2. /\ new \in Addresses /\ new \in Nat /\ b # new /\ new \notin Headers(h) /\ new # Null
      /\ b \in Nat /\ h[b].size - size - HeaderSize \in Nat
    BY SplitPlace, BlockFacts
<1>3. PICK m \in Nat : m = h[b].next
    BY BlockFacts
<1>4. m # Null => m \in Headers(h) /\ m \in Addresses /\ m # b /\ m # new
    BY <1>2, <1>3, NextFacts DEF Headers
<1>5. PICK hn \in HeaderRecords : hn = NewBlock(h[b].size - size - HeaderSize, b, m)
    BY <1>2, <1>3, Zenon DEF NewBlock, HeaderRecords
<1>6. /\ hn.size = h[b].size - size - HeaderSize /\ hn.prev = b /\ hn.next = m
      /\ hn.state = Free /\ hn.magic
    BY <1>5 DEF NewBlock
<1>7. h[b] \in HeaderRecords
    BY <1>1
<1>8. PICK hb \in HeaderRecords : hb = [h[b] EXCEPT !.next = new, !.size = size]
    BY <1>2, <1>7, Zenon DEF HeaderRecords
<1>9. /\ hb.size = size /\ hb.next = new /\ hb.prev = h[b].prev
      /\ hb.state = h[b].state /\ hb.magic = h[b].magic
    BY <1>7, <1>8 DEF HeaderRecords
<1>10. PICK linked : linked = [h EXCEPT ![new] = hn, ![b].next = new, ![b].size = size]
    BY Zenon
<1>11. /\ linked \in [Addresses -> HeaderRecords]
       /\ \A a \in Addresses : linked[a] = IF a = b THEN hb ELSE IF a = new THEN hn ELSE h[a]
    BY <1>1, <1>2, <1>5, <1>8, <1>10
<1>12. g = IF m = Null THEN linked ELSE [linked EXCEPT ![m].prev = new]
    BY <1>3, <1>5, <1>10, Zenon DEF Split
<1>13. PICK hm : hm = [h[m] EXCEPT !.prev = new]
    BY Zenon
<1>14. m # Null => /\ hm \in HeaderRecords /\ hm.prev = new /\ hm.size = h[m].size
                   /\ hm.next = h[m].next /\ hm.state = h[m].state /\ hm.magic = h[m].magic
    <2>1. m # Null => h[m] \in HeaderRecords
        BY <1>1, <1>4
    <2> QED BY <1>2, <1>13, <2>1 DEF HeaderRecords
<1>15. /\ g \in [Addresses -> HeaderRecords]
       /\ \A a \in Addresses : g[a] = IF a = b THEN hb ELSE IF a = new THEN hn
                                      ELSE IF m # Null /\ a = m THEN hm ELSE h[a]
    <2>1. CASE m = Null
        BY <1>11, <1>12, <2>1
    <2>2. CASE m # Null
        <3>1. g = [linked EXCEPT ![m].prev = new] /\ linked[m] = h[m] /\ m \in Addresses
            BY <1>4, <1>11, <1>12, <2>2
        <3>2. g = [linked EXCEPT ![m] = hm]
            BY <1>13, <3>1
        <3> QED BY <1>4, <1>11, <1>14, <2>2, <3>2
    <2> QED BY <2>1, <2>2
<1>16. Headers(g) = Headers(h) \cup {new}
    <2>1. ASSUME NEW a \in Addresses PROVE g[a].magic <=> (h[a].magic \/ a = new)
        <3>1. CASE a = b
            BY <1>2, <1>9, <1>15, <3>1
        <3>2. CASE a = new
            BY <1>2, <1>6, <1>15, <3>2
        <3>3. CASE m # Null /\ a = m
            BY <1>4, <1>14, <1>15, <3>3
        <3>4. CASE a # b /\ a # new /\ ~(m # Null /\ a = m)
            BY <1>15, <3>4
        <3> QED BY <3>1, <3>2, <3>3, <3>4
    <2> QED BY <1>2, <2>1, Zenon DEF Headers
<1>17. g[b] = hb /\ g[new] = hn
    BY <1>1, <1>2, <1>15
<1>18. ASSUME NEW c \in Headers(h) \ {b}
       PROVE  /\ g[c].size = h[c].size /\ g[c].state = h[c].state /\ g[c].next = h[c].next
              /\ g[c].prev = IF c = h[b].next THEN new ELSE h[c].prev
    <2>1. c \in Addresses /\ c # Null /\ c # new
        BY <1>2, BlockFacts
    <2>2. CASE c = m
        BY <1>3, <1>14, <1>15, <2>1, <2>2, Zenon
    <2>3. CASE c # m
        BY <1>3, <1>15, <2>1, <2>3
    <2> QED BY <2>2, <2>3
<1> QED BY <1>3, <1>6, <1>9, <1>15, <1>16, <1>17, <1>18

\* Splitting keeps the heap well-formed.
LEMMA SplitWellFormed ==
    ASSUME NEW h, NEW end \in Nat, WellFormed(h, end), end <= Start + MaxSize,
           NEW b \in Headers(h), NEW size \in Nat, size >= Alignment, size % Alignment = 0,
           ~(h[b].size - size < HeaderSize + Alignment), NEW g, g = Split(h, b, size)
    PROVE  WellFormed(g, end)
<1>0. PICK new : new = Payload(b) + size
    OBVIOUS
<1>1. /\ g \in [Addresses -> HeaderRecords]
      /\ Headers(g) = Headers(h) \cup {new}
      /\ g[b].size = size /\ g[b].next = new
      /\ g[b].prev = h[b].prev /\ g[b].state = h[b].state
      /\ g[new].size = h[b].size - size - HeaderSize /\ g[new].prev = b
      /\ g[new].next = h[b].next /\ g[new].state = Free
      /\ \A c \in Headers(h) \ {b} :
            /\ g[c].size = h[c].size /\ g[c].state = h[c].state /\ g[c].next = h[c].next
            /\ g[c].prev = IF c = h[b].next THEN new ELSE h[c].prev
    BY <1>0, SplitFields
<1>2. /\ new \in Nat /\ b < new /\ new < After(h, b) /\ new \notin Headers(h)
      /\ h[b].size - size - HeaderSize \in Nat
      /\ h[b].size - size - HeaderSize >= Alignment
      /\ new + HeaderSize + (h[b].size - size - HeaderSize) = After(h, b)
    BY <1>0, SplitPlace
<1>3. /\ b \in Nat /\ Start <= b /\ After(h, b) <= end /\ After(h, b) \in Nat
      /\ h[b].size \in Nat /\ Start \in Nat
    BY BlockFacts, HeapNumbers
<1>4. b # new /\ new # end /\ new # Start /\ Start \in Headers(g)
    BY <1>1, <1>2, <1>3 DEF WellFormed
<1>5. After(g, b) = new /\ After(g, new) = After(h, b)
    BY <1>0, <1>1, <1>2 DEF After, Payload
<1>6. ASSUME NEW c \in Headers(h) \ {b} PROVE After(g, c) = After(h, c)
    BY <1>1, <1>6 DEF After
<1>7. ASSUME NEW c \in Headers(g)
      PROVE  /\ g[c].size >= Alignment /\ g[c].size % Alignment = 0
             /\ g[c].state \in {Free, Allocated} /\ After(g, c) <= end
    <2>1. CASE c = b
        <3>1. h[b].state \in {Free, Allocated}
            BY BlockLinks
        <3>2. new <= end
            BY <1>2, <1>3
        <3> QED BY <1>1, <1>5, <2>1, <3>1, <3>2
    <2>2. CASE c = new
        <3>1. h[b].size % Alignment = 0
            BY BlockLinks
        <3>2. PICK x \in Nat : x = h[b].size - size /\ HeaderSize <= x
            BY <1>2, <1>3, HeapNumbers
        <3>3. x % Alignment = 0
            <4>1. size <= h[b].size
                BY <1>3, <3>2
            <4> QED BY <1>3, <3>1, <3>2, <4>1, HeapNumbers, Multiples
        <3>4. (x - HeaderSize) % Alignment = 0
            BY <3>2, <3>3, HeapNumbers, Multiples, Zenon
        <3> QED BY <1>1, <1>2, <1>3, <1>5, <2>2, <3>2, <3>4, Zenon
    <2>3. CASE c \in Headers(h) \ {b}
        <3>1. h[c].size >= Alignment /\ After(h, c) <= end
            BY <2>3, BlockFacts
        <3>2. h[c].size % Alignment = 0 /\ h[c].state \in {Free, Allocated}
            BY <2>3, BlockLinks
        <3> QED BY <1>1, <1>6, <2>3, <3>1, <3>2, Zenon
    <2> QED BY <1>1, <2>1, <2>2, <2>3, Zenon
<1>8. ASSUME NEW c \in Headers(g)
      PROVE  IF After(g, c) = end THEN g[c].next = Null
             ELSE /\ g[c].next = After(g, c) /\ After(g, c) \in Headers(g)
                  /\ g[After(g, c)].prev = c
    <2>1. CASE c = b
        BY <1>1, <1>4, <1>5, <2>1
    <2>2. CASE c = new
        <3>1. CASE After(h, b) = end
            BY <1>1, <1>5, <2>2, <3>1, BlockLinks
        <3>2. CASE After(h, b) # end
            <4>1. PICK m \in Headers(h) : m = After(h, b) /\ h[b].next = m
                BY <3>2, BlockLinks
            <4>2. m # b
                BY <1>3, <4>1, BlockFacts
            <4> QED BY <1>1, <1>5, <2>2, <3>2, <4>1, <4>2
        <3> QED BY <3>1, <3>2
    <2>3. CASE c \in Headers(h) \ {b}
        <3>1. After(g, c) = After(h, c) /\ g[c].next = h[c].next
            BY <1>1, <1>6, <2>3
        <3>2. CASE After(h, c) = end
            BY <2>3, <3>1, <3>2, BlockLinks
        <3>3. CASE After(h, c) # end
            <4>1. PICK x \in Headers(h) : x = After(h, c) /\ h[c].next = x /\ h[x].prev = c
                BY <2>3, <3>3, BlockLinks
            <4>2. g[x].prev = c
                <5>1. CASE x = b
                    BY <1>1, <4>1, <5>1
                <5>2. CASE x # b
                    <6>1. x # Null
                        BY BlockFacts
                    <6>2. x # h[b].next
                        <7> SUFFICES ASSUME x = h[b].next PROVE FALSE
                            OBVIOUS
                        <7>1. After(h, b) = x
                            BY <6>1, NextFacts
                        <7> QED BY <2>3, <4>1, <7>1, DifferentAfter
                    <6> QED BY <1>1, <4>1, <5>2, <6>2
                <5> QED BY <5>1, <5>2
            <4> QED BY <1>1, <3>1, <3>3, <4>1, <4>2
        <3> QED BY <3>2, <3>3
    <2> QED BY <1>1, <2>1, <2>2, <2>3, Zenon
<1>9. ASSUME NEW c \in Headers(g)
      PROVE  IF c = Start THEN g[c].prev = Null
             ELSE g[c].prev \in Headers(g) /\ After(g, g[c].prev) = c
    <2>1. CASE c = b
        <3>1. CASE b = Start
            BY <1>1, <2>1, <3>1, BlockLinks
        <3>2. CASE b # Start
            <4>1. PICK p \in Headers(h) : p = h[b].prev /\ After(h, p) = b
                BY <3>2, BlockLinks
            <4>2. p # b
                BY <1>3, <4>1, BlockFacts
            <4>3. After(g, p) = b
                BY <1>6, <4>1, <4>2
            <4> QED BY <1>1, <2>1, <3>2, <4>1, <4>3
        <3> QED BY <3>1, <3>2
    <2>2. CASE c = new
        BY <1>1, <1>4, <1>5, <2>2
    <2>3. CASE c \in Headers(h) \ {b}
        <3>1. CASE c = h[b].next
            <4>1. c # Null
                BY <2>3, BlockFacts
            <4>2. After(h, b) = c /\ c # Start
                BY <3>1, <4>1, NextFacts
            <4>3. g[c].prev = new
                BY <1>1, <2>3, <3>1
            <4> QED BY <1>1, <1>5, <4>2, <4>3, Zenon
        <3>2. CASE c # h[b].next
            <4>1. g[c].prev = h[c].prev
                BY <1>1, <2>3, <3>2
            <4>2. CASE c = Start
                BY <2>3, <4>1, <4>2, BlockLinks
            <4>3. CASE c # Start
                <5>1. PICK p \in Headers(h) : p = h[c].prev /\ After(h, p) = c
                    BY <2>3, <4>3, BlockLinks
                <5>2. c # end
                    BY <2>3, BlockFacts
                <5>3. p # b
                    BY <3>2, <5>1, <5>2, BlockLinks
                <5>4. After(g, p) = c
                    BY <1>6, <5>1, <5>3
                <5> QED BY <1>1, <4>1, <4>3, <5>1, <5>4
            <4> QED BY <4>2, <4>3
        <3> QED BY <3>1, <3>2
    <2> QED BY <1>1, <2>1, <2>2, <2>3, Zenon
<1> QED BY <1>1, <1>4, <1>7, <1>8, <1>9, WellFormedIf

-----------------------------------------------------------------------------
\* A block changes hands.
Marked(h, b, s) == [h EXCEPT ![b].state = s]

\* Marking a block as free or allocated changes its state and no other field.
LEMMA StateFields ==
    ASSUME NEW h, NEW end \in Nat, WellFormed(h, end), NEW b \in Headers(h),
           NEW s \in {Free, Allocated}, NEW g, g = Marked(h, b, s)
    PROVE  /\ g \in [Addresses -> HeaderRecords] /\ Headers(g) = Headers(h)
           /\ \A a \in Addresses : /\ g[a].size = h[a].size /\ g[a].next = h[a].next
                                   /\ g[a].prev = h[a].prev
                                   /\ g[a].state = IF a = b THEN s ELSE h[a].state
<1>1. h \in [Addresses -> HeaderRecords] /\ b \in Addresses
    BY DEF WellFormed, HeaderRecords, Headers
<1>2. h[b] \in HeaderRecords
    BY <1>1
<1>3. PICK hb \in HeaderRecords : hb = [h[b] EXCEPT !.state = s]
    BY <1>2, Zenon DEF HeaderRecords
<1>4. /\ hb.size = h[b].size /\ hb.next = h[b].next /\ hb.prev = h[b].prev /\ hb.state = s
      /\ hb.magic = h[b].magic
    BY <1>2, <1>3 DEF HeaderRecords
<1>5. g = [h EXCEPT ![b] = hb]
    BY <1>1, <1>3 DEF Marked
<1>6. /\ g \in [Addresses -> HeaderRecords]
      /\ \A a \in Addresses : g[a] = IF a = b THEN hb ELSE h[a]
    BY <1>1, <1>3, <1>5
<1>7. Headers(g) = Headers(h)
    BY <1>4, <1>6 DEF Headers
<1> QED BY <1>4, <1>6, <1>7

\* Marking a block as free or allocated keeps the list well formed.
LEMMA StateWellFormed ==
    ASSUME NEW h, NEW end \in Nat, WellFormed(h, end), NEW b \in Headers(h),
           NEW s \in {Free, Allocated}, NEW g, g = Marked(h, b, s)
    PROVE  WellFormed(g, end)
<1>1. /\ g \in [Addresses -> HeaderRecords] /\ Headers(g) = Headers(h)
      /\ \A a \in Addresses : /\ g[a].size = h[a].size /\ g[a].next = h[a].next
                              /\ g[a].prev = h[a].prev
                              /\ g[a].state = IF a = b THEN s ELSE h[a].state
    BY StateFields
<1>2. Headers(h) \subseteq Addresses
    BY DEF Headers
<1>3. \A c \in Headers(h) : After(g, c) = After(h, c)
    BY <1>1, <1>2 DEF After
<1>4. ASSUME NEW c \in Headers(g)
      PROVE  /\ g[c].size >= Alignment /\ g[c].size % Alignment = 0
             /\ g[c].state \in {Free, Allocated} /\ After(g, c) <= end
    <2>1. h[c].size >= Alignment /\ After(h, c) <= end
        BY <1>1, BlockFacts
    <2>2. h[c].size % Alignment = 0 /\ h[c].state \in {Free, Allocated}
        BY <1>1, BlockLinks
    <2> QED BY <1>1, <1>2, <1>3, <2>1, <2>2
<1>5. ASSUME NEW c \in Headers(g)
      PROVE  IF After(g, c) = end THEN g[c].next = Null
             ELSE /\ g[c].next = After(g, c) /\ After(g, c) \in Headers(g)
                  /\ g[After(g, c)].prev = c
    <2>1. c \in Headers(h) /\ c \in Addresses
        BY <1>1, <1>2
    <2>2. IF After(h, c) = end THEN h[c].next = Null
          ELSE /\ h[c].next = After(h, c) /\ After(h, c) \in Headers(h)
               /\ h[After(h, c)].prev = c
        BY <2>1, BlockLinks
    <2> QED BY <1>1, <1>2, <1>3, <2>1, <2>2
<1>6. ASSUME NEW c \in Headers(g)
      PROVE  IF c = Start THEN g[c].prev = Null
             ELSE g[c].prev \in Headers(g) /\ After(g, g[c].prev) = c
    <2>1. c \in Headers(h) /\ c \in Addresses
        BY <1>1, <1>2
    <2>2. IF c = Start THEN h[c].prev = Null
          ELSE h[c].prev \in Headers(h) /\ After(h, h[c].prev) = c
        BY <2>1, BlockLinks
    <2> QED BY <1>1, <1>2, <1>3, <2>1, <2>2
<1>7. Start \in Headers(g)
    BY <1>1 DEF WellFormed
<1> QED BY <1>1, <1>4, <1>5, <1>6, <1>7, WellFormedIf

-----------------------------------------------------------------------------
\* grow_heap

\* The last block is free and grows.
LEMMA LastGrows ==
    ASSUME NEW h, NEW end \in Nat, WellFormed(h, end), NEW t \in Headers(h), h[t].next = Null,
           NEW bytes \in Nat \ {0}, bytes % Alignment = 0, h[t].state = Free,
           NEW g, g = Extended(h, t, end, bytes)
    PROVE  /\ WellFormed(g, end + bytes) /\ Headers(g) = Headers(h)
           /\ g[t].size = h[t].size + bytes
           /\ \A c \in Headers(h) : /\ g[c].next = h[c].next /\ g[c].state = h[c].state
                                    /\ c # t => g[c].size = h[c].size
<1>1. h \in [Addresses -> HeaderRecords] /\ t \in Addresses /\ Headers(h) \subseteq Addresses
    BY DEF WellFormed, HeaderRecords, Headers
<1>2. h[t].size \in Nat /\ h[t] \in HeaderRecords /\ h[t].size >= Alignment
    BY <1>1, BlockFacts
<1>3. PICK ht \in HeaderRecords : ht = [h[t] EXCEPT !.size = @ + bytes]
    <2>1. h[t].size + bytes \in Nat
        BY <1>2
    <2> QED BY <1>2, <2>1, Zenon DEF HeaderRecords
<1>4. /\ ht.size = h[t].size + bytes /\ ht.next = h[t].next /\ ht.prev = h[t].prev
      /\ ht.state = h[t].state /\ ht.magic = h[t].magic
    BY <1>2, <1>3 DEF HeaderRecords
<1>5. g = [h EXCEPT ![t] = ht]
    BY <1>1, <1>3 DEF Extended
<1>6. /\ g \in [Addresses -> HeaderRecords]
      /\ \A a \in Addresses : g[a] = IF a = t THEN ht ELSE h[a]
    BY <1>1, <1>3, <1>5
<1>7. Headers(g) = Headers(h)
    BY <1>4, <1>6 DEF Headers
<1>8. /\ g[t].size = h[t].size + bytes
      /\ \A a \in Addresses : /\ g[a].next = h[a].next /\ g[a].state = h[a].state
                              /\ g[a].prev = h[a].prev
                              /\ a # t => g[a].size = h[a].size
    BY <1>1, <1>4, <1>6
<1>9. After(h, t) = end
    <2>1. After(h, t) # end => After(h, t) \in Headers(h) /\ h[t].next = After(h, t)
        BY BlockLinks
    <2> QED BY <2>1, BlockFacts
<1>10. After(g, t) = end + bytes
    BY <1>2, <1>8, <1>9, BlockFacts, HeapNumbers DEF After, Payload
<1>11. ASSUME NEW c \in Headers(h), c # t
       PROVE  After(g, c) = After(h, c) /\ After(h, c) # end /\ After(h, c) # end + bytes
              /\ After(h, c) <= end + bytes
    <2>1. After(h, c) # end
        BY <1>9, <1>11, DifferentAfter
    <2>2. After(h, c) \in Nat /\ After(h, c) <= end
        BY BlockFacts
    <2>3. After(g, c) = After(h, c)
        BY <1>1, <1>8, <1>11, Zenon DEF After
    <2> QED BY <2>1, <2>2, <2>3
<1>12. ASSUME NEW c \in Headers(g)
       PROVE  /\ g[c].size >= Alignment /\ g[c].size % Alignment = 0
              /\ g[c].state \in {Free, Allocated} /\ After(g, c) <= end + bytes
    <2>1. c \in Headers(h) /\ c \in Addresses
        BY <1>1, <1>7
    <2>2. h[c].size >= Alignment /\ h[c].size \in Nat
        BY <2>1, BlockFacts
    <2>3. h[c].size % Alignment = 0 /\ h[c].state \in {Free, Allocated}
        BY <2>1, BlockLinks
    <2>4. CASE c = t
        <3>1. (h[t].size + bytes) % Alignment = 0
            BY <1>2, <2>3, <2>4, HeapNumbers, Multiples
        <3>2. h[t].size + bytes >= Alignment
            BY <1>2, HeapNumbers
        <3> QED BY <1>8, <1>10, <2>1, <2>3, <2>4, <3>1, <3>2
    <2>5. CASE c # t
        BY <1>8, <1>11, <2>1, <2>2, <2>3, <2>5, Zenon
    <2> QED BY <2>4, <2>5
<1>13. ASSUME NEW c \in Headers(g)
       PROVE  IF After(g, c) = end + bytes THEN g[c].next = Null
              ELSE /\ g[c].next = After(g, c) /\ After(g, c) \in Headers(g)
                   /\ g[After(g, c)].prev = c
    <2>1. c \in Headers(h) /\ c \in Addresses
        BY <1>1, <1>7
    <2>2. CASE c = t
        BY <1>8, <1>10, <2>1, <2>2
    <2>3. CASE c # t
        <3>1. /\ h[c].next = After(h, c) /\ After(h, c) \in Headers(h)
              /\ h[After(h, c)].prev = c
            BY <1>11, <2>1, <2>3, BlockLinks
        <3> QED BY <1>1, <1>7, <1>8, <1>11, <2>1, <2>3, <3>1
    <2> QED BY <2>2, <2>3
<1>14. ASSUME NEW c \in Headers(g)
       PROVE  IF c = Start THEN g[c].prev = Null
              ELSE g[c].prev \in Headers(g) /\ After(g, g[c].prev) = c
    <2>1. c \in Headers(h) /\ c \in Addresses
        BY <1>1, <1>7
    <2>2. IF c = Start THEN h[c].prev = Null
          ELSE h[c].prev \in Headers(h) /\ After(h, h[c].prev) = c
        BY <2>1, BlockLinks
    <2>3. c # end
        BY <2>1, BlockFacts
    <2>4. c # Start => h[c].prev # t
        BY <1>9, <2>2, <2>3
    <2> QED BY <1>7, <1>8, <1>11, <2>1, <2>2, <2>4, Zenon
<1>15. Start \in Headers(g)
    BY <1>7 DEF WellFormed
<1>16. WellFormed(g, end + bytes)
    BY <1>6, <1>12, <1>13, <1>14, <1>15, WellFormedIf
<1> QED BY <1>1, <1>7, <1>8, <1>16

\* The last block is allocated and a free one is put behind it.
LEMMA BlockAppended ==
    ASSUME NEW h, NEW end \in Nat, WellFormed(h, end), NEW t \in Headers(h), h[t].next = Null,
           NEW bytes \in Nat, bytes % Alignment = 0, bytes >= HeaderSize + Alignment,
           end + bytes <= Start + MaxSize, h[t].state # Free,
           NEW g, g = Extended(h, t, end, bytes)
    PROVE  /\ WellFormed(g, end + bytes) /\ Headers(g) = Headers(h) \cup {end}
           /\ end \notin Headers(h)
           /\ g[end].size = bytes - HeaderSize /\ g[end].state = Free /\ g[end].next = Null
           /\ \A c \in Headers(h) : /\ c # t => g[c].next = h[c].next
                                    /\ g[c].state = h[c].state /\ g[c].size = h[c].size
<1>1. h \in [Addresses -> HeaderRecords] /\ t \in Addresses /\ Headers(h) \subseteq Addresses
    BY DEF WellFormed, HeaderRecords, Headers
<1>2. h[t] \in HeaderRecords /\ t \in Nat /\ Start <= t /\ t < After(h, t) /\ Start \in Nat
    BY <1>1, BlockFacts, HeapNumbers
<1>3. After(h, t) = end
    <2>1. After(h, t) # end => After(h, t) \in Headers(h) /\ h[t].next = After(h, t)
        BY BlockLinks
    <2> QED BY <2>1, BlockFacts
<1>4. end \in Addresses /\ end # t /\ end # Start /\ bytes - HeaderSize \in Nat
      /\ end # Null /\ bytes \in Nat \ {0}
    BY <1>2, <1>3, HeapNumbers DEF Addresses
<1>5. end \notin Headers(h)
    BY BlockFacts
<1>6. PICK ht \in HeaderRecords : ht = [h[t] EXCEPT !.next = end]
    BY <1>2, Zenon DEF HeaderRecords
<1>7. /\ ht.size = h[t].size /\ ht.next = end /\ ht.prev = h[t].prev
      /\ ht.state = h[t].state /\ ht.magic = h[t].magic
    BY <1>2, <1>6 DEF HeaderRecords
<1>8. PICK hn \in HeaderRecords : hn = NewBlock(bytes - HeaderSize, t, Null)
    BY <1>2, <1>4, Zenon DEF NewBlock, HeaderRecords, Null
<1>9. /\ hn.size = bytes - HeaderSize /\ hn.prev = t /\ hn.next = Null
      /\ hn.state = Free /\ hn.magic
    BY <1>8 DEF NewBlock
<1>10. g = [h EXCEPT ![t].next = end, ![end] = hn]
    BY <1>8 DEF Extended
<1>11. /\ g \in [Addresses -> HeaderRecords]
       /\ \A a \in Addresses : g[a] = IF a = end THEN hn ELSE IF a = t THEN ht ELSE h[a]
    BY <1>1, <1>4, <1>6, <1>8, <1>10
<1>12. Headers(g) = Headers(h) \cup {end}
    <2>1. ASSUME NEW a \in Addresses PROVE g[a].magic <=> (h[a].magic \/ a = end)
        <3>1. CASE a = end
            BY <1>9, <1>11, <3>1
        <3>2. CASE a = t
            BY <1>4, <1>7, <1>11, <3>2, Zenon
        <3>3. CASE a # end /\ a # t
            BY <1>11, <3>3
        <3> QED BY <3>1, <3>2, <3>3
    <2> QED BY <1>4, <2>1 DEF Headers
<1>13. /\ g[end].size = bytes - HeaderSize /\ g[end].prev = t /\ g[end].next = Null
       /\ g[end].state = Free /\ g[t].next = end
       /\ \A c \in Headers(h) : /\ c # t => g[c].next = h[c].next
                                /\ g[c].prev = h[c].prev /\ g[c].state = h[c].state
                                /\ g[c].size = h[c].size
    BY <1>1, <1>4, <1>5, <1>7, <1>9, <1>11
<1>14. /\ After(g, end) = end + bytes
       /\ \A c \in Headers(h) : After(g, c) = After(h, c)
    BY <1>13, HeapNumbers DEF After, Payload
<1>15. ASSUME NEW c \in Headers(h)
       PROVE  /\ After(h, c) # end + bytes /\ After(h, c) <= end + bytes
              /\ c # t => After(h, c) # end
    <2>1. c # t => After(h, c) # end
        BY <1>3, DifferentAfter
    <2>2. After(h, c) \in Nat /\ After(h, c) <= end
        BY BlockFacts, Zenon
    <2> QED BY <1>4, <2>1, <2>2
<1>16. ASSUME NEW c \in Headers(g)
       PROVE  /\ g[c].size >= Alignment /\ g[c].size % Alignment = 0
              /\ g[c].state \in {Free, Allocated} /\ After(g, c) <= end + bytes
    <2>1. CASE c = end
        <3>1. (bytes - HeaderSize) % Alignment = 0 /\ bytes - HeaderSize >= Alignment
            BY HeapNumbers, Multiples
        <3> QED BY <1>13, <1>14, <2>1, <3>1
    <2>2. CASE c \in Headers(h)
        <3>1. h[c].size >= Alignment
            BY <2>2, BlockFacts, Zenon
        <3>2. h[c].size % Alignment = 0 /\ h[c].state \in {Free, Allocated}
            BY <2>2, BlockLinks, Zenon
        <3> QED BY <1>13, <1>14, <1>15, <2>2, <3>1, <3>2, Zenon
    <2> QED BY <1>12, <2>1, <2>2
<1>17. ASSUME NEW c \in Headers(g)
       PROVE  IF After(g, c) = end + bytes THEN g[c].next = Null
              ELSE /\ g[c].next = After(g, c) /\ After(g, c) \in Headers(g)
                   /\ g[After(g, c)].prev = c
    <2>1. CASE c = end
        BY <1>13, <1>14, <2>1, Zenon
    <2>2. CASE c = t
        BY <1>3, <1>12, <1>13, <1>14, <1>15, <2>2, Zenon
    <2>3. CASE c \in Headers(h) /\ c # t
        <3>1. /\ h[c].next = After(h, c) /\ After(h, c) \in Headers(h)
              /\ h[After(h, c)].prev = c
            BY <1>15, <2>3, BlockLinks
        <3> QED BY <1>12, <1>13, <1>14, <1>15, <2>3, <3>1
    <2> QED BY <1>12, <2>1, <2>2, <2>3, Zenon
<1>18. ASSUME NEW c \in Headers(g)
       PROVE  IF c = Start THEN g[c].prev = Null
              ELSE g[c].prev \in Headers(g) /\ After(g, g[c].prev) = c
    <2>1. CASE c = end
        BY <1>3, <1>4, <1>12, <1>13, <1>14, <2>1, Zenon
    <2>2. CASE c \in Headers(h)
        <3>1. IF c = Start THEN h[c].prev = Null
              ELSE h[c].prev \in Headers(h) /\ After(h, h[c].prev) = c
            BY <2>2, BlockLinks
        <3> QED BY <1>12, <1>13, <1>14, <2>2, <3>1, Zenon
    <2> QED BY <1>12, <2>1, <2>2
<1>19. Start \in Headers(g)
    BY <1>12 DEF WellFormed
<1>20. WellFormed(g, end + bytes)
    BY <1>11, <1>16, <1>17, <1>18, <1>19, WellFormedIf
<1> QED BY <1>5, <1>12, <1>13, <1>20
=============================================================================
