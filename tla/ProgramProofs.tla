--------------------------- MODULE ProgramProofs ---------------------------
(***************************************************************************)
(* Proofs about the programs and about the parts of the kernel that take   *)
(* what programs pass to it: the editor, the copies to and from user       *)
(* memory, and the ELF loader.  They share no state; each part of this     *)
(* module is about the specification of one of them.                       *)
(***************************************************************************)
EXTENDS Edit, UserMemory, ElfImage, WellFoundedInduction, TLAPS

-----------------------------------------------------------------------------
\* Numbers.

\* A difference of two residues needs at most one correction.
LEMMA ModDifference ==
    ASSUME NEW m \in Nat \ {0}, NEW a \in 0 .. m - 1, NEW b \in 0 .. m - 1
    PROVE  (a - b) % m = IF a < b THEN a - b + m ELSE a - b
<1> DEFINE d == a - b
<1>1. d \in Int /\ -m < d /\ d < m
    OBVIOUS
<1> HIDE DEF d
<1>2. d % m = IF d < 0 THEN d + m ELSE d
    BY <1>1
<1> QED BY <1>2 DEF d

\* What a division leaves is smaller than the divisor.
LEMMA Quotient ==
    ASSUME NEW x \in Nat, NEW d \in Nat \ {0}
    PROVE  /\ x \div d \in Nat
           /\ (x \div d) * d <= x /\ x < (x \div d) * d + d
OBVIOUS

\* A number is made of its quotient and its residue,
LEMMA Division ==
    ASSUME NEW x \in Nat, NEW d \in Nat \ {0}
    PROVE  \E q \in Nat, r \in 0 .. d - 1 :
              x = q * d + r /\ x \div d = q /\ x % d = r
<1>1. x \div d \in Nat /\ x % d \in 0 .. d - 1
    OBVIOUS
<1>2. x % d = x - d * (x \div d)
    OBVIOUS
<1>3. PICK q \in Nat, r \in 0 .. d - 1 : q = x \div d /\ r = x % d
    BY <1>1
<1>4. r = x - d * q
    BY <1>2, <1>3, Zenon
<1>5. x = q * d + r
    BY <1>4
<1> QED BY <1>3, <1>5, Zenon

\* in one way only.
LEMMA DivisionUnique ==
    ASSUME NEW d \in Nat \ {0}, NEW q \in Nat, NEW r \in 0 .. d - 1
    PROVE  (q * d + r) \div d = q /\ (q * d + r) % d = r
<1>1. q * d + r \in Nat
    OBVIOUS
<1>2. PICK x \in Nat : x = q * d + r
    BY <1>1
<1>3. PICK p \in Nat, s \in 0 .. d - 1 : x = p * d + s /\ x \div d = p /\ x % d = s
    BY Division
<1>4. q * d + r = p * d + s /\ q * d \in Nat /\ p * d \in Nat
    BY <1>2, <1>3
<1>5. ~(p < q)
    <2> SUFFICES ASSUME p + 1 <= q PROVE FALSE
        OBVIOUS
    <2>1. (p + 1) * d <= q * d /\ (p + 1) * d = p * d + d
        OBVIOUS
    <2> QED BY <1>4, <2>1
<1>6. ~(q < p)
    <2> SUFFICES ASSUME q + 1 <= p PROVE FALSE
        OBVIOUS
    <2>1. (q + 1) * d <= p * d /\ (q + 1) * d = q * d + d
        OBVIOUS
    <2> QED BY <1>4, <2>1
<1>7. p = q
    BY <1>5, <1>6
<1>8. s = r
    BY <1>4, <1>7
<1> QED BY <1>2, <1>3, <1>7, <1>8, Zenon

\* Quotients are in the order of what is divided.
LEMMA QuotientMonotone ==
    ASSUME NEW x \in Nat, NEW y \in Nat, NEW d \in Nat \ {0}, x <= y
    PROVE  x \div d <= y \div d
<1>1. PICK p \in Nat, q \in Nat : p = x \div d /\ q = y \div d
    BY Quotient
<1>2. p * d <= x /\ y < q * d + d
    BY <1>1, Quotient
<1>3. ~(q < p)
    <2> SUFFICES ASSUME q + 1 <= p PROVE FALSE
        OBVIOUS
    <2>1. (q + 1) * d <= p * d
        OBVIOUS
    <2> QED BY <1>2, <2>1
<1> QED BY <1>1, <1>3

\* Multiplication by a natural number keeps the order.
LEMMA ProductMonotone ==
    ASSUME NEW a \in Nat, NEW b \in Nat, NEW d \in Nat, a <= b
    PROVE  a * d <= b * d
OBVIOUS

\* A non-empty set of naturals has a least element.
LEMMA LeastElement ==
    ASSUME NEW T \in SUBSET Nat, T # {}
    PROVE  \E x \in T : \A y \in T : x <= y
<1>1. PICK x \in T : \A y \in T : ~(<<y, x>> \in OpToRel(<, Nat))
    BY NatLessThanWellFounded, WFMin, Zenon
<1>2. \A y \in T : ~(y < x)
    BY <1>1, Zenon DEF OpToRel
<1> QED BY <1>2

-----------------------------------------------------------------------------
\* The editor.

\* Every way in which process_command changes the text sets the flag.
LEMMA ReplaceStep ==
    ASSUME EditInv, at = "command", at' = "prompt",
           NEW start, NEW end, NEW new, Replace(start, end, new)
    PROVE  EditInv'
<1>1. CASE Fits(text, start, end, new)
    <2>1. /\ dirty' = TRUE /\ changed' = (changed \/ text' # text)
          /\ UNCHANGED <<file, failed>>
        BY <1>1 DEF Replace
    <2>2. CASE changed'
        BY <2>1, <2>2, Zenon DEF EditInv
    <2>3. CASE ~changed'
        <3>1. ~changed /\ UNCHANGED text
            BY <2>1, <2>3, Zenon
        <3> QED BY <2>1, <2>3, <3>1 DEF EditInv, HoldsText, FirstPart
    <2> QED BY <2>2, <2>3
<1>2. CASE ~Fits(text, start, end, new)
    <2>1. UNCHANGED <<text, dirty, file, failed>> /\ changed' = (changed \/ text' # text)
        BY <1>2 DEF Replace
    <2>2. changed' = changed
        BY <2>1 DEF EditInv
    <2> QED BY <2>1, <2>2 DEF EditInv, HoldsText, FirstPart
<1> QED BY <1>1, <1>2

\* a, i, r and d.
LEMMA ChangeTextStep ==
    ASSUME EditInv, at = "command", ChangeText
    PROVE  EditInv'
<1> DEFINE n == command.number
<1>1. at' = "prompt"
    BY DEF ChangeText
<1>2. Refuse => EditInv'
    BY <1>1 DEF Refuse, EditInv, HoldsText, FirstPart
<1>3. ASSUME NEW line PROVE AppendLine(line) => EditInv'
    BY <1>1, ReplaceStep DEF AppendLine
<1>4. CASE command.verb = "a"
    BY <1>3, <1>4 DEF ChangeText
<1>5. CASE command.verb = "i"
    BY <1>1, <1>2, <1>3, <1>5, ReplaceStep DEF ChangeText, InsertLine
<1>6. CASE command.verb = "r"
    BY <1>1, <1>2, <1>6, ReplaceStep DEF ChangeText, ReplaceLine
<1>7. CASE command.verb = "d"
    BY <1>1, <1>2, <1>7, ReplaceStep DEF ChangeText, DeleteLine
<1> QED BY <1>4, <1>5, <1>6, <1>7 DEF ChangeText

\* save_file clears the flag only when every byte is in the file.
LEMMA SaveStep ==
    ASSUME EditInv, at = "command", Save
    PROVE  EditInv'
<1>1. at' = "prompt" /\ UNCHANGED text
    BY DEF Save
<1>2. CASE OpenFails
    BY <1>1, <1>2 DEF OpenFails, EditInv, HoldsText, FirstPart
<1>3. ASSUME NEW count \in 0 .. Capacity, WriteFails(count) PROVE EditInv'
    BY <1>1, <1>3 DEF WriteFails, EditInv, HoldsText, FirstPart
<1>4. ASSUME NEW closed \in BOOLEAN, WriteSucceeds(closed) PROVE EditInv'
    BY <1>1, <1>4 DEF WriteSucceeds, EditInv, HoldsText, FirstPart
<1> QED BY <1>2, <1>3, <1>4 DEF Save

\* Every command of the editor keeps dirty in step with the text and the file.
LEMMA EditNextInv == EditInv /\ [EditNext]_editVars => EditInv'
<1> SUFFICES ASSUME EditInv, [EditNext]_editVars PROVE EditInv'
    OBVIOUS
<1>1. CASE Load
    BY <1>1 DEF Load, EditInv, HoldsText
<1>2. CASE LoadFails
    BY <1>2 DEF LoadFails, EditInv
<1>3. CASE ReadCommand
    BY <1>3 DEF ReadCommand, EditInv, HoldsText, FirstPart
<1>4. CASE ProcessCommand
    <2>1. CASE Leave
        BY <1>4, <2>1 DEF ProcessCommand, Leave, EditInv, HoldsText, FirstPart
    <2>2. CASE Other
        BY <1>4, <2>2 DEF ProcessCommand, Other, EditInv, HoldsText, FirstPart
    <2> QED BY <1>4, <2>1, <2>2, ChangeTextStep, SaveStep DEF ProcessCommand
<1>5. CASE UNCHANGED editVars
    BY <1>5 DEF editVars, EditInv, HoldsText, FirstPart
<1> QED BY <1>1, <1>2, <1>3, <1>4, <1>5 DEF EditNext

\* The commands q and ^D of edit.c never lose a change, whatever commands came
\* before, which of the system calls of a save failed, and however long the
\* buffer is; all that a failed save of an unchanged text may cost, after its
\* error message, is a last part of the file.
THEOREM QuitIsSafe == EditSpec => []QuitKeepsChanges
<1>1. EditInit => EditInv
    BY Zenon DEF EditInit, EditInv
<1>2. EditInv => QuitKeepsChanges
    BY DEF EditInv, QuitKeepsChanges
<1> QED BY <1>1, <1>2, EditNextInv, PTL DEF EditSpec

-----------------------------------------------------------------------------
\* Addresses and pages.

\* An address is its own residue.
LEMMA WordSame == \A n \in Words : Word(n) = n
  BY LayoutAssumption DEF Word, Words

\* An address is its page and its offset there.
LEMMA PageParts ==
    ASSUME NEW a \in Nat
    PROVE  \E q \in Nat, r \in 0 .. UserPageSize - 1 :
              /\ a = q * UserPageSize + r /\ a \div UserPageSize = q
              /\ PageBase(a) = q * UserPageSize /\ PageOffset(a) = r
<1>1. UserPageSize \in Nat \ {0}
    BY LayoutAssumption
<1>2. PICK q \in Nat, r \in 0 .. UserPageSize - 1 :
              a = q * UserPageSize + r /\ a \div UserPageSize = q /\ a % UserPageSize = r
    BY <1>1, Division, Zenon
<1>3. PageOffset(a) = r
    BY <1>2, Zenon DEF PageOffset
<1>4. PageBase(a) = a - r
    BY <1>2, Zenon DEF PageBase
<1>5. a - r = q * UserPageSize
    BY <1>1, <1>2
<1> QED BY <1>2, <1>3, <1>4, <1>5, Zenon

\* The addresses of one page have its number.
LEMMA PageNumber ==
    ASSUME NEW q \in Nat, NEW r \in 0 .. UserPageSize - 1
    PROVE  PageBase(q * UserPageSize + r) = q * UserPageSize
<1>1. UserPageSize \in Nat \ {0}
    BY LayoutAssumption
<1>2. (q * UserPageSize + r) % UserPageSize = r
    BY <1>1, DivisionUnique, Zenon
<1>3. (q * UserPageSize + r) - r = q * UserPageSize
    BY <1>1
<1> QED BY <1>2, <1>3, Zenon DEF PageBase

\* The loops over the pages from the first to the last address of a range visit
\* exactly the pages of the addresses in it.
LEMMA PageRange ==
    ASSUME NEW a \in Nat, NEW b \in Words, a <= b
    PROVE  PagesFrom(PageBase(a), PageBase(b)) = {PageBase(x) : x \in a .. b}
<1> DEFINE P == UserPageSize
<1>1. P \in Nat \ {0} /\ AddressModulus \in Nat /\ b \in Nat /\ b < AddressModulus
    BY LayoutAssumption DEF Words
<1>2. PICK m \in Nat, r \in 0 .. P - 1 :
          a = m * P + r /\ a \div P = m /\ PageBase(a) = m * P
    BY PageParts
<1>3. PICK n \in Nat, s \in 0 .. P - 1 :
          b = n * P + s /\ b \div P = n /\ PageBase(b) = n * P
    BY <1>1, PageParts, Zenon
<1> HIDE DEF P
<1>4. m <= n
    BY <1>1, <1>2, <1>3, QuotientMonotone, Zenon
<1>5. Word(PageBase(b) - PageBase(a)) \div P = n - m
    <2>1. PageBase(b) - PageBase(a) = (n - m) * P + 0 /\ n - m \in Nat
        BY <1>1, <1>2, <1>3, <1>4
    <2>2. (n - m) * P + 0 \in Words
        BY <1>1, <1>2, <1>3, <1>4, <2>1 DEF Words
    <2>3. Word(PageBase(b) - PageBase(a)) = (n - m) * P + 0
        BY <2>1, <2>2, WordSame, Zenon
    <2>4. 0 \in 0 .. P - 1
        BY <1>1
    <2> QED BY <1>1, <2>1, <2>3, <2>4, DivisionUnique, Zenon
<1>6. \A k \in 0 .. n - m : Word(PageBase(a) + k * P) = (m + k) * P
    <2> SUFFICES ASSUME NEW k \in 0 .. n - m
                 PROVE  Word(PageBase(a) + k * P) = (m + k) * P
        OBVIOUS
    <2>1. PageBase(a) + k * P = (m + k) * P /\ m + k \in Nat /\ m + k <= n
        BY <1>1, <1>2, <1>4
    <2>2. (m + k) * P <= n * P
        BY <1>1, <2>1, ProductMonotone
    <2>3. (m + k) * P \in Words
        BY <1>1, <1>3, <2>1, <2>2 DEF Words
    <2> QED BY <2>1, <2>3, WordSame, Zenon
<1>7. PagesFrom(PageBase(a), PageBase(b)) = {(m + k) * P : k \in 0 .. n - m}
    <2>1. PagesFrom(PageBase(a), PageBase(b)) = {Word(PageBase(a) + k * P) : k \in 0 .. n - m}
        BY <1>5, Zenon DEF PagesFrom, P
    <2> QED BY <1>6, <2>1, Zenon
<1>8. ASSUME NEW k \in 0 .. n - m PROVE \E x \in a .. b : PageBase(x) = (m + k) * P
    <2>1. CASE k = 0
        BY <1>1, <1>2, <2>1
    <2>2. CASE k # 0
        <3>1. m + k \in Nat /\ m + k <= n /\ m + 1 <= m + k
            BY <1>4, <2>2
        <3>2. (m + k) * P <= n * P /\ (m + 1) * P <= (m + k) * P /\ (m + 1) * P = m * P + P
            BY <1>1, <3>1, ProductMonotone
        <3>3. (m + k) * P \in a .. b
            BY <1>1, <1>2, <1>3, <3>1, <3>2
        <3>4. (m + k) * P = (m + k) * P + 0 /\ 0 \in 0 .. P - 1
            BY <1>1, <3>1
        <3>5. PageBase((m + k) * P) = (m + k) * P
            BY <3>1, <3>4, PageNumber, Zenon DEF P
        <3> QED BY <3>3, <3>5, Zenon
    <2> QED BY <2>1, <2>2
<1>9. ASSUME NEW x \in a .. b PROVE \E k \in 0 .. n - m : PageBase(x) = (m + k) * P
    <2>1. PICK q \in Nat : x \div P = q /\ PageBase(x) = q * P
        BY PageParts DEF P
    <2>2. x \in Nat /\ a <= x /\ x <= b
        BY <1>1
    <2>3. a \div P <= x \div P /\ x \div P <= b \div P
        BY <1>1, <2>2, QuotientMonotone, Zenon
    <2>4. m <= q /\ q <= n
        BY <1>2, <1>3, <2>1, <2>3, Zenon
    <2>5. q - m \in 0 .. n - m /\ m + (q - m) = q
        BY <2>4
    <2> QED BY <2>1, <2>5, Zenon
<1> QED BY <1>7, <1>8, <1>9, Zenon

-----------------------------------------------------------------------------
\* The copies between the kernel and user memory.

\* The numbers of the address space.
LEMMA WordFacts ==
    /\ UserPageSize \in Nat \ {0} /\ KernelBase \in Nat /\ AddressModulus \in Nat
    /\ KernelBase < AddressModulus
    /\ Words = 0 .. AddressModulus - 1 /\ Words \subseteq Nat
  BY LayoutAssumption DEF Words

\* validate_user_range looks at pages; what it accepts is a range of bytes that
\* the program could access itself.
LEMMA RangeIsOwn ==
    ASSUME NEW start \in Words, NEW length \in Nat, NEW write \in BOOLEAN
    PROVE  ValidateUserRange(start, length, write) <=> OwnBytes(start, length, write)
<1> DEFINE flags == {"present", "user"} \cup (IF write THEN {"writable"} ELSE {})
           last == start + length - 1
<1>1. CASE length = 0
    BY <1>1, WordFacts DEF ValidateUserRange, OwnBytes
<1>2. CASE length # 0 /\ start < KernelBase /\ length <= KernelBase - start
    <2>1. last \in Words /\ start \in Nat /\ start <= last /\ last < KernelBase
        BY <1>2, WordFacts
    <2>2. PagesFrom(PageBase(start), PageBase(Word(last))) = {PageBase(x) : x \in start .. last}
        BY <2>1, PageRange, WordSame, Zenon
    <2>3. ValidateUserRange(start, length, write)
              <=> \A x \in start .. last : flags \subseteq layout[PageBase(x)]
        BY <1>2, <2>2, Zenon DEF ValidateUserRange
    <2>4. OwnBytes(start, length, write)
              <=> \A k \in 0 .. length - 1 : flags \subseteq layout[PageBase(start + k)]
        <3>1. \A k \in 0 .. length - 1 : start + k < KernelBase
            BY <2>1, WordFacts
        <3> QED BY <3>1, Zenon DEF OwnBytes, Accessible
    <2> HIDE DEF flags
    <2>5. ASSUME \A x \in start .. last : flags \subseteq layout[PageBase(x)],
                 NEW k \in 0 .. length - 1
          PROVE  flags \subseteq layout[PageBase(start + k)]
        <3>1. start + k \in start .. last
            BY <2>1
        <3> QED BY <2>5, <3>1, Zenon
    <2>6. ASSUME \A k \in 0 .. length - 1 : flags \subseteq layout[PageBase(start + k)],
                 NEW x \in start .. last
          PROVE  flags \subseteq layout[PageBase(x)]
        <3>1. x - start \in 0 .. length - 1 /\ start + (x - start) = x
            BY <2>1
        <3> QED BY <2>6, <3>1, Zenon
    <2> QED BY <2>3, <2>4, <2>5, <2>6, Zenon
<1>3. CASE length # 0 /\ ~(start < KernelBase /\ length <= KernelBase - start)
    <2>1. length - 1 \in 0 .. length - 1 /\ ~(start + (length - 1) < KernelBase)
        BY <1>3, WordFacts
    <2>2. ~OwnBytes(start, length, write)
        BY <2>1, Zenon DEF OwnBytes, Accessible
    <2> QED BY <1>3, <2>2, Zenon DEF ValidateUserRange
<1> QED BY <1>1, <1>2, <1>3

\* A range that was accepted does not reach the end of the address space.
LEMMA OwnRangeLow ==
    ASSUME NEW start \in Words, NEW length \in Nat, NEW write \in BOOLEAN,
           OwnBytes(start, length, write), length # 0
    PROVE  start + length <= KernelBase
<1>1. length - 1 \in 0 .. length - 1
    OBVIOUS
<1>2. start + (length - 1) < KernelBase
    BY <1>1, Zenon DEF OwnBytes, Accessible
<1> QED BY <1>2, WordFacts

UserInv == layout \in Layouts /\ DOMAIN memory = Words

\* copy_from_user
LEMMA FromStep ==
    ASSUME UserInv, CopyFromUser
    PROVE  UserInv' /\ CopiesExact'
<1>1. PICK start \in Words, length \in Words :
          /\ Called("from", start, length, <<>>)
          /\ IF ValidateUserRange(start, length, FALSE)
             THEN result' = "ok" /\ kernel' = Bytes(start, length)
             ELSE result' = EFAULT /\ kernel' = <<>>
          /\ UNCHANGED memory
    BY Zenon DEF CopyFromUser
<1>2. /\ call'.kind = "from" /\ call'.start = start /\ call'.length = length
      /\ previous' = memory /\ UNCHANGED <<layout, memory>>
    BY <1>1 DEF Called
<1>3. length \in Nat /\ start \in Nat
    BY WordFacts
<1>4. ValidateUserRange(start, length, FALSE) <=> OwnBytes(start, length, FALSE)
    BY <1>3, RangeIsOwn, Zenon
<1>5. OwnBytes(start, length, FALSE)' = OwnBytes(start, length, FALSE)
    BY <1>2, Zenon DEF OwnBytes, Accessible
<1>6. result' = "ok" <=> OwnBytes(start, length, FALSE)
    BY <1>1, <1>4, Zenon DEF EFAULT
<1>7. ASSUME result' = "ok"
      PROVE  kernel' = [k \in 1 .. length |-> memory[start + k - 1]]
    <2>1. kernel' = [k \in 1 .. length |-> memory[Word(start + k - 1)]]
        BY <1>1, <1>7, Zenon DEF EFAULT, Bytes
    <2>2. \A k \in 1 .. length : Word(start + k - 1) = start + k - 1
        <3> SUFFICES ASSUME NEW k \in 1 .. length PROVE start + k - 1 \in Words
            BY WordSame, Zenon
        <3>1. length # 0
            BY <1>3
        <3>2. OwnBytes(start, length, FALSE)
            BY <1>6, <1>7, Zenon
        <3>3. start + length <= KernelBase
            BY <1>3, <3>1, <3>2, OwnRangeLow, Zenon
        <3> QED BY <1>3, <3>3, WordFacts
    <2> QED BY <2>1, <2>2, Zenon
<1>8. UserInv'
    BY <1>2 DEF UserInv
<1> QED BY <1>2, <1>5, <1>6, <1>7, <1>8, Zenon DEF CopiesExact

\* copy_to_user
LEMMA ToStep ==
    ASSUME UserInv, CopyToUser
    PROVE  UserInv' /\ CopiesExact'
<1>1. PICK start \in Words, length \in Words :
          LET data == [k \in 1 .. length |-> k + 1] IN
          /\ Called("to", start, length, data)
          /\ IF ValidateUserRange(start, length, TRUE)
             THEN /\ result' = "ok"
                  /\ memory' = [a \in DOMAIN memory |->
                                   IF Word(a - start) < length
                                   THEN data[Word(a - start) + 1] ELSE memory[a]]
             ELSE result' = EFAULT /\ UNCHANGED memory
          /\ kernel' = <<>>
    BY Zenon DEF CopyToUser
<1> DEFINE d == [k \in 1 .. length |-> k + 1]
<1>2. /\ call'.kind = "to" /\ call'.start = start /\ call'.length = length
      /\ call'.data = d /\ previous' = memory /\ UNCHANGED layout
    BY <1>1 DEF Called
<1>3. \/ /\ ValidateUserRange(start, length, TRUE) /\ result' = "ok"
         /\ memory' = [a \in Words |-> IF Word(a - start) < length
                                       THEN d[Word(a - start) + 1] ELSE memory[a]]
      \/ ~ValidateUserRange(start, length, TRUE) /\ result' = EFAULT /\ UNCHANGED memory
    BY <1>1, Zenon DEF UserInv
<1> HIDE DEF d
<1>4. length \in Nat /\ start \in Nat
    BY WordFacts
<1>5. ValidateUserRange(start, length, TRUE) <=> OwnBytes(start, length, TRUE)
    BY <1>4, RangeIsOwn, Zenon
<1>6. OwnBytes(start, length, TRUE)' = OwnBytes(start, length, TRUE)
    BY <1>2, Zenon DEF OwnBytes, Accessible
<1>7. result' = "ok" <=> OwnBytes(start, length, TRUE)
    BY <1>3, <1>5, Zenon DEF EFAULT
<1>8. UserInv'
    BY <1>2, <1>3, Zenon DEF UserInv
<1>9. ASSUME NEW a \in Words
      PROVE  memory'[a] = IF result' = "ok" /\ a \in start .. start + length - 1
                          THEN d[a - start + 1] ELSE memory[a]
    <2>1. CASE result' = "ok"
        <3>1. memory'[a] = IF Word(a - start) < length
                           THEN d[Word(a - start) + 1] ELSE memory[a]
            BY <1>3, <2>1 DEF EFAULT
        <3>2. length # 0 => start + length <= KernelBase
            BY <1>4, <1>7, <2>1, OwnRangeLow, Zenon
        <3>3. Word(a - start) = IF a < start THEN a - start + AddressModulus ELSE a - start
            BY WordFacts, ModDifference DEF Word
        <3>4. Word(a - start) < length <=> a \in start .. start + length - 1
            BY <1>4, <3>2, <3>3, WordFacts
        <3>5. a \in start .. start + length - 1 => Word(a - start) = a - start
            BY <1>4, <3>3, WordFacts
        <3> QED BY <2>1, <3>1, <3>4, <3>5, Zenon
    <2>2. CASE result' # "ok"
        BY <1>3, <2>2, Zenon
    <2> QED BY <2>1, <2>2
<1>10. DOMAIN memory' = Words
    BY <1>8 DEF UserInv
<1> QED BY <1>2, <1>6, <1>7, <1>8, <1>9, <1>10, Zenon DEF CopiesExact

\* The bytes up to offset k of a page lie in one page.
LEMMA SamePage ==
    ASSUME NEW a \in Nat, NEW k \in Nat, k < UserPageSize - PageOffset(a)
    PROVE  PageBase(a + k) = PageBase(a)
<1>1. PICK q \in Nat, r \in 0 .. UserPageSize - 1 :
          a = q * UserPageSize + r /\ PageBase(a) = q * UserPageSize /\ PageOffset(a) = r
    BY PageParts
<1>2. r + k \in 0 .. UserPageSize - 1 /\ a + k = q * UserPageSize + (r + k)
    BY <1>1, WordFacts
<1> QED BY <1>1, <1>2, PageNumber, Zenon

\* How long the string at start is in the memory as it is.
Lengths(start) ==
    {n \in 1 .. KernelBase - start : /\ OwnBytes(start, n, FALSE)
                                     /\ memory[start + n - 1] = End0
                                     /\ \A k \in 0 .. n - 2 : memory[start + k] # End0}

\* What is known after k turns of the loop.
AfterTurns(s, k, start, maximum) ==
    /\ s \in [index : Nat, result : {"going", "ok", EFAULT}]
    /\ s.index <= maximum /\ s.index <= KernelBase - start
    /\ s.result = "going" => /\ k <= s.index
                             /\ OwnBytes(start, s.index, FALSE)
                             /\ \A j \in 0 .. s.index - 1 : memory[start + j] # End0
    /\ s.result = "ok" => s.index \in Lengths(start)
    /\ s.result = EFAULT => \A n \in Lengths(start) : n > maximum

\* The function that the loop computes exists.
LEMMA LoopRuns ==
    ASSUME NEW start \in Words, NEW maximum \in Words
    PROVE  \E f : /\ f[0] = [index |-> 0, result |-> "going"]
                  /\ \A k \in 1 .. maximum + 1 : f[k] = StringChunk(f[k - 1], start, maximum)
                  /\ StringLoop(start, maximum) = f[maximum + 1]
<1> DEFINE s0 == [index |-> 0, result |-> "going"]
           Step(s) == StringChunk(s, start, maximum)
           Runs(n, f) == f = [k \in 0 .. n |-> IF k = 0 THEN s0 ELSE Step(f[k - 1])]
           Stuck == {n \in Nat : ~\E f : Runs(n, f)}
<1>0. maximum \in Nat
    BY WordFacts
<1>1. StringLoop(start, maximum) = (CHOOSE f : Runs(maximum + 1, f))[maximum + 1]
    BY DEF StringLoop
<1> HIDE DEF s0, Step
<1>2. Stuck = {}
    <2> SUFFICES ASSUME Stuck # {} PROVE FALSE
        OBVIOUS
    <2>1. PICK n \in Stuck : \A m \in Stuck : n <= m
        BY LeastElement, Zenon
    <2>2. n \in Nat /\ ~\E f : Runs(n, f)
        OBVIOUS
    <2>3. n # 0
        <3> DEFINE g == [k \in 0 .. 0 |-> s0]
        <3>1. Runs(0, g)
            OBVIOUS
        <3> QED BY <2>2, <3>1, Zenon
    <2>4. n - 1 \in Nat /\ ~(n <= n - 1)
        BY <2>2, <2>3
    <2>5. PICK g : Runs(n - 1, g)
        BY <2>1, <2>4, Zenon
    <2> DEFINE f == [k \in 0 .. n |-> IF k = n THEN Step(g[n - 1]) ELSE g[k]]
    <2>6. ASSUME NEW k \in 0 .. n PROVE f[k] = IF k = 0 THEN s0 ELSE Step(f[k - 1])
        <3>1. CASE k = n
            <4>1. f[n] = Step(g[n - 1]) /\ f[n - 1] = g[n - 1]
                BY <2>2, <2>3, <2>4
            <4> QED BY <2>3, <3>1, <4>1
        <3>2. CASE k # n
            <4>1. k \in 0 .. n - 1 /\ f[k] = g[k] /\ (k # 0 => f[k - 1] = g[k - 1])
                BY <2>2, <3>2
            <4>2. g[k] = IF k = 0 THEN s0 ELSE Step(g[k - 1])
                BY <2>5, <4>1
            <4> QED BY <4>1, <4>2
        <3> QED BY <3>1, <3>2
    <2>7. Runs(n, f)
        <3>1. f = [k \in 0 .. n |-> f[k]]
            OBVIOUS
        <3> HIDE DEF f
        <3> QED BY <2>6, <3>1, Zenon
    <2> QED BY <2>2, <2>7, Zenon
<1>3. \E f : Runs(maximum + 1, f)
    <2>1. maximum + 1 \in Nat
        BY <1>0
    <2> QED BY <1>2, <2>1, Zenon
<1>4. PICK f : f = CHOOSE g : Runs(maximum + 1, g)
    OBVIOUS
<1>5. Runs(maximum + 1, f)
    BY <1>3, <1>4, Zenon
<1>6. f[0] = s0 /\ \A k \in 1 .. maximum + 1 : f[k] = Step(f[k - 1])
    BY <1>0, <1>5
<1>7. StringLoop(start, maximum) = f[maximum + 1]
    BY <1>1, <1>4, Zenon
<1> QED BY <1>6, <1>7, Zenon DEF s0, Step

\* A state of the loop is its two fields.
LEMMA LoopState ==
    ASSUME NEW x \in Nat, NEW r \in {"going", "ok", EFAULT}, NEW s,
           s = [index |-> x, result |-> r]
    PROVE  /\ s \in [index : Nat, result : {"going", "ok", EFAULT}]
           /\ s.index = x /\ s.result = r
OBVIOUS

\* What is known of a state that goes on, and of one that ends the loop.
LEMMA StateKnown ==
    ASSUME NEW start \in Words, NEW maximum \in Words, NEW k \in Nat, NEW x \in Nat,
           x <= maximum, x <= KernelBase - start
    PROVE  /\ /\ k <= x /\ OwnBytes(start, x, FALSE)
              /\ \A j \in 0 .. x - 1 : memory[start + j] # End0
              => AfterTurns([index |-> x, result |-> "going"], k, start, maximum)
           /\ x \in Lengths(start) => AfterTurns([index |-> x, result |-> "ok"], k, start, maximum)
           /\ (\A n \in Lengths(start) : n > maximum)
              => AfterTurns([index |-> x, result |-> EFAULT], k, start, maximum)
<1> DEFINE S(r) == [index |-> x, result |-> r]
<1>1. "going" # "ok" /\ "going" # EFAULT /\ "ok" # EFAULT
    BY DEF EFAULT
<1>2. \A r \in {"going", "ok", EFAULT} :
          /\ S(r) \in [index : Nat, result : {"going", "ok", EFAULT}]
          /\ S(r).index = x /\ S(r).result = r
    BY LoopState
<1> HIDE DEF S
<1>3. /\ /\ k <= x /\ OwnBytes(start, x, FALSE)
         /\ \A j \in 0 .. x - 1 : memory[start + j] # End0
         => AfterTurns(S("going"), k, start, maximum)
      /\ x \in Lengths(start) => AfterTurns(S("ok"), k, start, maximum)
      /\ (\A n \in Lengths(start) : n > maximum) => AfterTurns(S(EFAULT), k, start, maximum)
    BY <1>1, <1>2, Zenon DEF AfterTurns
<1> QED BY <1>3, Zenon DEF S

\* One turn that goes on keeps what is known.
LEMMA TurnKeeps ==
    ASSUME NEW start \in Words, NEW maximum \in Words, start < KernelBase,
           NEW s, NEW k \in Nat, AfterTurns(s, k, start, maximum)
    PROVE  AfterTurns(StringChunk(s, start, maximum), k + 1, start, maximum)
<1>1. PICK i \in Nat : i = s.index
    BY DEF AfterTurns
<1> DEFINE current == Word(start + i)
           left == KernelBase - start - i
           chunk == Least(Least(UserPageSize - PageOffset(current), maximum - i), left)
           ends == {n \in 1 .. chunk : memory[current + n - 1] = End0}
           next == StringChunk(s, start, maximum)
<1> SUFFICES AfterTurns(next, k + 1, start, maximum)
    OBVIOUS
<1>2. /\ start \in Nat /\ maximum \in Nat /\ KernelBase \in Nat /\ k + 1 \in Nat
      /\ i <= maximum /\ i <= KernelBase - start
    BY <1>1, WordFacts DEF AfterTurns
<1>3. s.result \in {"going", "ok", EFAULT} /\ s = [index |-> i, result |-> s.result]
    BY <1>1 DEF AfterTurns
<1>4. next = IF s.result # "going" THEN s
             ELSE IF i >= maximum \/ left <= 0 \/ ~ValidateUserRange(current, chunk, FALSE)
             THEN [s EXCEPT !.result = EFAULT]
             ELSE IF ends = {} THEN [s EXCEPT !.index = i + chunk]
             ELSE [index |-> i + (CHOOSE n \in ends : \A j \in ends : n <= j),
                   result |-> "ok"]
    BY <1>1, Zenon DEF StringChunk
<1> HIDE DEF next, chunk, current, ends
<1>5. CASE s.result # "going"
    <2>1. next = s
        BY <1>4, <1>5
    <2> QED BY <1>5, <2>1, Zenon DEF AfterTurns
<1>6. CASE s.result = "going"
    <2>1. /\ OwnBytes(start, i, FALSE) /\ k <= i
          /\ \A j \in 0 .. i - 1 : memory[start + j] # End0
        BY <1>1, <1>6, Zenon DEF AfterTurns
    <2>2. ASSUME NEW n \in Lengths(start)
          PROVE  /\ n \in 1 .. KernelBase - start /\ n > i
                 /\ OwnBytes(start, n, FALSE)
        <3>1. /\ n \in 1 .. KernelBase - start /\ memory[start + n - 1] = End0
              /\ OwnBytes(start, n, FALSE)
            BY Zenon DEF Lengths
        <3>2. ~(n <= i)
            <4> SUFFICES ASSUME n <= i PROVE FALSE
                OBVIOUS
            <4>1. n - 1 \in 0 .. i - 1 /\ start + (n - 1) = start + n - 1
                BY <1>2, <3>1
            <4> QED BY <2>1, <3>1, <4>1, Zenon
        <3>3. n > i
            BY <1>2, <3>1, <3>2
        <3> QED BY <3>1, <3>3, Zenon
    \* The loop gives up.
    <2>3. ASSUME next = [s EXCEPT !.result = EFAULT], \A n \in Lengths(start) : n > maximum
          PROVE  AfterTurns(next, k + 1, start, maximum)
        <3>1. next = [index |-> i, result |-> EFAULT]
            BY <1>3, <2>3
        <3>2. AfterTurns([index |-> i, result |-> EFAULT], k + 1, start, maximum)
            BY <1>2, <2>3, StateKnown, Zenon
        <3> QED BY <3>1, <3>2, Zenon
    <2>4. CASE i >= maximum \/ left <= 0
        <3>1. ASSUME NEW n \in Lengths(start) PROVE n > maximum
            <4>1. n \in 1 .. KernelBase - start /\ n > i
                BY <2>2, Zenon
            <4> QED BY <1>2, <2>4, <4>1
        <3> QED BY <1>4, <1>6, <2>3, <2>4, <3>1, Zenon
    <2>5. CASE i < maximum /\ left > 0
        <3>1. current = start + i /\ current \in Words /\ current \in Nat
            <4>1. start + i \in Words
                BY <1>2, <2>5, WordFacts
            <4> QED BY <4>1, WordSame, WordFacts DEF current
        <3>2. PageOffset(current) \in 0 .. UserPageSize - 1
            BY <3>1, PageParts
        <3>3. PICK c \in Nat : c = chunk /\ c >= 1 /\ c <= maximum - i /\ c <= left
                               /\ c <= UserPageSize - PageOffset(current)
            <4>1. UserPageSize - PageOffset(current) \in Nat \ {0} /\ maximum - i \in Nat \ {0}
                  /\ left \in Nat \ {0}
                BY <1>2, <2>5, <3>2, WordFacts
            <4> HIDE DEF left
            <4> QED BY <4>1 DEF chunk, Least
        <3>4. ValidateUserRange(current, chunk, FALSE) <=> OwnBytes(current, c, FALSE)
            BY <3>1, <3>3, RangeIsOwn, Zenon
        <3>5. ends = {n \in 1 .. c : memory[start + i + n - 1] = End0}
            BY <3>1, <3>3, Zenon DEF ends
        <3>6. ASSUME OwnBytes(current, c, FALSE), NEW n \in 0 .. c
              PROVE  OwnBytes(start, i + n, FALSE)
            <4> SUFFICES ASSUME NEW j \in 0 .. (i + n) - 1 PROVE Accessible(start + j, FALSE)
                BY Zenon DEF OwnBytes
            <4>1. CASE j < i
                <5>1. j \in 0 .. i - 1
                    BY <1>2, <4>1
                <5> QED BY <2>1, <5>1, Zenon DEF OwnBytes
            <4>2. CASE ~(j < i)
                <5>1. j - i \in 0 .. c - 1 /\ current + (j - i) = start + j
                    BY <1>2, <3>1, <4>2
                <5> QED BY <3>6, <5>1, Zenon DEF OwnBytes
            <4> QED BY <4>1, <4>2, Zenon
        <3>7. CASE ~OwnBytes(current, c, FALSE)
            <4>1. ASSUME NEW n \in Lengths(start) PROVE n > maximum
                <5>1. n \in 1 .. KernelBase - start /\ n > i /\ OwnBytes(start, n, FALSE)
                    BY <2>2, Zenon
                <5>2. i \in 0 .. n - 1
                    BY <1>2, <5>1
                <5>3. Accessible(current, FALSE)
                    BY <3>1, <5>1, <5>2, Zenon DEF OwnBytes
                <5>4. ASSUME NEW j \in 0 .. c - 1 PROVE Accessible(current + j, FALSE)
                    <6>1. j \in Nat /\ j < UserPageSize - PageOffset(current)
                        BY <3>2, <3>3, WordFacts
                    <6>2. PageBase(current + j) = PageBase(current)
                        BY <3>1, <6>1, SamePage, Zenon
                    <6>3. current + j < KernelBase
                        BY <1>2, <3>1, <3>3
                    <6> QED BY <5>3, <6>2, <6>3, Zenon DEF Accessible
                <5> QED BY <3>7, <5>4, Zenon DEF OwnBytes
            <4> QED BY <1>4, <1>6, <2>3, <3>4, <3>7, <4>1, Zenon
        <3>8. CASE OwnBytes(current, c, FALSE) /\ ends = {}
            <4>1. next = [s EXCEPT !.index = i + c]
                <5>1. ~(i >= maximum) /\ ~(left <= 0)
                    BY <1>2, <2>5
                <5> QED BY <1>4, <1>6, <3>3, <3>4, <3>8, <5>1, Zenon
            <4>2. next = [index |-> i + c, result |-> "going"]
                BY <1>3, <1>6, <4>1
            <4>3. OwnBytes(start, i + c, FALSE)
                <5>1. c \in 0 .. c
                    OBVIOUS
                <5> QED BY <3>6, <3>8, <5>1, Zenon
            <4>4. ASSUME NEW j \in 0 .. (i + c) - 1 PROVE memory[start + j] # End0
                <5>1. CASE j < i
                    <6>1. j \in 0 .. i - 1
                        BY <5>1
                    <6> QED BY <2>1, <6>1, Zenon
                <5>2. CASE ~(j < i)
                    <6>1. j - i + 1 \in 1 .. c /\ start + i + (j - i + 1) - 1 = start + j
                        BY <1>2, <5>2
                    <6> QED BY <3>5, <3>8, <6>1, Zenon
                <5> QED BY <5>1, <5>2
            <4>5. i + c \in Nat /\ k + 1 <= i + c /\ i + c <= maximum /\ i + c <= KernelBase - start
                BY <1>2, <2>1, <3>3
            <4> QED BY <1>2, <4>2, <4>3, <4>4, <4>5, StateKnown, Zenon
        <3>9. CASE OwnBytes(current, c, FALSE) /\ ends # {}
            <4>1. ends \in SUBSET Nat
                BY <3>5
            <4>2. \E n \in ends : \A j \in ends : n <= j
                BY <3>9, <4>1, LeastElement, Zenon
            <4>3. PICK n \in ends : /\ \A j \in ends : n <= j
                                    /\ n = CHOOSE m \in ends : \A j \in ends : m <= j
                BY <4>2, Zenon
            <4>4. next = [index |-> i + n, result |-> "ok"]
                <5>1. ~(i >= maximum) /\ ~(left <= 0)
                    BY <1>2, <2>5
                <5> QED BY <1>4, <1>6, <3>4, <3>9, <4>3, <5>1, Zenon
            <4>5. n \in 1 .. c /\ memory[start + i + n - 1] = End0
                <5>1. n \in {m \in 1 .. c : memory[start + i + m - 1] = End0}
                    BY <3>5, Zenon
                <5> QED BY <5>1, Zenon
            <4>6. i + n \in 1 .. KernelBase - start /\ i + n <= maximum /\ i + n \in Nat
                  /\ i + n <= KernelBase - start
                BY <1>2, <3>3, <4>5
            <4>7. OwnBytes(start, i + n, FALSE)
                <5>1. n \in 0 .. c
                    BY <4>5
                <5> QED BY <3>6, <3>9, <5>1, Zenon
            <4>8. ASSUME NEW j \in 0 .. (i + n) - 2 PROVE memory[start + j] # End0
                <5>1. CASE j < i
                    <6>1. j \in 0 .. i - 1
                        BY <5>1
                    <6> QED BY <2>1, <6>1, Zenon
                <5>2. CASE ~(j < i)
                    <6>1. /\ j - i + 1 \in 1 .. c /\ start + i + (j - i + 1) - 1 = start + j
                          /\ ~(n <= j - i + 1)
                        BY <1>2, <4>5, <5>2
                    <6>2. j - i + 1 \notin ends
                        BY <4>3, <6>1, Zenon
                    <6> QED BY <3>5, <6>1, <6>2, Zenon
                <5> QED BY <5>1, <5>2
            <4>9. memory[start + (i + n) - 1] = End0
                <5>1. start + (i + n) - 1 = start + i + n - 1
                    BY <1>2, <4>5
                <5> QED BY <4>5, <5>1, Zenon
            <4>10. i + n \in Lengths(start)
                BY <4>6, <4>7, <4>8, <4>9, Zenon DEF Lengths
            <4> QED BY <1>2, <4>4, <4>6, <4>10, StateKnown, Zenon
        <3> QED BY <3>7, <3>8, <3>9, Zenon
    <2> QED BY <1>2, <2>4, <2>5
<1> QED BY <1>5, <1>6

\* The whole loop ends, and what it returns is right.
LEMMA StringLoopResult ==
    ASSUME NEW start \in Words, NEW maximum \in Words, start < KernelBase
    PROVE  /\ AfterTurns(StringLoop(start, maximum), maximum + 1, start, maximum)
           /\ StringLoop(start, maximum).result # "going"
<1>1. PICK f : /\ f[0] = [index |-> 0, result |-> "going"]
               /\ \A k \in 1 .. maximum + 1 : f[k] = StringChunk(f[k - 1], start, maximum)
               /\ StringLoop(start, maximum) = f[maximum + 1]
    BY LoopRuns
<1>2. maximum \in Nat /\ start \in Nat /\ KernelBase \in Nat
    BY WordFacts
<1> DEFINE wrong == {k \in 0 .. maximum + 1 : ~AfterTurns(f[k], k, start, maximum)}
<1>3. wrong = {}
    <2> SUFFICES ASSUME wrong # {} PROVE FALSE
        OBVIOUS
    <2>1. wrong \in SUBSET Nat
        BY <1>2
    <2>2. PICK k \in wrong : \A j \in wrong : k <= j
        BY <2>1, LeastElement, Zenon
    <2>3. k \in 0 .. maximum + 1 /\ ~AfterTurns(f[k], k, start, maximum)
        OBVIOUS
    <2>4. CASE k = 0
        <3>1. AfterTurns([index |-> 0, result |-> "going"], 0, start, maximum)
            <4>1. OwnBytes(start, 0, FALSE) /\ \A j \in 0 .. 0 - 1 : memory[start + j] # End0
                BY DEF OwnBytes
            <4>2. 0 \in Nat /\ 0 <= maximum /\ 0 <= KernelBase - start /\ 0 <= 0
                BY <1>2
            <4> QED BY <4>1, <4>2, StateKnown, Zenon
        <3> QED BY <1>1, <2>3, <2>4, <3>1, Zenon
    <2>5. CASE k # 0
        <3>1. /\ k - 1 \in 0 .. maximum + 1 /\ ~(k <= k - 1) /\ k \in 1 .. maximum + 1
              /\ k - 1 \in Nat /\ (k - 1) + 1 = k
            BY <1>2, <2>3, <2>5
        <3>2. AfterTurns(f[k - 1], k - 1, start, maximum)
            BY <2>2, <3>1, Zenon
        <3>3. AfterTurns(StringChunk(f[k - 1], start, maximum), (k - 1) + 1, start, maximum)
            BY <3>1, <3>2, TurnKeeps, Zenon
        <3> QED BY <1>1, <2>3, <3>1, <3>3, Zenon
    <2> QED BY <2>4, <2>5
<1>4. maximum + 1 \in 0 .. maximum + 1
    BY <1>2
<1>5. AfterTurns(StringLoop(start, maximum), maximum + 1, start, maximum)
    BY <1>1, <1>3, <1>4, Zenon
<1>6. PICK x \in Nat : x = StringLoop(start, maximum).index
    BY <1>5 DEF AfterTurns
<1>7. x <= maximum /\ (StringLoop(start, maximum).result = "going" => maximum + 1 <= x)
    BY <1>5, <1>6, Zenon DEF AfterTurns
<1>8. StringLoop(start, maximum).result # "going"
    BY <1>2, <1>6, <1>7
<1> QED BY <1>5, <1>8

\* copy_user_string
LEMMA StringStep ==
    ASSUME UserInv, CopyUserString
    PROVE  UserInv' /\ CopiesExact'
<1>1. PICK start \in Words, maximum \in Words :
          /\ Called("string", start, maximum, <<>>)
          /\ IF maximum = 0 \/ start >= KernelBase
             THEN result' = EFAULT /\ kernel' = <<>>
             ELSE /\ result' = StringLoop(start, maximum).result
                  /\ kernel' = Bytes(start, StringLoop(start, maximum).index)
          /\ UNCHANGED memory
    BY Zenon DEF CopyUserString
<1>2. /\ call'.kind = "string" /\ call'.start = start /\ call'.length = maximum
      /\ previous' = memory /\ UNCHANGED <<layout, memory>>
    BY <1>1 DEF Called
<1>3. start \in Nat /\ maximum \in Nat /\ KernelBase \in Nat
    BY WordFacts
<1>4. StringLengths(start)' = Lengths(start)
    BY <1>2, Zenon DEF StringLengths, Lengths, OwnBytes, Accessible
<1>5. /\ result' = "ok" <=> \E n \in Lengths(start) : n <= maximum
      /\ result' = "ok" => Len(kernel') \in Lengths(start)
      /\ \A k \in DOMAIN kernel' : kernel'[k] = memory[start + k - 1]
    <2>1. CASE maximum = 0 \/ start >= KernelBase
        <3>1. result' = EFAULT /\ kernel' = <<>>
            BY <1>1, <2>1
        <3>2. \A n \in Lengths(start) : ~(n <= maximum)
            BY <1>3, <2>1 DEF Lengths
        <3> QED BY <3>1, <3>2 DEF EFAULT
    <2>2. CASE ~(maximum = 0 \/ start >= KernelBase)
        <3>1. PICK s : s = StringLoop(start, maximum)
            OBVIOUS
        <3>2. start < KernelBase
            BY <1>3, <2>2
        <3>3. AfterTurns(s, maximum + 1, start, maximum) /\ s.result # "going"
            BY <3>1, <3>2, StringLoopResult, Zenon
        <3>4. result' = s.result /\ kernel' = Bytes(start, s.index)
            BY <1>1, <2>2, <3>1, Zenon
        <3>5. PICK x \in Nat : x = s.index /\ x <= KernelBase - start /\ x <= maximum
            BY <3>3 DEF AfterTurns
        <3>6. kernel' = [k \in 1 .. x |-> memory[Word(start + k - 1)]]
            BY <3>4, <3>5, Zenon DEF Bytes
        <3>7. Len(kernel') = x /\ DOMAIN kernel' = 1 .. x
            BY <3>6
        <3>8. ASSUME NEW k \in 1 .. x PROVE kernel'[k] = memory[start + k - 1]
            <4>1. start + k - 1 \in Words
                BY <1>3, <3>5, WordFacts
            <4> QED BY <3>6, <4>1, WordSame, Zenon
        <3>9. \/ s.result = "ok" /\ x \in Lengths(start)
              \/ s.result = EFAULT /\ \A n \in Lengths(start) : n > maximum
            BY <3>3, <3>5 DEF AfterTurns
        <3>10. (\A n \in Lengths(start) : n > maximum)
                  => \A n \in Lengths(start) : ~(n <= maximum)
            <4>1. \A n \in Lengths(start) : n \in 1 .. KernelBase - start
                BY Zenon DEF Lengths
            <4> QED BY <1>3, <4>1
        <3>11. "ok" # EFAULT
            BY DEF EFAULT
        <3> QED BY <3>4, <3>5, <3>7, <3>8, <3>9, <3>10, <3>11, Zenon
    <2> QED BY <2>1, <2>2
<1>6. UserInv'
    BY <1>2 DEF UserInv
<1> QED BY <1>2, <1>4, <1>5, <1>6, Zenon DEF CopiesExact

\* copy_from_user, copy_to_user and copy_user_string accept exactly what the
\* program could access itself, and copy exactly that, for every page size,
\* every layout of pages, and every pointer and length.
THEOREM CopiesAreExact == UserSpec => []CopiesExact
<1>1. UserInit => UserInv /\ CopiesExact
    BY UserMemoryAssumption DEF UserInit, UserInv, CopiesExact, NoCall
<1>2. UserInv /\ CopiesExact /\ [UserNext]_userVars => (UserInv /\ CopiesExact)'
    <2> SUFFICES ASSUME UserInv, CopiesExact, [UserNext]_userVars
                 PROVE  UserInv' /\ CopiesExact'
        OBVIOUS
    <2>1. CASE UNCHANGED userVars
        <3>1. UserInv'
            BY <2>1 DEF userVars, UserInv
        <3>2. CopiesExact'
            BY <2>1, Zenon DEF userVars, CopiesExact, OwnBytes, Accessible, StringLengths
        <3> QED BY <3>1, <3>2
    <2> QED BY <2>1, FromStep, ToStep, StringStep DEF UserNext
<1> QED BY <1>1, <1>2, PTL DEF UserSpec

-----------------------------------------------------------------------------
\* The ELF loader.

\* The headers that count, each with what program_range_valid has checked.
SegmentOK(h) ==
    /\ h.address \in Nat /\ h.memorySize \in Nat \ {0} /\ h.offset \in Nat /\ h.fileSize \in Nat
    /\ h.fileSize <= h.memorySize
    /\ h.address >= UserPageSize /\ h.address + h.memorySize <= KernelBase

\* validate_image has accepted every segment that is to be loaded.
LEMMA ValidSegments ==
    ASSUME headers \in Seq(ProgramHeaders), ImageValid
    PROVE  \A i \in DOMAIN headers : Loads(headers[i]) => SegmentOK(headers[i])
<1> SUFFICES ASSUME NEW i \in DOMAIN headers, Loads(headers[i]) PROVE SegmentOK(headers[i])
    OBVIOUS
<1>1. PICK h \in ProgramHeaders : h = headers[i]
    OBVIOUS
<1>2. {h.offset, h.fileSize, h.address, h.memorySize, h.alignment} \subseteq Words
    BY HeadersAssumption, Zenon
<1>3. /\ h.offset \in Nat /\ h.fileSize \in Nat /\ h.address \in Nat /\ h.memorySize \in Nat
    BY <1>2, WordFacts
<1>4. Loads(h) /\ ProgramRangeValid(h)
    BY <1>1, Zenon DEF ImageValid
<1>5. /\ h.memorySize # 0 /\ h.fileSize <= h.memorySize /\ h.address >= UserPageSize
      /\ h.address < KernelBase /\ h.memorySize <= KernelBase - h.address
    BY <1>4, Zenon DEF Loads, ProgramRangeValid
<1> QED BY <1>1, <1>3, <1>5, WordFacts DEF SegmentOK

\* load_ranges_overlap refuses two segments that share an address.
LEMMA DisjointSegments ==
    ASSUME headers \in Seq(ProgramHeaders), ImageValid,
           NEW i \in DOMAIN headers, NEW j \in DOMAIN headers, i # j,
           Loads(headers[i]), Loads(headers[j]), NEW a \in Int,
           Covers(headers[i], a), Covers(headers[j], a)
    PROVE  FALSE
<1>1. ASSUME NEW x \in DOMAIN headers, NEW y \in DOMAIN headers, y < x,
             Loads(headers[x]), Loads(headers[y]),
             Covers(headers[x], a), Covers(headers[y], a)
      PROVE  FALSE
    <2>1. y \in 1 .. x - 1
        BY <1>1
    <2>2. ~LoadRangesOverlap(headers[x], headers[y])
        BY <1>1, <2>1, Zenon DEF ImageValid
    <2>3. SegmentOK(headers[x]) /\ SegmentOK(headers[y])
        BY <1>1, ValidSegments, Zenon
    <2>4. PICK g, h : g = headers[x] /\ h = headers[y]
        OBVIOUS
    <2>5. SegmentOK(g) /\ SegmentOK(h) /\ Covers(g, a) /\ Covers(h, a)
        BY <1>1, <2>3, <2>4, Zenon
    <2>6. PICK ga \in Nat, gm \in Nat, ha \in Nat, hm \in Nat :
              /\ ga = g.address /\ gm = g.memorySize /\ ha = h.address /\ hm = h.memorySize
              /\ ga + gm <= KernelBase /\ ha + hm <= KernelBase
        BY <2>5, Zenon DEF SegmentOK
    <2>7. ga + gm \in Words /\ ha + hm \in Words
        <3>1. ga + gm <= KernelBase /\ ha + hm <= KernelBase
            BY <2>6, Zenon
        <3> QED BY <3>1, WordFacts
    <2>8. Word(ga + gm) = ga + gm /\ Word(ha + hm) = ha + hm
        BY <2>7, WordSame, Zenon
    <2>9. ~(ga < ha + hm /\ ha < ga + gm)
        BY <1>1, <2>2, <2>4, <2>6, <2>8, Zenon DEF LoadRangesOverlap, Loads
    <2>10. a >= ga /\ a < ga + gm /\ a >= ha /\ a < ha + hm
        BY <2>5, <2>6, Zenon DEF Covers
    <2> QED BY <2>9, <2>10
<1>2. i < j \/ j < i
    OBVIOUS
<1> QED BY <1>1, <1>2, Zenon

\* The y bytes from x that end at or below top, among the addresses below all.
LEMMA ByteRange ==
    ASSUME NEW x \in Nat, NEW y \in Nat \ {0}, NEW top \in Nat, NEW all \in Nat,
           x + y <= top, top < all
    PROVE  /\ \A a : a \in 0 .. all - 1 /\ a >= x /\ a < x + y <=> a \in x .. x + y - 1
           /\ x + y - 1 \in 0 .. all - 1 /\ x + y - 1 \in Nat
           /\ x <= x + y - 1 /\ x + y - 1 < top
<1>1. ASSUME NEW a \in 0 .. all - 1, a >= x, a < x + y
      PROVE  a \in x .. x + y - 1
    BY <1>1
<1>2. ASSUME NEW a \in x .. x + y - 1
      PROVE  a \in 0 .. all - 1 /\ a >= x /\ a < x + y
    OBVIOUS
<1>3. /\ x + y - 1 \in 0 .. all - 1 /\ x + y - 1 \in Nat
      /\ x <= x + y - 1 /\ x + y - 1 < top
    OBVIOUS
<1> QED BY <1>1, <1>2, <1>3, Zenon

\* The position in the file of a byte of a segment's file part is a number.
LEMMA PositionInFile ==
    ASSUME NEW o \in Nat, NEW f \in Nat
    PROVE  \A z \in 0 .. f - 1 : o + z + 1 \in Nat
  OBVIOUS

\* load_program goes through the pages of the segment's addresses.
LEMMA PagesOfSegment ==
    ASSUME NEW h, SegmentOK(h)
    PROVE  /\ PagesOf(h) = {PageBase(a) : a \in h.address .. h.address + h.memorySize - 1}
           /\ \A p \in PagesOf(h) :
                 \E q \in Nat \ {0} : p = q * UserPageSize /\ p \in PageBases /\ p < KernelBase
<1> DEFINE last == h.address + h.memorySize - 1
<1>1. h.address \in Nat /\ last \in Words /\ h.address <= last /\ last < KernelBase /\ last \in Nat
    <2>1. h.address \in Nat /\ h.memorySize \in Nat \ {0} /\ h.address + h.memorySize <= KernelBase
        BY Zenon DEF SegmentOK
    <2> QED BY <2>1, ByteRange, WordFacts, Zenon
<1>2. PagesOf(h) = {PageBase(a) : a \in h.address .. last}
    BY <1>1, PageRange, WordSame, Zenon DEF PagesOf
<1>3. ASSUME NEW p \in PagesOf(h)
      PROVE  \E q \in Nat \ {0} : p = q * UserPageSize /\ p \in PageBases /\ p < KernelBase
    <2>1. PICK a \in h.address .. last : p = PageBase(a)
        BY <1>2
    <2>2. a \in Nat /\ a >= UserPageSize /\ a < KernelBase
        BY <1>1, WordFacts DEF SegmentOK
    <2>3. PICK q \in Nat, r \in 0 .. UserPageSize - 1 :
              a = q * UserPageSize + r /\ PageBase(a) = q * UserPageSize
        BY <2>2, PageParts
    <2>4. q # 0
        BY <2>2, <2>3, WordFacts
    <2>5. q * UserPageSize \in Nat /\ q * UserPageSize <= a
        BY <2>3, WordFacts
    <2>6. q * UserPageSize \in Words /\ q * UserPageSize < KernelBase
        BY <2>2, <2>5, WordFacts
    <2>7. PageOffset(q * UserPageSize) = 0
        <3>1. 0 \in 0 .. UserPageSize - 1 /\ q * UserPageSize + 0 = q * UserPageSize
            BY <2>5, WordFacts
        <3>2. (q * UserPageSize + 0) % UserPageSize = 0
            BY <3>1, DivisionUnique, WordFacts, Zenon
        <3> QED BY <3>1, <3>2, Zenon DEF PageOffset
    <2> QED BY <2>1, <2>3, <2>4, <2>6, <2>7, Zenon DEF PageBases
<1> QED BY <1>2, <1>3, Zenon

\* An address of a page belongs to a segment only if the page does.
LEMMA PageReached ==
    ASSUME NEW h, SegmentOK(h), NEW q \in Nat, NEW k \in 0 .. UserPageSize - 1,
           Covers(h, q * UserPageSize + k)
    PROVE  q * UserPageSize \in PagesOf(h)
<1>1. q * UserPageSize + k \in Nat
    BY WordFacts
<1>2. q * UserPageSize + k \in h.address .. h.address + h.memorySize - 1
    BY <1>1 DEF Covers, SegmentOK
<1>3. PageBase(q * UserPageSize + k) = q * UserPageSize
    BY PageNumber
<1> QED BY <1>2, <1>3, PagesOfSegment, ZenonT(30)

\* The bytes from the file lie within the segment.
LEMMA FileCovered ==
    ASSUME NEW h, SegmentOK(h), NEW a \in Int, InFile(h, a)
    PROVE  Covers(h, a)
  BY DEF SegmentOK, InFile, Covers

\* copy_to_physical at one offset of a page.
LEMMA CopiedByte ==
    ASSUME NEW h, SegmentOK(h), NEW p \in Nat, NEW k \in Nat, NEW before
    PROVE  CopyToPhysical(h, p, k, before) =
              IF InFile(h, p + k) THEN h.offset + (p + k - h.address) + 1 ELSE before
<1>1. PICK a \in Nat : a = h.address
    BY DEF SegmentOK
<1>2. (p + k) - a = p + k - a
    OBVIOUS
<1> QED BY <1>1, <1>2, Zenon DEF CopyToPhysical, InFile

\* ensure_user_page and the copying loop, for one page p and the segment with
\* index i: what the page held before belongs to the segments in J.
LEMMA PageFilled ==
    ASSUME headers \in Seq(ProgramHeaders), ImageValid,
           NEW J \in SUBSET DOMAIN headers, \A j \in J : Loads(headers[j]),
           NEW i \in DOMAIN headers \ J, Loads(headers[i]),
           NEW q \in Nat, NEW p, p = q * UserPageSize,
           NEW old, PageAsDescribed(old, p, J),
           NEW new,
           new = [writable |-> old.writable \/ (p \in PagesOf(headers[i]) /\ "W" \in headers[i].flags),
                  bytes |-> [k \in 0 .. UserPageSize - 1 |->
                               CopyToPhysical(headers[i], p, k, old.bytes[k])]]
    PROVE  PageAsDescribed(new, p, J \cup {i})
<1> DEFINE W(j) == "W" \in headers[j].flags /\ p \in PagesOf(headers[j])
           Byte(j, k) == headers[j].offset + (p + k - headers[j].address) + 1
<1>1. /\ old \in [writable : BOOLEAN, bytes : [0 .. UserPageSize - 1 -> Nat]]
      /\ old.writable <=> \E j \in J : W(j)
      /\ \A k \in 0 .. UserPageSize - 1 :
            /\ \A j \in J : InFile(headers[j], p + k) => old.bytes[k] = Byte(j, k)
            /\ (\A j \in J : ~InFile(headers[j], p + k)) => old.bytes[k] = 0
    BY Zenon DEF PageAsDescribed
<1>2. /\ new.writable = (old.writable \/ W(i))
      /\ new.bytes = [k \in 0 .. UserPageSize - 1 |->
                         CopyToPhysical(headers[i], p, k, old.bytes[k])]
    OBVIOUS
<1>3. new.writable <=> \E j \in J \cup {i} : W(j)
    BY <1>1, <1>2, Zenon
<1>4. SegmentOK(headers[i]) /\ \A j \in J : SegmentOK(headers[j])
    BY ValidSegments, Zenon
<1>5. p \in Nat /\ UserPageSize \in Nat
    BY WordFacts
<1>6. ASSUME NEW k \in 0 .. UserPageSize - 1
      PROVE  new.bytes[k] = IF InFile(headers[i], p + k) THEN Byte(i, k) ELSE old.bytes[k]
    <2>1. new.bytes[k] = CopyToPhysical(headers[i], p, k, old.bytes[k])
        BY <1>2, Zenon
    <2>2. k \in Nat
        OBVIOUS
    <2>3. CopyToPhysical(headers[i], p, k, old.bytes[k]) =
              IF InFile(headers[i], p + k)
              THEN headers[i].offset + (p + k - headers[i].address) + 1 ELSE old.bytes[k]
        BY <1>4, <1>5, <2>2, CopiedByte
    <2> QED BY <2>1, <2>3, Zenon
<1> HIDE DEF W
<1>7. ASSUME NEW k \in 0 .. UserPageSize - 1, NEW j \in J \cup {i}, InFile(headers[j], p + k)
      PROVE  new.bytes[k] = Byte(j, k)
    <2>1. CASE j = i
        BY <1>6, <1>7, <2>1, Zenon
    <2>2. CASE j # i
        <3>1. p + k \in Int
            BY <1>5
        <3>2. ~InFile(headers[i], p + k)
            BY <1>4, <1>7, <2>2, <3>1, FileCovered, DisjointSegments, Zenon
        <3> QED BY <1>1, <1>6, <1>7, <2>2, <3>2, Zenon
    <2> QED BY <2>1, <2>2, Zenon
<1>8. ASSUME NEW k \in 0 .. UserPageSize - 1, \A j \in J \cup {i} : ~InFile(headers[j], p + k)
      PROVE  new.bytes[k] = 0
    BY <1>1, <1>6, <1>8, Zenon
<1>9. new \in [writable : BOOLEAN, bytes : [0 .. UserPageSize - 1 -> Nat]]
    <2>1. ASSUME NEW k \in 0 .. UserPageSize - 1
          PROVE  CopyToPhysical(headers[i], p, k, old.bytes[k]) \in Nat
        <3>1. old.bytes[k] \in Nat
            BY <1>1, Zenon
        <3>2. PICK o \in Nat, a \in Nat, f \in Nat :
                  o = headers[i].offset /\ a = headers[i].address /\ f = headers[i].fileSize
            BY <1>4, Zenon DEF SegmentOK
        <3>3. p + k - a \in 0 .. f - 1 => o + (p + k - a) + 1 \in Nat
            BY PositionInFile, Zenon
        <3> QED BY <3>1, <3>2, <3>3, Zenon DEF CopyToPhysical
    <2>2. old.writable \in BOOLEAN
        BY <1>1, Zenon
    <2>3. new.bytes \in [0 .. UserPageSize - 1 -> Nat]
        BY <1>2, <2>1, Zenon
    <2>4. new.writable \in BOOLEAN
        BY <1>2, <2>2, Zenon
    <2>5. new = [writable |-> new.writable, bytes |-> new.bytes]
        BY Zenon
    <2> QED BY <2>3, <2>4, <2>5
<1> QED BY <1>3, <1>7, <1>8, <1>9, Zenon DEF PageAsDescribed, W

\* A page that is new is zero and belongs to no segment so far.
LEMMA NewPage ==
    ASSUME headers \in Seq(ProgramHeaders), ImageValid,
           NEW J \in SUBSET DOMAIN headers, \A j \in J : Loads(headers[j]),
           NEW q \in Nat, NEW p, p = q * UserPageSize,
           \A j \in J : p \notin PagesOf(headers[j])
    PROVE  PageAsDescribed([writable |-> FALSE, bytes |-> ZeroPage], p, J)
<1> DEFINE page == [writable |-> FALSE, bytes |-> ZeroPage]
<1>1. /\ page \in [writable : BOOLEAN, bytes : [0 .. UserPageSize - 1 -> Nat]]
      /\ page.writable = FALSE /\ \A k \in 0 .. UserPageSize - 1 : page.bytes[k] = 0
    BY DEF ZeroPage
<1>2. ASSUME NEW k \in 0 .. UserPageSize - 1, NEW j \in J, InFile(headers[j], p + k)
      PROVE  FALSE
    <2>1. SegmentOK(headers[j])
        BY ValidSegments, Zenon
    <2>2. p + k \in Int
        BY WordFacts
    <2>3. Covers(headers[j], q * UserPageSize + k)
        BY <1>2, <2>1, <2>2, FileCovered, Zenon
    <2> QED BY <2>1, <2>3, PageReached, Zenon
<1> HIDE DEF page
<1>3. PageAsDescribed(page, p, J)
    BY <1>1, <1>2, Zenon DEF PageAsDescribed
<1> QED BY <1>3, Zenon DEF page

\* load_program for a header that counts.
LEMMA SegmentLoaded ==
    ASSUME ElfInv, loaded = "pending", LoadProgram, Loads(headers[loading])
    PROVE  PagesAsDescribed'
<1>1. /\ headers \in Seq(ProgramHeaders) /\ loading \in DOMAIN headers
      /\ ImageValid /\ PagesAsDescribed /\ loading \in Nat /\ UNCHANGED headers
      /\ loading' = loading + 1
    <2>1. loading \in DOMAIN headers /\ UNCHANGED headers /\ loading' = loading + 1
        BY Zenon DEF LoadProgram
    <2>2. headers \in Seq(ProgramHeaders)
        BY Zenon DEF ElfInv
    <2>3. loading # 0 /\ loading \in Nat
        BY <2>1, <2>2
    <2> QED BY <2>1, <2>2, <2>3 DEF ElfInv
<1>2. PICK i \in DOMAIN headers : i = loading
    BY <1>1
<1>3. PICK J \in SUBSET DOMAIN headers : J = Done
    BY Zenon DEF Done
<1>4. /\ \A j \in J : Loads(headers[j]) /\ j # i
      /\ Loads(headers[i]) /\ i \in DOMAIN headers \ J
    BY <1>1, <1>2, <1>3 DEF Done
<1>5. Done' = J \cup {i}
    <2>1. Done' = {j \in DOMAIN headers : j < i + 1 /\ Loads(headers[j])}
        BY <1>1, <1>2, Zenon DEF Done, Loads
    <2>2. Done = {j \in DOMAIN headers : j < i /\ Loads(headers[j])}
        BY <1>2, Zenon DEF Done
    <2>3. \A j \in DOMAIN headers : j < i + 1 <=> j < i \/ j = i
        BY <1>1
    <2>4. \A j : j \in Done' <=> j \in J \cup {i}
        BY <1>3, <1>4, <2>1, <2>2, <2>3, Zenon
    <2> QED BY <2>4, Zenon
<1> DEFINE h == headers[i]
           W == "W" \in h.flags
           space == Ensured(h, PagesOf(h))
           old(p) == IF p \in DOMAIN pages THEN pages[p]
                     ELSE [writable |-> FALSE, bytes |-> ZeroPage]
           new(p) == [writable |-> old(p).writable \/ (p \in PagesOf(h) /\ W),
                      bytes |-> [k \in 0 .. UserPageSize - 1 |->
                                   CopyToPhysical(h, p, k, old(p).bytes[k])]]
<1>6. /\ DOMAIN pages = UNION {PagesOf(headers[j]) : j \in J}
      /\ \A p \in DOMAIN pages : PageAsDescribed(pages[p], p, J)
    BY <1>1, <1>3, Zenon DEF PagesAsDescribed
<1>7. SegmentOK(h) /\ \A j \in J : SegmentOK(headers[j])
    BY <1>1, <1>4, ValidSegments, Zenon
<1>8. \A p \in DOMAIN pages \cup PagesOf(h) : \E q \in Nat : p = q * UserPageSize
    <2>1. \A g : SegmentOK(g) => \A p \in PagesOf(g) : \E q \in Nat : p = q * UserPageSize
        BY PagesOfSegment
    <2> HIDE DEF h
    <2>2. ASSUME NEW p \in DOMAIN pages PROVE \E q \in Nat : p = q * UserPageSize
        <3>1. PICK j \in J : p \in PagesOf(headers[j])
            BY <1>6
        <3> QED BY <1>7, <2>1, <3>1, Zenon
    <2> QED BY <1>7, <2>1, <2>2, Zenon
<1>9. ASSUME NEW p \in DOMAIN pages \cup PagesOf(h)
      PROVE  PageAsDescribed(old(p), p, J)
    <2>1. CASE p \in DOMAIN pages
        BY <1>6, <2>1, Zenon
    <2>2. CASE p \notin DOMAIN pages
        <3>1. PICK q \in Nat : p = q * UserPageSize
            BY <1>8
        <3>2. \A j \in J : p \notin PagesOf(headers[j])
            BY <1>6, <2>2
        <3>3. PageAsDescribed([writable |-> FALSE, bytes |-> ZeroPage], p, J)
            BY <1>1, <1>4, <3>1, <3>2, NewPage, Zenon
        <3> QED BY <2>2, <3>3, Zenon
    <2> QED BY <2>1, <2>2
<1>10. ASSUME NEW p \in DOMAIN pages \cup PagesOf(h)
       PROVE  PageAsDescribed(new(p), p, J \cup {i})
    <2>1. PICK q \in Nat : p = q * UserPageSize
        BY <1>8
    <2>2. PICK o : o = old(p)
        BY Zenon
    <2>3. PageAsDescribed(o, p, J)
        BY <1>9, <2>2, Zenon
    <2>4. PICK n : n = [writable |-> o.writable \/ (p \in PagesOf(headers[i]) /\ "W" \in headers[i].flags),
                        bytes |-> [k \in 0 .. UserPageSize - 1 |->
                                     CopyToPhysical(headers[i], p, k, o.bytes[k])]]
        BY Zenon
    <2>5. PageAsDescribed(n, p, J \cup {i})
        BY <1>1, <1>4, <2>1, <2>3, <2>4, PageFilled, Zenon
    <2>6. n = new(p)
        BY <2>2, <2>4, Zenon
    <2> QED BY <2>5, <2>6, Zenon
<1>11. pages' = [p \in DOMAIN space |-> [space[p] EXCEPT !.bytes =
                    [k \in DOMAIN @ |-> CopyToPhysical(h, p, k, @[k])]]]
    BY <1>2, Zenon DEF LoadProgram
<1>12. DOMAIN space = DOMAIN pages \cup PagesOf(h)
    BY DEF Ensured
<1>13. ASSUME NEW p \in DOMAIN pages \cup PagesOf(h)
       PROVE  /\ space[p] = [writable |-> old(p).writable \/ (p \in PagesOf(h) /\ W),
                             bytes |-> old(p).bytes]
              /\ DOMAIN old(p).bytes = 0 .. UserPageSize - 1
    <2>1. old(p) \in [writable : BOOLEAN, bytes : [0 .. UserPageSize - 1 -> Nat]]
        BY <1>9, Zenon DEF PageAsDescribed
    <2>2. space[p] = IF p \in PagesOf(h) THEN EnsureUserPage(pages, p, W) ELSE pages[p]
        BY DEF Ensured
    <2>3. PICK o \in [writable : BOOLEAN, bytes : [0 .. UserPageSize - 1 -> Nat]] : o = old(p)
        BY <2>1, Zenon
    <2>4. p \in DOMAIN pages => pages[p] = o
        BY <2>3
    <2>5. p \notin DOMAIN pages => o = [writable |-> FALSE, bytes |-> ZeroPage]
        BY <2>3
    <2>6. space[p] = [writable |-> o.writable \/ (p \in PagesOf(h) /\ W), bytes |-> o.bytes]
        <3> HIDE DEF old, W, h, space
        <3>1. CASE p \in PagesOf(h) /\ p \in DOMAIN pages
            <4>1. space[p] = [o EXCEPT !.writable = o.writable \/ W]
                BY <2>2, <2>4, <3>1 DEF EnsureUserPage
            <4> QED BY <3>1, <4>1
        <3>2. CASE p \in PagesOf(h) /\ p \notin DOMAIN pages
            <4>1. space[p] = [writable |-> W, bytes |-> ZeroPage]
                BY <2>2, <3>2 DEF EnsureUserPage
            <4>2. W \in BOOLEAN
                BY DEF W
            <4>3. o.writable = FALSE /\ o.bytes = ZeroPage
                BY <2>5, <3>2
            <4> QED BY <3>2, <4>1, <4>2, <4>3, Zenon
        <3>3. CASE p \notin PagesOf(h)
            <4>1. space[p] = o
                BY <2>2, <2>4, <3>3
            <4> QED BY <3>3, <4>1, Zenon
        <3> QED BY <3>1, <3>2, <3>3
    <2> QED BY <2>3, <2>6, Zenon
<1>14. ASSUME NEW p \in DOMAIN pages \cup PagesOf(h)
       PROVE  pages'[p] = new(p)
    <2> HIDE DEF space, h, W, old
    <2>1. PICK o : o = old(p)
        OBVIOUS
    <2>2. PICK w : w = (o.writable \/ (p \in PagesOf(h) /\ W))
        OBVIOUS
    <2>3. PICK s : s = space[p]
        OBVIOUS
    <2>4. s = [writable |-> w, bytes |-> o.bytes] /\ DOMAIN o.bytes = 0 .. UserPageSize - 1
        BY <1>13, <2>1, <2>2, <2>3, Zenon
    <2>5. pages'[p] = [s EXCEPT !.bytes =
                          [k \in DOMAIN s.bytes |-> CopyToPhysical(h, p, k, s.bytes[k])]]
        BY <1>11, <1>12, <2>3
    <2>6. s.bytes = o.bytes
        BY <2>4
    <2>7. pages'[p] = [s EXCEPT !.bytes =
                          [k \in 0 .. UserPageSize - 1 |-> CopyToPhysical(h, p, k, o.bytes[k])]]
        BY <2>4, <2>5, <2>6, Zenon
    <2>8. pages'[p] = [writable |-> w, bytes |->
                          [k \in 0 .. UserPageSize - 1 |-> CopyToPhysical(h, p, k, o.bytes[k])]]
        BY <2>4, <2>7, Zenon
    <2> QED BY <2>1, <2>2, <2>8, Zenon
<1>15. DOMAIN pages' = UNION {PagesOf(headers[j]) : j \in J \cup {i}}
    <2>1. DOMAIN pages' = DOMAIN pages \cup PagesOf(headers[i])
        BY <1>11, <1>12
    <2> QED BY <1>6, <2>1, Zenon
<1>16. \A p \in DOMAIN pages' : PageAsDescribed(pages'[p], p, J \cup {i})
    BY <1>10, <1>11, <1>12, <1>14, Zenon
<1>17. \A page, p, segments : PageAsDescribed(page, p, segments)'
                                 <=> PageAsDescribed(page, p, segments)
    <2>1. headers' = headers
        BY <1>1
    <2> QED BY <2>1 DEF PageAsDescribed
<1> QED BY <1>1, <1>5, <1>15, <1>16, <1>17, Zenon DEF PagesAsDescribed

\* Loading a header, or failing at it, keeps what is in memory so far as described.
LEMMA ElfNextInv == ElfInv /\ [ElfNext]_elfVars => ElfInv'
<1> SUFFICES ASSUME ElfInv, [ElfNext]_elfVars PROVE ElfInv'
    OBVIOUS
\* As long as neither the headers nor the pages change, nor what has been loaded.
<1>1. ASSUME UNCHANGED <<headers, entry, pages>>, Done' = Done
      PROVE  (ImageValid' <=> ImageValid) /\ (PagesAsDescribed' <=> PagesAsDescribed)
    <2>1. headers' = headers /\ entry' = entry /\ pages' = pages
        BY <1>1
    <2>2. ImageValid' <=> ImageValid
        BY <2>1, Zenon DEF ImageValid
    <2>3. \A page, p, segments : PageAsDescribed(page, p, segments)'
                                    <=> PageAsDescribed(page, p, segments)
        BY <2>1 DEF PageAsDescribed
    <2>4. PagesAsDescribed' <=> PagesAsDescribed
        BY <1>1, <2>1, <2>3, Zenon DEF PagesAsDescribed
    <2> QED BY <2>2, <2>4
<1>2. Len(headers) \in Nat /\ DOMAIN headers = 1 .. Len(headers) /\ loading \in Nat
    BY DEF ElfInv
<1>3. ASSUME NEW foreign \in BOOLEAN, Validate(foreign) PROVE ElfInv'
    <2>1. UNCHANGED <<headers, entry, pages>> /\ loading = 0 /\ loaded = "pending"
        BY <1>3 DEF Validate
    <2>2. \/ loading' = 1 /\ loaded' = loaded /\ ImageValid
          \/ loaded' = "ENOEXEC" /\ loading' = loading
        BY <1>3 DEF Validate
    <2>3. Done' = Done
        <3>1. \A j \in 1 .. Len(headers) : (j < loading <=> FALSE) /\ (j < loading' <=> FALSE)
            BY <1>2, <2>1, <2>2
        <3>2. Done = {}
            BY <1>2, <3>1, Zenon DEF Done
        <3>3. Done' = {}
            BY <1>2, <2>1, <3>1, Zenon DEF Done
        <3> QED BY <3>2, <3>3
    <2>4. (ImageValid' <=> ImageValid) /\ (PagesAsDescribed' <=> PagesAsDescribed)
        BY <1>1, <2>1, <2>3
    <2> QED BY <1>2, <2>1, <2>2, <2>4 DEF ElfInv
<1>4. CASE LoadProgram
    <2>1. /\ loaded = "pending" /\ loading \in DOMAIN headers
          /\ UNCHANGED <<headers, entry, loaded>> /\ loading' = loading + 1
        BY <1>4, Zenon DEF LoadProgram
    <2>2. PagesAsDescribed'
        <3>1. CASE Loads(headers[loading])
            BY <1>4, <2>1, <3>1, SegmentLoaded
        <3>2. CASE ~Loads(headers[loading])
            <4>1. UNCHANGED pages
                BY <1>4, <3>2 DEF LoadProgram
            <4>2. Done' = Done
                <5>1. \A j \in DOMAIN headers : j < loading + 1 <=> j < loading \/ j = loading
                    BY <1>2
                <5> QED BY <2>1, <3>2, <5>1, Zenon DEF Done, Loads
            <4> QED BY <1>1, <2>1, <4>1, <4>2 DEF ElfInv
        <3> QED BY <3>1, <3>2
    <2>3. ImageValid' <=> ImageValid
        <3>1. headers' = headers /\ entry' = entry
            BY <2>1
        <3> QED BY <3>1 DEF ImageValid
    <2> QED BY <1>2, <2>1, <2>2, <2>3 DEF ElfInv
<1>5. CASE NoMemory
    <2>1. UNCHANGED <<headers, entry, loading>> /\ loaded' = "ENOMEM"
        BY <1>5 DEF NoMemory
    <2>2. ImageValid' <=> ImageValid
        <3>1. headers' = headers /\ entry' = entry
            BY <2>1
        <3> QED BY <3>1 DEF ImageValid
    <2> QED BY <2>1, <2>2 DEF ElfInv
<1>a. CASE CopyFails
    <2>1. UNCHANGED <<headers, entry, loading>> /\ loaded' = "EIO"
        BY <1>a DEF CopyFails
    <2>2. ImageValid' <=> ImageValid
        <3>1. headers' = headers /\ entry' = entry
            BY <2>1
        <3> QED BY <3>1 DEF ImageValid
    <2> QED BY <2>1, <2>2 DEF ElfInv
<1>6. CASE Finish
    <2>1. /\ UNCHANGED <<headers, entry, loading, pages>> /\ loaded = "pending"
          /\ loaded' = "ok" /\ loading = Len(headers) + 1
        BY <1>6 DEF Finish
    <2>2. Done' = Done
        BY <2>1, Zenon DEF Done, Loads
    <2> QED BY <1>1, <2>1, <2>2 DEF ElfInv
<1>7. CASE UNCHANGED elfVars
    <2>1. UNCHANGED <<headers, entry, loading, pages, loaded>>
        BY <1>7 DEF elfVars
    <2>2. Done' = Done
        BY <2>1, Zenon DEF Done, Loads
    <2> QED BY <1>1, <2>1, <2>2 DEF ElfInv
<1> QED BY <1>3, <1>4, <1>5, <1>a, <1>6, <1>7 DEF ElfNext

\* What the invariant says when the loader has returned.
LEMMA InvLoaded == ElfInv => LoadedAsDescribed
<1> SUFFICES ASSUME ElfInv, loaded = "ok" PROVE LoadedAsDescribed
    BY Zenon DEF LoadedAsDescribed
<1>1. /\ headers \in Seq(ProgramHeaders) /\ loading = Len(headers) + 1 /\ ImageValid
      /\ PagesAsDescribed /\ entry \in Words
    BY DEF ElfInv
<1>2. Len(headers) \in Nat /\ DOMAIN headers = 1 .. Len(headers)
    BY <1>1
<1>3. Done = {j \in DOMAIN headers : Loads(headers[j])}
    <2>1. \A j \in DOMAIN headers : j < loading
        BY <1>1, <1>2
    <2> QED BY <2>1, Zenon DEF Done
<1>4. Segments = {headers[j] : j \in Done}
    BY <1>3, Zenon DEF Segments
<1>5. \A j \in Done : j \in DOMAIN headers /\ Loads(headers[j]) /\ SegmentOK(headers[j])
    BY <1>1, <1>3, ValidSegments, Zenon
<1>6. /\ DOMAIN pages = UNION {PagesOf(headers[j]) : j \in Done}
      /\ \A p \in DOMAIN pages : PageAsDescribed(pages[p], p, Done)
    BY <1>1, Zenon DEF PagesAsDescribed
<1>7. \A j \in Done : {a \in Words : Covers(headers[j], a)}
                         = headers[j].address .. headers[j].address + headers[j].memorySize - 1
    <2> SUFFICES ASSUME NEW h, SegmentOK(h)
                 PROVE  {a \in Words : Covers(h, a)} = h.address .. h.address + h.memorySize - 1
        BY <1>5, Zenon
    <2>1. PICK x \in Nat, y \in Nat \ {0} : x = h.address /\ y = h.memorySize /\ x + y <= KernelBase
        BY DEF SegmentOK
    <2>2. \A a : a \in Words /\ a >= x /\ a < x + y <=> a \in x .. x + y - 1
        BY <2>1, ByteRange, WordFacts, Zenon
    <2> QED BY <2>1, <2>2, Zenon DEF Covers
<1>8. \A j \in Done : PagesOf(headers[j]) = {PageBase(a) : a \in {b \in Words : Covers(headers[j], b)}}
    BY <1>5, <1>7, PagesOfSegment, Zenon
<1>9. DOMAIN pages = {PageBase(a) : a \in {b \in Words : \E h \in Segments : Covers(h, b)}}
    <2>1. \A p : p \in DOMAIN pages <=> \E j \in Done : p \in PagesOf(headers[j])
        BY <1>6
    <2>2. \A p : p \in DOMAIN pages <=>
              \E j \in Done : \E a \in Words : Covers(headers[j], a) /\ p = PageBase(a)
        <3>1. ASSUME NEW j \in Done, NEW p
              PROVE  p \in PagesOf(headers[j])
                        <=> \E a \in Words : Covers(headers[j], a) /\ p = PageBase(a)
            <4>1. p \in PagesOf(headers[j]) <=>
                      p \in {PageBase(a) : a \in {b \in Words : Covers(headers[j], b)}}
                BY <1>8, Zenon
            <4> QED BY <4>1, Zenon
        <3>2. \A p : p \in DOMAIN pages => \E j \in Done :
                  \E a \in Words : Covers(headers[j], a) /\ p = PageBase(a)
            <4> SUFFICES ASSUME NEW p \in DOMAIN pages
                         PROVE  \E j \in Done :
                                    \E a \in Words : Covers(headers[j], a) /\ p = PageBase(a)
                OBVIOUS
            <4>1. PICK j \in Done : p \in PagesOf(headers[j])
                BY <2>1, Zenon
            <4> QED BY <3>1, <4>1, Zenon
        <3>3. \A p : (\E j \in Done : \E a \in Words : Covers(headers[j], a) /\ p = PageBase(a))
                        => p \in DOMAIN pages
            BY <2>1, <3>1, Zenon
        <3> QED BY <3>2, <3>3, Zenon
    <2>3. \A p : p \in DOMAIN pages <=>
              \E a \in {b \in Words : \E h \in Segments : Covers(h, b)} : p = PageBase(a)
        BY <1>4, <2>2, Zenon
    <2> QED BY <2>3, Zenon
<1>10. \A p \in DOMAIN pages :
          \E q \in Nat \ {0} : p = q * UserPageSize /\ p \in PageBases /\ p < KernelBase
    <2>1. \A g : SegmentOK(g) => \A p \in PagesOf(g) :
              \E q \in Nat \ {0} : p = q * UserPageSize /\ p \in PageBases /\ p < KernelBase
        BY PagesOfSegment
    <2>2. \A p \in DOMAIN pages : \E j \in Done : p \in PagesOf(headers[j])
        BY <1>6
    <2> QED BY <1>5, <2>1, <2>2, Zenon
<1>11. DOMAIN pages \subseteq {p \in PageBases : p # 0 /\ p < KernelBase}
    <2>1. \A q \in Nat \ {0} : q * UserPageSize # 0
        BY WordFacts
    <2> QED BY <1>10, <2>1
<1>12. ASSUME NEW h \in Segments, NEW a \in {b \in Words : Covers(h, b)}
       PROVE  pages[PageBase(a)].bytes[PageOffset(a)] =
                  IF a - h.address < h.fileSize THEN h.offset + (a - h.address) + 1 ELSE 0
    <2>1. PICK i \in Done : h = headers[i]
        BY <1>4
    <2>2. a \in Words /\ Covers(h, a) /\ a \in Nat /\ a \in Int
        BY WordFacts
    <2>3. PICK q \in Nat, k \in 0 .. UserPageSize - 1 :
              /\ a = q * UserPageSize + k /\ PageBase(a) = q * UserPageSize /\ PageOffset(a) = k
        BY <2>2, PageParts
    <2>4. PICK p : p = PageBase(a)
        OBVIOUS
    <2>5. p \in DOMAIN pages /\ p + k = a
        BY <1>9, <2>2, <2>3, <2>4, Zenon
    <2>6. /\ \A j \in Done : InFile(headers[j], a) =>
                pages[p].bytes[k] = headers[j].offset + (p + k - headers[j].address) + 1
          /\ (\A j \in Done : ~InFile(headers[j], a)) => pages[p].bytes[k] = 0
        BY <1>6, <2>5, Zenon DEF PageAsDescribed
    <2>7. PICK x \in Nat, o \in Nat, f \in Nat : x = h.address /\ o = h.offset /\ f = h.fileSize
        BY <1>5, <2>1, Zenon DEF SegmentOK
    <2>8. p \in Nat /\ p + k - x = a - x
        BY <2>3, <2>4, <2>5, <2>7, WordFacts
    <2>9. a >= x
        BY <2>2, <2>7, Zenon DEF Covers
    <2>10. CASE a - x < f
        <3>1. a - x \in 0 .. f - 1
            BY <2>2, <2>9, <2>10
        <3>2. InFile(headers[i], a)
            BY <2>1, <2>7, <3>1, Zenon DEF InFile
        <3> QED BY <2>1, <2>3, <2>4, <2>6, <2>7, <2>8, <2>10, <3>2, Zenon
    <2>11. CASE ~(a - x < f)
        <3>1. ASSUME NEW j \in Done, InFile(headers[j], a) PROVE FALSE
            <4>1. CASE j = i
                <5>1. a - x \in 0 .. f - 1
                    BY <2>1, <2>7, <3>1, <4>1, Zenon DEF InFile
                <5> QED BY <2>2, <2>11, <5>1
            <4>2. CASE j # i
                <5>1. Covers(headers[j], a)
                    BY <1>5, <2>2, <3>1, FileCovered, Zenon
                <5>2. Covers(headers[i], a)
                    BY <2>1, <2>2, Zenon
                <5> QED BY <1>1, <1>5, <2>2, <4>2, <5>1, <5>2, DisjointSegments, Zenon
            <4> QED BY <4>1, <4>2
        <3> QED BY <2>3, <2>4, <2>6, <2>7, <2>11, <3>1, Zenon
    <2> QED BY <2>10, <2>11
<1>13. ASSUME NEW p \in DOMAIN pages
       PROVE  pages[p].writable <=> \E h \in Segments :
                  "W" \in h.flags /\ \E k \in 0 .. UserPageSize - 1 : Covers(h, p + k)
    <2>1. pages[p].writable <=> \E j \in Done : "W" \in headers[j].flags /\ p \in PagesOf(headers[j])
        BY <1>6, Zenon DEF PageAsDescribed
    <2>2. PICK q \in Nat : p = q * UserPageSize
        BY <1>10
    <2>3. ASSUME NEW j \in Done, p \in PagesOf(headers[j])
          PROVE  \E k \in 0 .. UserPageSize - 1 : Covers(headers[j], p + k)
        <3>1. PICK a \in Words : Covers(headers[j], a) /\ p = PageBase(a)
            BY <1>8, <2>3, Zenon
        <3>2. PICK r \in Nat, k \in 0 .. UserPageSize - 1 :
                  a = r * UserPageSize + k /\ PageBase(a) = r * UserPageSize
            BY PageParts, WordFacts, Zenon
        <3> QED BY <3>1, <3>2, Zenon
    <2>4. ASSUME NEW j \in Done, NEW k \in 0 .. UserPageSize - 1, Covers(headers[j], p + k)
          PROVE  p \in PagesOf(headers[j])
        BY <1>5, <2>2, <2>4, PageReached, Zenon
    <2> QED BY <1>4, <2>1, <2>3, <2>4, Zenon
<1>14. \E h \in Segments : "X" \in h.flags /\ Covers(h, entry)
    <2>1. PICK i \in DOMAIN headers : /\ Loads(headers[i]) /\ "X" \in headers[i].flags
                                      /\ entry >= headers[i].address
                                      /\ entry - headers[i].address < headers[i].memorySize
        BY <1>1, Zenon DEF ImageValid
    <2>2. PICK x \in Nat, y \in Nat : x = headers[i].address /\ y = headers[i].memorySize
        BY <1>3, <1>5, <2>1, Zenon DEF SegmentOK
    <2>3. entry >= x /\ entry - x < y /\ entry \in Int
        BY <1>1, <2>1, <2>2, WordFacts
    <2>4. entry < x + y
        BY <2>3
    <2>5. Covers(headers[i], entry)
        BY <2>2, <2>3, <2>4, Zenon DEF Covers
    <2> QED BY <1>3, <1>4, <2>1, <2>5, Zenon
<1> QED BY <1>9, <1>11, <1>12, <1>13, <1>14, Zenon DEF LoadedAsDescribed

\* An image that elf_load_image accepts is in memory as its program headers
\* describe it, for every set of headers, page size and limit.
THEOREM ImageAsDescribed == ElfSpec => []LoadedAsDescribed
<1>1. ElfInit => ElfInv
    <2> SUFFICES ASSUME ElfInit PROVE ElfInv
        OBVIOUS
    <2>1. PICK n \in 0 .. ProgramLimit : headers \in [1 .. n -> ProgramHeaders]
        BY DEF ElfInit
    <2>2. headers \in Seq(ProgramHeaders) /\ Len(headers) = n /\ n \in Nat
        BY <2>1, HeadersAssumption
    <2>3. entry \in Words /\ loading = 0 /\ loaded = "pending" /\ pages = <<>>
        BY HeadersAssumption DEF ElfInit
    <2>4. Done = {}
        <3>1. DOMAIN headers = 1 .. n /\ \A j \in 1 .. n : ~(j < loading)
            BY <2>1, <2>2, <2>3
        <3> QED BY <3>1, Zenon DEF Done
    <2>5. DOMAIN pages = {}
        BY <2>3
    <2>6. PagesAsDescribed
        BY <2>4, <2>5 DEF PagesAsDescribed
    <2> QED BY <2>2, <2>3, <2>6 DEF ElfInv
<1> QED BY <1>1, ElfNextInv, InvLoaded, PTL DEF ElfSpec

=============================================================================
