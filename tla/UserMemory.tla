----------------------------- MODULE UserMemory -----------------------------
(***************************************************************************)
(* The copies between the kernel and a user program                        *)
(* (kernel/mm/usercopy.c): every system call that takes a pointer goes     *)
(* through them.  A call is made with any pointer and any length; what is  *)
(* mapped where does not change meanwhile, because system calls run with   *)
(* interrupts disabled.                                                    *)
(***************************************************************************)
EXTENDS UserLayout, Sequences

CONSTANTS Layouts,      \* which flags the page at each base has
          Memories      \* what is in memory

ASSUME UserMemoryAssumption ==
    /\ \A flags \in Layouts :
          /\ flags \in [PageBases -> SUBSET {"present", "user", "writable"}]
          /\ \A base \in PageBases : base >= KernelBase => "user" \notin flags[base]
    /\ \A bytes \in Memories : DOMAIN bytes = Words

End0 == 0       \* the byte that ends a string

NoCall == [kind |-> "none", start |-> 0, length |-> 0, data |-> <<>>]

EFAULT == "EFAULT"

VARIABLES
    layout,     \* the flags that vmm_query reports
    memory,     \* the bytes at all addresses
    call,       \* the last call,
    result,     \* what it returned,
    kernel,     \* what it has written to the kernel's buffer,
    previous    \* history: and the memory before it

userVars == <<layout, memory, call, result, kernel, previous>>

-----------------------------------------------------------------------------
\* Mutant of ValidateUserRange: the length is not compared with what is left.
ValidateUserRangeWrapping(start, length, write) ==
    \/ length = 0
    \/ /\ start < KernelBase
       /\ \A page \in PagesFrom(PageBase(start), PageBase(Word(start + length - 1))) :
             {"present", "user"} \cup (IF write THEN {"writable"} ELSE {})
                 \subseteq layout[page]

\* validate_user_range
ValidateUserRange(start, length, write) ==
    \/ length = 0
    \/ /\ start < KernelBase /\ length <= KernelBase - start
       /\ \A page \in PagesFrom(PageBase(start), PageBase(Word(start + length - 1))) :
             {"present", "user"} \cup (IF write THEN {"writable"} ELSE {})
                 \subseteq layout[page]

Bytes(start, length) == [k \in 1 .. length |-> memory[Word(start + k - 1)]]

Called(kind, start, length, data) ==
    /\ call' = [kind |-> kind, start |-> start, length |-> length, data |-> data]
    /\ previous' = memory
    /\ UNCHANGED layout

\* copy_from_user
CopyFromUser == \E start \in Words, length \in Words :
    /\ Called("from", start, length, <<>>)
    /\ IF ValidateUserRange(start, length, FALSE)
       THEN result' = "ok" /\ kernel' = Bytes(start, length)
       ELSE result' = EFAULT /\ kernel' = <<>>
    /\ UNCHANGED memory

\* copy_to_user
CopyToUser == \E start \in Words, length \in Words :
    LET data == [k \in 1 .. length |-> k + 1] IN
    /\ Called("to", start, length, data)
    /\ IF ValidateUserRange(start, length, TRUE)
       THEN /\ result' = "ok"
            /\ memory' = [a \in DOMAIN memory |->
                             IF Word(a - start) < length
                             THEN data[Word(a - start) + 1] ELSE memory[a]]
       ELSE result' = EFAULT /\ UNCHANGED memory
    /\ kernel' = <<>>

Least(a, b) == IF a < b THEN a ELSE b

\* One turn of the loop of copy_user_string over the pages: how many bytes have
\* been copied, and how it ends.
StringChunk(state, start, maximum) ==
    LET current == Word(start + state.index)
        left    == KernelBase - start - state.index
        chunk   == Least(Least(UserPageSize - PageOffset(current), maximum - state.index), left)
        ends    == {k \in 1 .. chunk : memory[current + k - 1] = End0}
    IN  IF state.result # "going" THEN state
        ELSE IF \/ state.index >= maximum \/ left <= 0
                \/ ~ValidateUserRange(current, chunk, FALSE)
        THEN [state EXCEPT !.result = EFAULT]
        ELSE IF ends = {} THEN [state EXCEPT !.index = @ + chunk]
        ELSE [index |-> state.index + (CHOOSE k \in ends : \A j \in ends : k <= j),
              result |-> "ok"]

\* All of it: a turn copies at least one byte, or is the last.
StringLoop(start, maximum) ==
    LET after[k \in 0 .. maximum + 1] ==
            IF k = 0 THEN [index |-> 0, result |-> "going"]
            ELSE StringChunk(after[k - 1], start, maximum)
    IN  after[maximum + 1]

\* copy_user_string
CopyUserString == \E start \in Words, maximum \in Words :
    LET final == StringLoop(start, maximum)
    IN  /\ Called("string", start, maximum, <<>>)
        /\ IF maximum = 0 \/ start >= KernelBase
           THEN result' = EFAULT /\ kernel' = <<>>
           ELSE result' = final.result /\ kernel' = Bytes(start, final.index)
        /\ UNCHANGED memory

UserInit ==
    /\ layout \in Layouts /\ memory \in Memories
    /\ call = NoCall /\ result = "ok" /\ kernel = <<>> /\ previous = memory

UserNext == CopyFromUser \/ CopyToUser \/ CopyUserString

UserSpec == UserInit /\ [][UserNext]_userVars

-----------------------------------------------------------------------------
\* Properties.

\* The program itself may read, or write, the byte at this address.
Accessible(a, write) ==
    /\ a < KernelBase
    /\ {"present", "user"} \cup (IF write THEN {"writable"} ELSE {}) \subseteq layout[PageBase(a)]

\* The bytes from start on, as far as n of them, are the program's.
OwnBytes(start, n, write) == \A k \in 0 .. n - 1 : Accessible(start + k, write)

\* How long the string at start is, its end included, if all of it can be read.
StringLengths(start) ==
    {n \in 1 .. KernelBase - start : /\ OwnBytes(start, n, FALSE)
                                     /\ previous[start + n - 1] = End0
                                     /\ \A k \in 0 .. n - 2 : previous[start + k] # End0}

\* A copy succeeds exactly when every byte it needs is one that the program
\* could have accessed itself, no matter how the range lies across pages, the
\* end of user space and the end of the address space; it then moves these
\* bytes and no others, and otherwise changes nothing.  A string needs its
\* bytes up to the end and no byte behind it.
CopiesExact ==
    LET start == call.start  length == call.length
        untouched == memory = previous
    IN  CASE call.kind = "from" ->
               /\ untouched /\ (result = "ok" <=> OwnBytes(start, length, FALSE))
               /\ result = "ok" => kernel = [k \in 1 .. length |-> previous[start + k - 1]]
          [] call.kind = "to" ->
               /\ result = "ok" <=> OwnBytes(start, length, TRUE)
               /\ \A a \in DOMAIN memory :
                     memory[a] = IF result = "ok" /\ a \in start .. start + length - 1
                                 THEN call.data[a - start + 1] ELSE previous[a]
          [] call.kind = "string" ->
               /\ untouched
               /\ result = "ok" <=> \E n \in StringLengths(start) : n <= length
               /\ result = "ok" => Len(kernel) \in StringLengths(start)
               /\ \A k \in DOMAIN kernel : kernel[k] = previous[start + k - 1]
          [] OTHER -> TRUE
=============================================================================
