--------------------------- MODULE KeyboardProofs ---------------------------
(***************************************************************************)
(* Proofs about Keyboard for any keyboard, any number of processes and any *)
(* size of the ring: every variable keeps its type, the ring implements    *)
(* the queue of KeyQueue, and what goes into it is what was meant.         *)
(***************************************************************************)
EXTENDS Keyboard, TLAPS

-----------------------------------------------------------------------------
\* Numbers.

\* A difference of two residues needs at most one correction.
LEMMA ModDifference ==
    ASSUME NEW m \in Nat \ {0}, NEW a \in 0 .. m - 1, NEW b \in 0 .. m - 1
    PROVE  (a - b) % m = IF a < b THEN a - b + m ELSE a - b
<1> DEFINE d == a - b
<1>1. d \in Int /\ -m < d /\ d < m
    OBVIOUS
<1> HIDE DEF d
<1>2. d % m = IF d < 0 THEN d + m ELSE d
    BY <1>1
<1> QED BY <1>2 DEF d

\* A sum of two residues needs at most one correction.
LEMMA ModSum ==
    ASSUME NEW m \in Nat \ {0}, NEW a \in 0 .. m - 1, NEW b \in 0 .. m - 1
    PROVE  /\ (a + b) % m \in 0 .. m - 1
           /\ (a + b) % m = IF a + b < m THEN a + b ELSE a + b - m
<1> DEFINE d == a + b
<1>1. d \in Nat /\ d < 2 * m
    OBVIOUS
<1> HIDE DEF d
<1>2. /\ d % m \in 0 .. m - 1
      /\ d % m = IF d < m THEN d ELSE d - m
    BY <1>1
<1> QED BY <1>2 DEF d

-----------------------------------------------------------------------------
\* Sequences: lengths and elements, ends, and one behind the other.
LEMMA FunctionIsSequence ==
    ASSUME NEW S, NEW n \in Nat, NEW s \in [1 .. n -> S]
    PROVE  s \in Seq(S) /\ Len(s) = n
OBVIOUS

\* A sequence is a function on the numbers up to its length.
LEMMA LengthFacts ==
    ASSUME NEW S, NEW s \in Seq(S)
    PROVE  Len(s) \in Nat /\ s \in [1 .. Len(s) -> S] /\ DOMAIN s = 1 .. Len(s)
OBVIOUS

\* The elements of a sequence over S are in S.
LEMMA ElementFact ==
    ASSUME NEW S, NEW s \in Seq(S), NEW i \in 1 .. Len(s)
    PROVE  s[i] \in S
OBVIOUS

\* Sequences of one length with the same elements are the same.
LEMMA SameSequence ==
    ASSUME NEW S, NEW s \in Seq(S), NEW t \in Seq(S), Len(s) = Len(t),
           \A i \in 1 .. Len(s) : s[i] = t[i]
    PROVE  s = t
OBVIOUS

\* The first element of a sequence, and the sequence behind it.
LEMMA HeadTailFacts ==
    ASSUME NEW S, NEW s \in Seq(S), s # <<>>
    PROVE  /\ Head(s) \in S /\ Head(s) = s[1] /\ Len(s) \in Nat \ {0}
           /\ Tail(s) \in Seq(S) /\ Len(Tail(s)) = Len(s) - 1
           /\ \A i \in 1 .. Len(Tail(s)) : Tail(s)[i] = s[i + 1]
OBVIOUS

\* The elements of one sequence behind another.
LEMMA ConcatFacts ==
    ASSUME NEW S, NEW s \in Seq(S), NEW t \in Seq(S)
    PROVE  /\ s \o t \in Seq(S) /\ Len(s \o t) = Len(s) + Len(t)
           /\ \A i \in 1 .. Len(s) + Len(t) :
                 (s \o t)[i] = IF i <= Len(s) THEN s[i] ELSE t[i - Len(s)]
OBVIOUS

-----------------------------------------------------------------------------

\* What the handler makes of a byte: flags, and a character or nothing.
LEMMA HandleType ==
    ASSUME NEW d \in Decoders, NEW byte \in Bytes
    PROVE  /\ Handle(d, byte)[1] \in Decoders
           /\ Handle(d, byte)[2] \in Characters \cup {Nothing}
<1>1. /\ d.pause \in Nat /\ d.pause <= PauseLength /\ PauseLength \in Nat
      /\ byte.released \in BOOLEAN /\ d.extended \in BOOLEAN
      /\ byte.code \in Codes \cup {Extended, PausePrefix}
    BY KeyboardAssumption DEF Decoders, Bytes
<1>2. /\ Extended \notin Codes /\ PausePrefix \notin Codes /\ Extended # PausePrefix
    BY KeyboardAssumption
<1>3. HandleExtended(d, byte) \in Decoders
    BY <1>1, Zenon DEF HandleExtended, Decoders
<1>4. HandlePlain(d, byte) \in Decoders
    BY <1>1, Zenon DEF HandlePlain, Decoders
<1>5. ExtendedCharacter(byte) \in Characters \cup {Nothing}
    BY <1>1 DEF ExtendedCharacter, Characters, Character, Forms, Codes
<1>6. ASSUME byte.code \in Codes
      PROVE  Decoded(d, byte.code) \in Characters \cup {Nothing}
    BY <1>6 DEF Decoded, Characters, Character, Forms, Nothing
<1>7. CASE d.pause > 0
    <2>1. Handle(d, byte) = <<[d EXCEPT !.pause = @ - 1], Nothing>>
        BY <1>1, <1>7 DEF Handle
    <2>2. [d EXCEPT !.pause = @ - 1] \in Decoders
        BY <1>1, <1>7 DEF Decoders
    <2> QED BY <2>1, <2>2
<1>8. CASE d.pause = 0 /\ byte.code = PausePrefix
    <2>1. Handle(d, byte) = <<[d EXCEPT !.pause = PauseLength, !.extended = FALSE], Nothing>>
        BY <1>2, <1>8 DEF Handle
    <2>2. [d EXCEPT !.pause = PauseLength] \in Decoders
        BY <1>1 DEF Decoders
    <2>3. [[d EXCEPT !.pause = PauseLength] EXCEPT !.extended = FALSE] \in Decoders
        BY <2>2, Zenon DEF Decoders
    <2> QED BY <2>1, <2>3
<1>9. CASE d.pause = 0 /\ byte.code = Extended
    <2>1. Handle(d, byte) = <<[d EXCEPT !.extended = TRUE], Nothing>>
        <3>1. ~(d.pause > 0) /\ byte.code # PausePrefix /\ byte.code \notin Codes
            BY <1>2, <1>9
        <3> QED BY <1>9, <3>1, Zenon DEF Handle
    <2>2. [d EXCEPT !.extended = TRUE] \in Decoders
        BY Zenon DEF Decoders
    <2> QED BY <2>1, <2>2
<1>10. CASE d.pause = 0 /\ byte.code \in Codes /\ d.extended
    <2>1. Handle(d, byte) = <<HandleExtended(d, byte), ExtendedCharacter(byte)>>
        BY <1>2, <1>10 DEF Handle
    <2> QED BY <2>1, <1>3, <1>5
<1>11. CASE d.pause = 0 /\ byte.code \in Codes /\ ~d.extended
    <2>1. Handle(d, byte) = <<HandlePlain(d, byte),
              IF byte.code \in Modifiers \/ byte.released
              THEN Nothing ELSE Decoded(d, byte.code)>>
        BY <1>2, <1>11 DEF Handle
    <2> QED BY <2>1, <1>4, <1>6, <1>11
<1> QED BY <1>1, <1>7, <1>8, <1>9, <1>10, <1>11

-----------------------------------------------------------------------------
(***************************************************************************)
(* Types.                                                                  *)
(***************************************************************************)

\* What the keyboard sends is a sequence of bytes.
LEMMA ByteType ==
    ASSUME NEW code \in Codes \cup {Extended, PausePrefix}, NEW released \in BOOLEAN
    PROVE  Byte(code, released) \in Bytes
BY DEF Byte, Bytes

\* The parts of a byte that the keyboard sends.
LEMMA ByteFields ==
    ASSUME NEW code, NEW released
    PROVE  /\ Byte(code, released).code = code
           /\ Byte(code, released).released = released
           /\ Byte(code, released).port = 1
BY DEF Byte

\* The bytes of a key, with the prefix or without.
LEMMA ScancodeType ==
    ASSUME NEW key \in BOOLEAN \X Codes, NEW released \in BOOLEAN
    PROVE  Scancode(key, released) \in Seq(Bytes)
<1> DEFINE last == Byte(key[2], released)
           first == Byte(Extended, FALSE)
<1>1. first \in Bytes /\ last \in Bytes
    BY ByteType, Zenon
<1> HIDE DEF first, last
<1>2. <<>> \in Seq(Bytes) /\ <<first>> \in Seq(Bytes) /\ <<last>> \in Seq(Bytes)
    BY <1>1
<1>3. /\ <<first>> \o <<last>> \in Seq(Bytes)
      /\ <<>> \o <<last>> \in Seq(Bytes)
    BY <1>2, ConcatFacts, Zenon
<1>4. Scancode(key, released) = (IF key[1] THEN <<first>> ELSE <<>>) \o <<last>>
    BY Zenon DEF Scancode, first, last
<1> QED BY <1>3, <1>4, Zenon

\* The bytes of the Pause key.
LEMMA PauseType == PauseSequence \in Seq(Bytes)
<1> DEFINE item(i) == IF i = 3 THEN Byte(PausePrefix, FALSE) ELSE Byte(Control, i > 3)
           first == Byte(PausePrefix, FALSE)
<1>1. first \in Bytes /\ \A i \in 1 .. PauseLength : item(i) \in Bytes
    <2>1. Control \in Codes
        BY DEF Codes, Modifiers
    <2>2. Byte(Control, TRUE) \in Bytes /\ Byte(Control, FALSE) \in Bytes
          /\ Byte(PausePrefix, FALSE) \in Bytes
        BY <2>1, ByteType, Zenon
    <2>3. \A i \in 1 .. PauseLength : (i > 3) \in BOOLEAN
        OBVIOUS
    <2> QED BY <2>2, <2>3, Zenon
<1> HIDE DEF item, first
<1>2. [i \in 1 .. PauseLength |-> item(i)] \in Seq(Bytes)
    BY <1>1, KeyboardAssumption
<1>3. <<first>> \in Seq(Bytes)
    BY <1>1
<1>4. PauseSequence = <<first>> \o [i \in 1 .. PauseLength |-> item(i)]
    BY Zenon DEF PauseSequence, first, item
<1> QED BY <1>2, <1>3, <1>4, ConcatFacts, Zenon

\* A key means a character or nothing.
LEMMA MeaningType ==
    ASSUME NEW key \in BOOLEAN \X Codes, NEW down, NEW capsOn
    PROVE  Meaning(key, down, capsOn) \in Characters \cup {Nothing}
<1>1. \A form \in Forms : Character(form, key[2]) \in Characters
    BY DEF Characters, Character
<1>2. /\ "lower" \in Forms /\ "upper" \in Forms /\ "control" \in Forms
      /\ "plain" \in Forms /\ "shifted" \in Forms /\ "special" \in Forms
    BY DEF Forms
<1> QED BY <1>1, <1>2, Zenon DEF Meaning

\* What is sent goes behind the bytes that are on the line.
LEMMA SendType ==
    ASSUME NEW bytes \in Seq(Bytes), NEW meaning \in Characters \cup {Nothing},
           wire \in Seq(WireItems), Send(bytes, meaning)
    PROVE  wire' \in Seq(WireItems)
<1> DEFINE items == [i \in DOMAIN bytes |->
                        [byte |-> bytes[i],
                         meant |-> IF i = Len(bytes) THEN meaning ELSE Nothing]]
<1>1. DOMAIN bytes = 1 .. Len(bytes) /\ Len(bytes) \in Nat
    BY LengthFacts
<1>2. \A i \in DOMAIN bytes : items[i] \in WireItems
    BY <1>1, ElementFact DEF WireItems
<1>3. items \in Seq(WireItems)
    BY <1>1, <1>2
<1>4. wire' = wire \o items
    BY DEF Send
<1> QED BY <1>3, <1>4, ConcatFacts

\* The index after the last is the first.
LEMMA SuccessorResult ==
    ASSUME NEW i \in 0 .. BufferSize - 1
    PROVE  /\ Successor(i) \in 0 .. BufferSize - 1
           /\ Successor(i) = IF i = BufferSize - 1 THEN 0 ELSE i + 1
<1>1. /\ BufferSize \in Nat \ {0} /\ 1 \in 0 .. BufferSize - 1
    BY KeyboardAssumption
<1>2. /\ (i + 1) % BufferSize \in 0 .. BufferSize - 1
      /\ (i + 1) % BufferSize = IF i + 1 < BufferSize THEN i + 1 ELSE i + 1 - BufferSize
    BY <1>1, ModSum, Zenon
<1> QED BY <1>1, <1>2 DEF Successor

\* The state keyboard_init leaves is well typed.
LEMMA InitTypes == Init => TypeOK
<1> SUFFICES ASSUME Init PROVE TypeOK
    OBVIOUS
<1>1. BufferSize \in Nat /\ BufferSize >= 2 /\ PauseLength \in Nat /\ Processes # {}
    BY KeyboardAssumption
<1>2. setup \in Setups /\ held \subseteq Keys /\ caps \in BOOLEAN /\ wire \in Seq(WireItems)
    <2>1. setup \in Setups /\ held = {} /\ caps = FALSE /\ wire = <<>>
        BY Zenon DEF Init
    <2>2. wire \in Seq(WireItems)
        BY <2>1
    <2> QED BY <2>1, <2>2, Zenon
<1>3. decoder \in Decoders
    BY <1>1 DEF Init, Decoders
<1>4. /\ buffer \in [0 .. BufferSize - 1 -> Characters \cup {Nothing}]
      /\ head \in 0 .. BufferSize - 1 /\ tail \in 0 .. BufferSize - 1
    BY <1>1 DEF Init
<1>5. running \in Processes /\ pc \in [Processes -> {"user", "try", "enabled", "halted", "woken"}]
    BY <1>1 DEF Init
<1> QED BY <1>2, <1>3, <1>4, <1>5 DEF TypeOK

\* The person at the keyboard changes the keys and what is on the line.
LEMMA PressTypes ==
    ASSUME TypeOK, NEW key \in Keys, Press(key)
    PROVE  TypeOK'
<1>1. key \in BOOLEAN \X Codes
    BY KeyboardAssumption
<1>2. PICK fake \in FakeShifts : Send(fake \o Scancode(key, FALSE), Meaning(key, held', caps))
    BY Zenon DEF Press, FakeShifts
<1>3. fake \in Seq(Bytes)
    <2>1. <<TRUE, LeftShift>> \in BOOLEAN \X Codes
        BY Zenon DEF Codes, Modifiers
    <2>2. \A r \in BOOLEAN : Scancode(<<TRUE, LeftShift>>, r) \in Seq(Bytes)
        BY <2>1, ScancodeType, Zenon
    <2>3. <<>> \in Seq(Bytes)
        OBVIOUS
    <2> QED BY <2>2, <2>3, Zenon DEF FakeShifts
<1>4. fake \o Scancode(key, FALSE) \in Seq(Bytes)
    BY <1>1, <1>3, ScancodeType, ConcatFacts, Zenon
<1>5. Meaning(key, held', caps) \in Characters \cup {Nothing}
    BY <1>1, MeaningType
<1>6. wire' \in Seq(WireItems)
    BY <1>2, <1>4, <1>5, SendType, Zenon DEF TypeOK
<1>7. held' \subseteq Keys /\ caps' \in BOOLEAN
    BY Zenon DEF TypeOK, Press
<1>8. UNCHANGED <<setup, decoder, ring, running, pc>>
    BY <1>2, Zenon DEF Send
<1> QED BY <1>6, <1>7, <1>8 DEF TypeOK, ring

\* A key is released.
LEMMA ReleaseTypes ==
    ASSUME TypeOK, NEW key \in Keys, Release(key)
    PROVE  TypeOK'
<1>1. Scancode(key, TRUE) \in Seq(Bytes)
    BY KeyboardAssumption, ScancodeType, Zenon
<1>2. Send(Scancode(key, TRUE), Nothing) /\ held' = held \ {key} /\ UNCHANGED caps
    BY Zenon DEF Release
<1>3. wire' \in Seq(WireItems)
    BY <1>1, <1>2, SendType, Zenon DEF TypeOK
<1>4. held' \subseteq Keys
    BY <1>2 DEF TypeOK
<1>5. UNCHANGED <<setup, decoder, ring, running, pc>>
    BY <1>2, Zenon DEF Send
<1> QED BY <1>2, <1>3, <1>4, <1>5 DEF TypeOK, ring

\* Pause is pressed.
LEMMA PressPauseTypes ==
    ASSUME TypeOK, PressPause
    PROVE  TypeOK'
<1>1. Send(PauseSequence, Nothing) /\ UNCHANGED <<held, caps>>
    BY Zenon DEF PressPause
<1>2. wire' \in Seq(WireItems)
    BY <1>1, PauseType, SendType, Zenon DEF TypeOK
<1>3. UNCHANGED <<setup, decoder, ring, running, pc>>
    BY <1>1, Zenon DEF Send
<1> QED BY <1>1, <1>2, <1>3 DEF TypeOK, ring

\* The mouse sends a byte.
LEMMA MouseTypes ==
    ASSUME TypeOK, MouseMoves
    PROVE  TypeOK'
<1> DEFINE item == [byte |-> MouseByte, meant |-> Nothing]
<1>1. item \in WireItems
    BY DEF WireItems, MouseByte, Bytes
<1>2. wire' = <<item>> \o wire /\ UNCHANGED <<setup, held, caps, decoder, ring, running, pc>>
    BY Zenon DEF MouseMoves
<1> HIDE DEF item
<1>3. <<item>> \in Seq(WireItems)
    BY <1>1
<1>4. wire' \in Seq(WireItems)
    BY <1>2, <1>3, ConcatFacts, Zenon DEF TypeOK
<1> QED BY <1>2, <1>4 DEF TypeOK, ring

\* The handler takes a byte from the line, sets flags and fills the ring.
LEMMA PushTypes ==
    ASSUME TypeOK, NEW c \in Characters \cup {Nothing}, BufferPush(c)
    PROVE  /\ buffer' \in [0 .. BufferSize - 1 -> Characters \cup {Nothing}]
           /\ head' \in 0 .. BufferSize - 1 /\ tail' \in 0 .. BufferSize - 1
<1>1. Successor(head) \in 0 .. BufferSize - 1
    BY SuccessorResult DEF TypeOK
<1> QED BY <1>1 DEF TypeOK, BufferPush, ring

\* An interrupt ends every hlt.
LEMMA AwakeType ==
    ASSUME TypeOK
    PROVE  Awake \in [Processes -> {"user", "try", "enabled", "halted", "woken"}]
BY DEF TypeOK, Awake

\* keyboard_handle_irq takes one byte and pushes at most one character.
LEMMA KeyIrqTypes ==
    ASSUME TypeOK, KeyIrq
    PROVE  TypeOK'
<1> DEFINE byte == Head(wire).byte
           handled == Handle(decoder, byte)
<1>1. pc' \in [Processes -> {"user", "try", "enabled", "halted", "woken"}]
    BY AwakeType DEF KeyIrq
<1>2. UNCHANGED <<setup, held, caps, running>>
    BY Zenon DEF KeyIrq
<1>3. CASE wire = <<>>
    <2>1. UNCHANGED <<wire, decoder, ring>>
        BY <1>3, Zenon DEF KeyIrq
    <2> QED BY <1>1, <1>2, <2>1 DEF TypeOK, ring
<1>4. CASE wire # <<>>
    <2>1. Head(wire) \in WireItems /\ Tail(wire) \in Seq(WireItems)
        BY <1>4, HeadTailFacts, Zenon DEF TypeOK
    <2>2. byte \in Bytes
        BY <2>1 DEF WireItems
    <2>3. handled[1] \in Decoders /\ handled[2] \in Characters \cup {Nothing}
        BY <2>2, HandleType, Zenon DEF TypeOK
    <2>4. /\ wire' = Tail(wire)
          /\ IF byte.port = 2
             THEN UNCHANGED <<decoder, ring>>
             ELSE decoder' = handled[1] /\ BufferPush(handled[2])
        BY <1>4, Zenon DEF KeyIrq
    <2> HIDE DEF byte, handled
    <2>5. CASE byte.port = 2
        <3>1. UNCHANGED <<decoder, ring>>
            BY <2>4, <2>5, Zenon
        <3> QED BY <1>1, <1>2, <2>1, <2>4, <3>1 DEF TypeOK, ring
    <2>6. CASE byte.port # 2
        <3>1. decoder' = handled[1] /\ BufferPush(handled[2])
            BY <2>4, <2>6, Zenon
        <3>2. /\ buffer' \in [0 .. BufferSize - 1 -> Characters \cup {Nothing}]
              /\ head' \in 0 .. BufferSize - 1 /\ tail' \in 0 .. BufferSize - 1
            BY <2>3, <3>1, PushTypes, Zenon
        <3> QED BY <1>1, <1>2, <2>1, <2>3, <2>4, <3>1, <3>2 DEF TypeOK
    <2> QED BY <2>5, <2>6
<1> QED BY <1>3, <1>4

\* A process that reads moves its own point of the loop, and takes a character.
LEMMA ProcessTypes ==
    ASSUME TypeOK, NEW p \in Processes, Tick(p) \/ Read(p) \/ Step(p)
    PROVE  TypeOK'
<1>1. UNCHANGED <<keys, decoder>>
    BY Zenon DEF Tick, Read, Step, Deliver, Enable, Halt, Disable
<1>2. running' \in Processes
    BY DEF TypeOK, Tick, Read, Step, Deliver, Enable, Halt, Disable
<1>3. pc' \in [Processes -> {"user", "try", "enabled", "halted", "woken"}]
    <2>1. CASE Tick(p)
        BY <2>1, AwakeType DEF Tick
    <2>2. CASE Read(p) \/ Step(p)
        BY <2>2 DEF TypeOK, Read, Step, Deliver, Enable, Halt, Disable
    <2> QED BY <2>1, <2>2
<1>4. /\ buffer' = buffer /\ head' = head
      /\ tail' \in 0 .. BufferSize - 1
    <2>1. CASE Deliver(p)
        BY <2>1, SuccessorResult DEF TypeOK, Deliver, TryRead
    <2>2. CASE UNCHANGED ring
        BY <2>2 DEF TypeOK, ring
    <2>3. Deliver(p) \/ UNCHANGED ring
        BY Zenon DEF Tick, Read, Step, Enable, Halt, Disable
    <2> QED BY <2>1, <2>2, <2>3
<1> QED BY <1>1, <1>2, <1>3, <1>4 DEF TypeOK, keys

\* Every step keeps the types.
LEMMA NextTypes == TypeOK /\ [Next]_vars => TypeOK'
<1> SUFFICES ASSUME TypeOK, [Next]_vars PROVE TypeOK'
    OBVIOUS
<1>1. CASE Typing
    BY <1>1, PressTypes, ReleaseTypes, PressPauseTypes, MouseTypes, Zenon DEF Typing
<1>2. CASE KeyIrq
    BY <1>2, KeyIrqTypes
<1>3. CASE \E p \in Processes : Tick(p) \/ Read(p) \/ Step(p)
    BY <1>3, ProcessTypes, Zenon
<1>4. CASE UNCHANGED vars
    BY <1>4 DEF TypeOK, vars
<1> QED BY <1>1, <1>2, <1>3, <1>4, Zenon DEF Next

\* The handler and the readers keep every variable in its type: head and tail
\* stay inside the ring although keyboard_buffer_push and keyboard_try_read
\* only ever add one to them, and the flags of the pause and extended prefixes
\* stay in range whatever bytes arrive.
THEOREM KeyboardTypes == Spec => []TypeOK
BY InitTypes, NextTypes, PTL DEF Spec

-----------------------------------------------------------------------------
(***************************************************************************)
(* The ring is a queue.                                                    *)
(***************************************************************************)
Filled == (head - tail) % BufferSize

Place(t, i) == (t + i - 1) % BufferSize

\* How many characters there are, and where the i-th of them is.
LEMMA FilledResult ==
    ASSUME TypeOK
    PROVE  /\ Filled = IF head < tail THEN head - tail + BufferSize ELSE head - tail
           /\ Filled \in 0 .. BufferSize - 1
<1>1. BufferSize \in Nat \ {0}
    BY KeyboardAssumption
<1>2. head \in 0 .. BufferSize - 1 /\ tail \in 0 .. BufferSize - 1
    BY DEF TypeOK
<1>3. Filled = IF head < tail THEN head - tail + BufferSize ELSE head - tail
    BY <1>1, <1>2, ModDifference, Zenon DEF Filled
<1> QED BY <1>1, <1>2, <1>3

\* The i-th queued character is i - 1 places behind tail, around the end of the ring.
LEMMA PlaceResult ==
    ASSUME NEW t \in 0 .. BufferSize - 1, NEW i \in 1 .. BufferSize
    PROVE  /\ Place(t, i) = IF t + i - 1 < BufferSize THEN t + i - 1 ELSE t + i - 1 - BufferSize
           /\ Place(t, i) \in 0 .. BufferSize - 1
<1> DEFINE j == i - 1
<1>1. BufferSize \in Nat \ {0} /\ j \in 0 .. BufferSize - 1 /\ t + i - 1 = t + j
    BY KeyboardAssumption
<1>2. /\ (t + j) % BufferSize \in 0 .. BufferSize - 1
      /\ (t + j) % BufferSize = IF t + j < BufferSize THEN t + j ELSE t + j - BufferSize
    <2> HIDE DEF j
    <2> QED BY <1>1, ModSum, Zenon
<1> QED BY <1>1, <1>2 DEF Place

\* The queue that the ring stands for has as many characters as the ring.
LEMMA QueueType ==
    ASSUME TypeOK
    PROVE  /\ Queue = [i \in 1 .. Filled |-> buffer[Place(tail, i)]]
           /\ Queue \in Seq(Characters \cup {Nothing})
           /\ Len(Queue) = Filled
<1>1. Queue = [i \in 1 .. Filled |-> buffer[Place(tail, i)]]
    BY Zenon DEF Queue, Filled, Place
<1>2. Filled \in Nat /\ Filled < BufferSize
    BY FilledResult, KeyboardAssumption
<1>3. ASSUME NEW i \in 1 .. Filled
      PROVE  buffer[Place(tail, i)] \in Characters \cup {Nothing}
    <2>1. tail \in 0 .. BufferSize - 1 /\ i \in 1 .. BufferSize
        BY <1>2, KeyboardAssumption DEF TypeOK
    <2>2. Place(tail, i) \in 0 .. BufferSize - 1
        BY <2>1, PlaceResult, Zenon
    <2>3. buffer \in [0 .. BufferSize - 1 -> Characters \cup {Nothing}]
        BY DEF TypeOK
    <2> QED BY <2>2, <2>3, Zenon
<1> QED BY <1>1, <1>2, <1>3

\* A character that is pushed goes to the end of the queue and moves no other.
LEMMA PushAppends ==
    ASSUME TypeOK, TypeOK', NEW c \in Characters,
           Successor(head) # tail,
           buffer' = [buffer EXCEPT ![head] = c], head' = Successor(head), tail' = tail
    PROVE  Len(Queue) < BufferSize - 1 /\ Queue' = Append(Queue, c)
<1>1. /\ BufferSize \in Nat /\ BufferSize >= 2
      /\ head \in 0 .. BufferSize - 1 /\ tail \in 0 .. BufferSize - 1
      /\ buffer \in [0 .. BufferSize - 1 -> Characters \cup {Nothing}]
    BY KeyboardAssumption DEF TypeOK
<1>2. Filled < BufferSize - 1 /\ Filled' = Filled + 1 /\ Filled \in Nat
    <2>1. Filled = IF head < tail THEN head - tail + BufferSize ELSE head - tail
        BY FilledResult
    <2>2. Filled' = IF head' < tail' THEN head' - tail' + BufferSize ELSE head' - tail'
        <3>1. (Filled = IF head < tail THEN head - tail + BufferSize ELSE head - tail)'
            BY FilledResult, PTL
        <3> QED BY <3>1
    <2>3. Successor(head) = IF head = BufferSize - 1 THEN 0 ELSE head + 1
        BY <1>1, SuccessorResult
    <2> QED BY <1>1, <2>1, <2>2, <2>3
<1>3. /\ Queue = [i \in 1 .. Filled |-> buffer[Place(tail, i)]]
      /\ Queue \in Seq(Characters \cup {Nothing}) /\ Len(Queue) = Filled
    BY QueueType
<1>4. Queue' = [i \in 1 .. Filled + 1 |-> buffer'[Place(tail, i)]]
    <2>1. (Queue = [i \in 1 .. Filled |-> buffer[Place(tail, i)]])'
        BY QueueType, PTL
    <2> QED BY <1>2, <2>1 DEF Place
<1>5. ASSUME NEW i \in 1 .. Filled + 1
      PROVE  buffer'[Place(tail, i)] = IF i = Filled + 1 THEN c ELSE Queue[i]
    <2>1. /\ Place(tail, i) \in 0 .. BufferSize - 1
          /\ Place(tail, i) = IF tail + i - 1 < BufferSize
                              THEN tail + i - 1 ELSE tail + i - 1 - BufferSize
        <3>1. i \in 1 .. BufferSize
            BY <1>1, <1>2
        <3> QED BY <1>1, <3>1, PlaceResult, Zenon
    <2>2. Filled = IF head < tail THEN head - tail + BufferSize ELSE head - tail
        BY FilledResult
    <2>3. Place(tail, i) = head <=> i = Filled + 1
        BY <1>1, <1>2, <2>1, <2>2
    <2>4. CASE i = Filled + 1
        BY <1>1, <2>1, <2>3, <2>4
    <2>5. CASE i # Filled + 1
        <3>1. i \in 1 .. Filled
            BY <1>2, <2>5
        <3> QED BY <1>1, <1>3, <2>1, <2>3, <2>5, <3>1
    <2> QED BY <2>4, <2>5
<1>6. Append(Queue, c) = [i \in 1 .. Filled + 1 |-> IF i = Filled + 1 THEN c ELSE Queue[i]]
    BY <1>2, <1>3
<1>7. Queue' = Append(Queue, c)
    BY <1>4, <1>5, <1>6, Zenon
<1> QED BY <1>2, <1>3, <1>7

\* A character that is read is the first, and the others move up.
LEMMA ReadTakesFirst ==
    ASSUME TypeOK, TypeOK', TryRead
    PROVE  Queue # <<>> /\ Queue' = Tail(Queue)
<1>1. /\ BufferSize \in Nat /\ BufferSize >= 2
      /\ head \in 0 .. BufferSize - 1 /\ tail \in 0 .. BufferSize - 1
      /\ tail' \in 0 .. BufferSize - 1
    BY KeyboardAssumption DEF TypeOK
<1>2. tail' = IF tail = BufferSize - 1 THEN 0 ELSE tail + 1
    BY <1>1, SuccessorResult DEF TryRead
<1>3. Filled > 0 /\ Filled' = Filled - 1 /\ Filled \in Nat /\ Filled < BufferSize
    <2>1. Filled = IF head < tail THEN head - tail + BufferSize ELSE head - tail
        BY FilledResult
    <2>2. (Filled = IF head < tail THEN head - tail + BufferSize ELSE head - tail)'
        BY FilledResult, PTL
    <2>3. head # tail /\ head' = head
        BY DEF TryRead
    <2> QED BY <1>1, <1>2, <2>1, <2>2, <2>3
<1>4. /\ Queue = [i \in 1 .. Filled |-> buffer[Place(tail, i)]]
      /\ Queue \in Seq(Characters \cup {Nothing}) /\ Len(Queue) = Filled
    BY QueueType
<1>5. Queue' = [i \in 1 .. Filled - 1 |-> buffer[Place(tail', i)]]
    <2>1. (Queue = [i \in 1 .. Filled |-> buffer[Place(tail, i)]])'
        BY QueueType, PTL
    <2>2. buffer' = buffer
        BY DEF TryRead
    <2> QED BY <1>3, <2>1, <2>2 DEF Place
<1>6. ASSUME NEW i \in 1 .. Filled - 1
      PROVE  buffer[Place(tail', i)] = Queue[i + 1]
    <2>1. Place(tail', i) = IF tail' + i - 1 < BufferSize
                            THEN tail' + i - 1 ELSE tail' + i - 1 - BufferSize
        <3>1. i \in 1 .. BufferSize
            BY <1>1, <1>3
        <3> QED BY <1>1, <3>1, PlaceResult, Zenon
    <2>2. i + 1 \in 1 .. Filled /\ i + 1 \in 1 .. BufferSize
        BY <1>1, <1>3
    <2>3. Place(tail, i + 1) = IF tail + (i + 1) - 1 < BufferSize
                               THEN tail + (i + 1) - 1 ELSE tail + (i + 1) - 1 - BufferSize
        BY <1>1, <2>2, PlaceResult, Zenon
    <2>4. Place(tail', i) = Place(tail, i + 1)
        BY <1>1, <1>2, <1>3, <2>1, <2>3
    <2> QED BY <1>4, <2>2, <2>4
<1>7. Queue # <<>> /\ Tail(Queue) = [i \in 1 .. Filled - 1 |-> Queue[i + 1]]
    BY <1>3, <1>4
<1> QED BY <1>5, <1>6, <1>7, Zenon

\* Every step of the ring is a step of the queue, or leaves it alone.
LEMMA QueueSteps == TypeOK /\ TypeOK' /\ [Next]_vars => [InputQueue!Next]_Queue
<1> SUFFICES ASSUME TypeOK, TypeOK', [Next]_vars PROVE InputQueue!Next \/ UNCHANGED Queue
    BY Zenon
<1>1. CASE UNCHANGED ring
    BY <1>1, Zenon DEF ring, Queue
<1>2. CASE KeyIrq
    <2>1. PICK c \in Characters \cup {Nothing} : UNCHANGED ring \/ BufferPush(c)
        <3>1. CASE wire = <<>>
            BY <1>2, <3>1, Zenon DEF KeyIrq
        <3>2. CASE wire # <<>>
            <4>1. Head(wire) \in WireItems
                BY <3>2, HeadTailFacts, Zenon DEF TypeOK
            <4>2. Handle(decoder, Head(wire).byte)[2] \in Characters \cup {Nothing}
                <5>1. Head(wire).byte \in Bytes
                    BY <4>1 DEF WireItems
                <5> QED BY <5>1, HandleType, Zenon DEF TypeOK
            <4> QED BY <1>2, <3>2, <4>2, Zenon DEF KeyIrq
        <3> QED BY <3>1, <3>2
    <2>2. CASE c = Nothing \/ Successor(head) = tail
        BY <1>1, <2>1, <2>2, Zenon DEF BufferPush
    <2>3. CASE c # Nothing /\ Successor(head) # tail /\ ~UNCHANGED ring
        <3>1. /\ buffer' = [buffer EXCEPT ![head] = c] /\ head' = Successor(head)
              /\ tail' = tail /\ c \in Characters
            BY <2>1, <2>3, Zenon DEF BufferPush
        <3>2. Len(Queue) < BufferSize - 1 /\ Queue' = Append(Queue, c)
            BY <2>3, <3>1, PushAppends, Zenon
        <3> QED BY <3>1, <3>2, Zenon DEF InputQueue!Next, InputQueue!Accept
    <2> QED BY <1>1, <2>2, <2>3
<1>3. ASSUME NEW p \in Processes, Deliver(p)
      PROVE  InputQueue!Next
    <2>1. Queue # <<>> /\ Queue' = Tail(Queue)
        BY <1>3, ReadTakesFirst, Zenon DEF Deliver
    <2> QED BY <2>1, Zenon DEF InputQueue!Next, InputQueue!Deliver
<1>4. UNCHANGED ring \/ KeyIrq \/ \E p \in Processes : Deliver(p)
    <2>1. CASE Typing
        BY <2>1, Zenon DEF Typing, Press, Release, PressPause, MouseMoves, Send
    <2>2. CASE \E p \in Processes : Tick(p) \/ Read(p) \/ Step(p)
        BY <2>2, Zenon DEF Tick, Read, Step, Enable, Halt, Disable
    <2>3. CASE UNCHANGED vars
        BY <2>3 DEF vars, ring
    <2> QED BY <2>1, <2>2, <2>3, Zenon DEF Next
<1> QED BY <1>1, <1>2, <1>3, <1>4, Zenon

\* keyboard_buffer_push and keyboard_try_read make a ring of BufferSize
\* characters a first-in first-out queue of BufferSize - 1, for every size and
\* however interrupts fall between the steps of the processes that read: no
\* character is lost once it was accepted, repeated or put out of order.
THEOREM RingIsQueue == Spec => ImplementsQueue
<1>1. Init => InputQueue!Init
    <2> SUFFICES ASSUME Init PROVE Queue = <<>>
        BY Zenon DEF InputQueue!Init
    <2>1. Len(Queue) = Filled /\ Queue \in Seq(Characters \cup {Nothing})
        BY InitTypes, QueueType, Zenon
    <2>2. Filled = 0
        BY InitTypes, FilledResult DEF Init
    <2> QED BY <2>1, <2>2
<1> QED BY <1>1, QueueSteps, KeyboardTypes, PTL DEF Spec, ImplementsQueue, InputQueue!Spec


-----------------------------------------------------------------------------
(***************************************************************************)
(* Decoding.                                                               *)
(***************************************************************************)

\* What two stretches of bytes do, one after the other.
LEMMA DecodesBoth ==
    ASSUME NEW d, NEW e, NEW g, NEW w \in Seq(WireItems), NEW v \in Seq(WireItems),
           Decodes(d, w, e), Decodes(e, v, g)
    PROVE  Decodes(d, w \o v, g)
<1> DEFINE m == Len(w)
           n == Len(v)
<1>1. PICK a \in [0 .. m -> Decoders] :
          /\ a[0] = d /\ a[m] = e
          /\ \A k \in 1 .. m : Taken(a[k - 1], w[k]) = <<a[k], w[k].meant>>
    BY Zenon DEF Decodes
<1>2. PICK b \in [0 .. n -> Decoders] :
          /\ b[0] = e /\ b[n] = g
          /\ \A k \in 1 .. n : Taken(b[k - 1], v[k]) = <<b[k], v[k].meant>>
    BY Zenon DEF Decodes
<1>3. /\ m \in Nat /\ n \in Nat /\ Len(w \o v) = m + n
      /\ \A k \in 1 .. m : (w \o v)[k] = w[k]
      /\ \A k \in m + 1 .. m + n : (w \o v)[k] = v[k - m]
    BY LengthFacts, ConcatFacts
<1> HIDE DEF m, n
<1> DEFINE c == [k \in 0 .. m + n |-> IF k <= m THEN a[k] ELSE b[k - m]]
<1>4. c \in [0 .. m + n -> Decoders]
    BY <1>1, <1>2, <1>3
<1>5. c[0] = d /\ c[m] = e /\ c[m + n] = g
    BY <1>1, <1>2, <1>3
<1>6. ASSUME NEW k \in 1 .. m + n
      PROVE  Taken(c[k - 1], (w \o v)[k]) = <<c[k], (w \o v)[k].meant>>
    <2>1. CASE k <= m
        <3>1. k \in 1 .. m /\ c[k] = a[k] /\ c[k - 1] = a[k - 1]
            BY <1>3, <2>1
        <3> HIDE DEF c
        <3> QED BY <1>1, <1>3, <3>1, Zenon
    <2>2. CASE k > m
        <3>1. k - m \in 1 .. n /\ k \in m + 1 .. m + n /\ c[k] = b[k - m]
            BY <1>3, <2>2
        <3>2. c[k - 1] = b[(k - m) - 1]
            <4>1. CASE k = m + 1
                BY <1>2, <1>3, <1>5, <4>1
            <4>2. CASE k # m + 1
                <5>1. /\ k - 1 \in 0 .. m + n /\ ~(k - 1 <= m)
                      /\ (k - 1) - m = (k - m) - 1
                    BY <1>3, <2>2, <4>2
                <5> QED BY <5>1, Zenon
            <4> QED BY <4>1, <4>2
        <3> HIDE DEF c
        <3> QED BY <1>2, <1>3, <3>1, <3>2, Zenon
    <2> QED BY <1>3, <2>1, <2>2
<1> HIDE DEF c
<1> QED BY <1>3, <1>4, <1>5, <1>6, Zenon DEF Decodes

\* The first byte, and the rest.
LEMMA DecodesFirst ==
    ASSUME NEW d, NEW e, NEW w \in Seq(WireItems), w # <<>>, Decodes(d, w, e)
    PROVE  \E c \in Decoders : /\ Taken(d, Head(w)) = <<c, Head(w).meant>>
                               /\ Decodes(c, Tail(w), e)
<1> DEFINE m == Len(w)
<1>1. PICK a \in [0 .. m -> Decoders] :
          /\ a[0] = d /\ a[m] = e
          /\ \A k \in 1 .. m : Taken(a[k - 1], w[k]) = <<a[k], w[k].meant>>
    BY Zenon DEF Decodes
<1>2. /\ m \in Nat /\ m >= 1 /\ Head(w) = w[1] /\ Len(Tail(w)) = m - 1
      /\ \A k \in 1 .. m - 1 : Tail(w)[k] = w[k + 1]
    BY HeadTailFacts, LengthFacts
<1> HIDE DEF m
<1> DEFINE b == [k \in 0 .. m - 1 |-> a[k + 1]]
<1>3. b \in [0 .. m - 1 -> Decoders] /\ b[0] = a[1] /\ b[m - 1] = e /\ a[1] \in Decoders
    BY <1>1, <1>2
<1>4. ASSUME NEW k \in 1 .. m - 1
      PROVE  Taken(b[k - 1], Tail(w)[k]) = <<b[k], Tail(w)[k].meant>>
    <2>1. k + 1 \in 1 .. m /\ b[k] = a[k + 1] /\ b[k - 1] = a[k] /\ (k + 1) - 1 = k
        BY <1>2
    <2> QED BY <1>1, <1>2, <2>1, Zenon
<1>5. Taken(d, Head(w)) = <<a[1], Head(w).meant>>
    <2>1. 1 \in 1 .. m /\ 1 - 1 = 0
        BY <1>2
    <2> QED BY <1>1, <1>2, <2>1, Zenon
<1> HIDE DEF b
<1>6. Decodes(a[1], Tail(w), e)
    BY <1>2, <1>3, <1>4, Zenon DEF Decodes
<1> QED BY <1>3, <1>5, <1>6

\* What Send puts behind the bytes on the line.
Items(bytes, meaning) ==
    [i \in DOMAIN bytes |-> [byte |-> bytes[i],
                             meant |-> IF i = Len(bytes) THEN meaning ELSE Nothing]]

\* The bytes of one key on the line: the last of them carries the meaning.
LEMMA ItemsFields ==
    ASSUME NEW bytes \in Seq(Bytes), NEW meaning \in Characters \cup {Nothing}
    PROVE  /\ Items(bytes, meaning) \in Seq(WireItems)
           /\ Len(Items(bytes, meaning)) = Len(bytes) /\ Len(bytes) \in Nat
           /\ \A i \in 1 .. Len(bytes) :
                 Items(bytes, meaning)[i] =
                    [byte |-> bytes[i], meant |-> IF i = Len(bytes) THEN meaning ELSE Nothing]
<1> DEFINE items == Items(bytes, meaning)
<1>1. DOMAIN bytes = 1 .. Len(bytes) /\ Len(bytes) \in Nat
    BY LengthFacts
<1>2. \A i \in 1 .. Len(bytes) :
         items[i] = [byte |-> bytes[i], meant |-> IF i = Len(bytes) THEN meaning ELSE Nothing]
    BY <1>1, Zenon DEF Items
<1>3. \A i \in 1 .. Len(bytes) : items[i] \in WireItems
    <2>1. \A i \in 1 .. Len(bytes) : bytes[i] \in Bytes
        BY <1>1, ElementFact, Zenon
    <2> QED BY <1>1, <2>1, Zenon DEF WireItems, Items
<1>4. items \in [1 .. Len(bytes) -> WireItems]
    BY <1>1, <1>3, Zenon DEF Items
<1> HIDE DEF items
<1>5. items \in Seq(WireItems) /\ Len(items) = Len(bytes)
    BY <1>1, <1>4, FunctionIsSequence, Zenon
<1> QED BY <1>1, <1>2, <1>5, Zenon DEF items

\* The meaning is that of the last byte, so that bytes before it mean nothing.
LEMMA ItemsBoth ==
    ASSUME NEW a \in Seq(Bytes), NEW b \in Seq(Bytes), b # <<>>,
           NEW meaning \in Characters \cup {Nothing}
    PROVE  Items(a \o b, meaning) = Items(a, Nothing) \o Items(b, meaning)
<1> DEFINE both == Items(a \o b, meaning)
           v == Items(a, Nothing)
           w == Items(b, meaning)
<1>1. a \o b \in Seq(Bytes) /\ Len(a \o b) = Len(a) + Len(b)
    BY ConcatFacts, Zenon
<1>2. /\ both \in Seq(WireItems) /\ Len(both) = Len(a) + Len(b)
      /\ \A i \in 1 .. Len(a) + Len(b) :
            both[i] = [byte |-> (a \o b)[i],
                       meant |-> IF i = Len(a) + Len(b) THEN meaning ELSE Nothing]
    <2>1. PICK c \in Seq(Bytes) : c = a \o b /\ Len(c) = Len(a) + Len(b)
        BY <1>1, Zenon
    <2>2. /\ Items(c, meaning) \in Seq(WireItems) /\ Len(Items(c, meaning)) = Len(c)
          /\ \A i \in 1 .. Len(c) :
                Items(c, meaning)[i] =
                   [byte |-> c[i], meant |-> IF i = Len(c) THEN meaning ELSE Nothing]
        BY ItemsFields, Zenon
    <2> QED BY <2>1, <2>2, Zenon
<1>3. /\ v \in Seq(WireItems) /\ Len(v) = Len(a) /\ Len(a) \in Nat
      /\ \A i \in 1 .. Len(a) : v[i] = [byte |-> a[i], meant |-> Nothing]
    BY ItemsFields, ZenonT(30)
<1>4. /\ w \in Seq(WireItems) /\ Len(w) = Len(b) /\ Len(b) \in Nat
      /\ \A i \in 1 .. Len(b) :
            w[i] = [byte |-> b[i], meant |-> IF i = Len(b) THEN meaning ELSE Nothing]
    BY ItemsFields, Zenon
<1>5. Len(b) > 0
    BY <1>4
<1> HIDE DEF both, v, w
<1>6. /\ v \o w \in Seq(WireItems) /\ Len(v \o w) = Len(a) + Len(b)
      /\ \A i \in 1 .. Len(a) + Len(b) :
            (v \o w)[i] = IF i <= Len(a) THEN v[i] ELSE w[i - Len(a)]
    <2>0. v \in Seq(WireItems) /\ w \in Seq(WireItems)
        BY <1>3, <1>4, Zenon
    <2>1. /\ v \o w \in Seq(WireItems) /\ Len(v \o w) = Len(v) + Len(w)
          /\ \A i \in 1 .. Len(v) + Len(w) :
                (v \o w)[i] = IF i <= Len(v) THEN v[i] ELSE w[i - Len(v)]
        BY <2>0, ConcatFacts, Zenon
    <2>2. Len(v) = Len(a) /\ Len(w) = Len(b)
        BY <1>3, <1>4, Zenon
    <2> QED BY <2>1, <2>2, Zenon
<1>7. ASSUME NEW i \in 1 .. Len(a) + Len(b) PROVE both[i] = (v \o w)[i]
    <2>1. (a \o b)[i] = IF i <= Len(a) THEN a[i] ELSE b[i - Len(a)]
        BY ConcatFacts
    <2>2. CASE i <= Len(a)
        <3>1. i \in 1 .. Len(a) /\ i # Len(a) + Len(b)
            BY <1>3, <1>4, <1>5, <2>2
        <3> QED BY <1>2, <1>3, <1>6, <2>1, <2>2, <3>1, Zenon
    <2>3. CASE ~(i <= Len(a))
        <3>1. i - Len(a) \in 1 .. Len(b) /\ (i - Len(a) = Len(b) <=> i = Len(a) + Len(b))
            BY <1>3, <1>4, <2>3
        <3>2. w[i - Len(a)] = [byte |-> b[i - Len(a)],
                               meant |-> IF i - Len(a) = Len(b) THEN meaning ELSE Nothing]
            BY <1>4, <3>1, Zenon
        <3> QED BY <1>2, <1>6, <2>1, <2>3, <3>1, <3>2, Zenon
    <2> QED BY <2>2, <2>3, Zenon
<1> QED BY <1>2, <1>6, <1>7, SameSequence, Zenon DEF both, v, w

\* Bytes of the keyboard, decoded one by one.
LEMMA BytesDecode ==
    ASSUME NEW e, NEW g, NEW bytes \in Seq(Bytes), NEW meaning \in Characters \cup {Nothing},
           NEW f \in [0 .. Len(bytes) -> Decoders], f[0] = e, f[Len(bytes)] = g,
           \A k \in 1 .. Len(bytes) :
              /\ bytes[k].port = 1
              /\ Handle(f[k - 1], bytes[k]) =
                    <<f[k], IF k = Len(bytes) THEN meaning ELSE Nothing>>
    PROVE  Decodes(e, Items(bytes, meaning), g)
<1> DEFINE items == Items(bytes, meaning)
<1>1. /\ Len(items) = Len(bytes)
      /\ \A i \in 1 .. Len(bytes) :
            items[i] = [byte |-> bytes[i], meant |-> IF i = Len(bytes) THEN meaning ELSE Nothing]
    BY ItemsFields, Zenon
<1> HIDE DEF items
<1>2. \A i \in 1 .. Len(bytes) : /\ items[i].byte = bytes[i]
                                 /\ items[i].meant = IF i = Len(bytes) THEN meaning ELSE Nothing
    <2> SUFFICES ASSUME NEW i \in 1 .. Len(bytes)
                 PROVE  /\ items[i].byte = bytes[i]
                        /\ items[i].meant = IF i = Len(bytes) THEN meaning ELSE Nothing
        BY Zenon
    <2>1. PICK m : m = IF i = Len(bytes) THEN meaning ELSE Nothing
        BY Zenon
    <2>2. items[i] = [byte |-> bytes[i], meant |-> m]
        BY <1>1, <2>1, Zenon
    <2>3. items[i].byte = bytes[i] /\ items[i].meant = m
        BY <2>2
    <2> QED BY <2>1, <2>3, Zenon
<1>3. \A k \in 1 .. Len(items) : Taken(f[k - 1], items[k]) = <<f[k], items[k].meant>>
    BY <1>1, <1>2 DEF Taken
<1>4. Decodes(e, items, g)
    BY <1>1, <1>3, Zenon DEF Decodes
<1> QED BY <1>4, Zenon DEF items

\* A single byte is decoded as meant if the handler returns its meaning.
LEMMA ByteDecodes ==
    ASSUME NEW e \in Decoders, NEW g \in Decoders, NEW byte \in Bytes, byte.port = 1,
           NEW meaning \in Characters \cup {Nothing}, Handle(e, byte) = <<g, meaning>>
    PROVE  Decodes(e, Items(<<byte>>, meaning), g)
<1> DEFINE bytes == <<byte>>
           f == [k \in 0 .. 1 |-> IF k = 0 THEN e ELSE g]
<1>1. bytes \in Seq(Bytes) /\ Len(bytes) = 1 /\ bytes[1] = byte
    OBVIOUS
<1>2. f \in [0 .. 1 -> Decoders] /\ f[0] = e /\ f[1] = g
    OBVIOUS
<1> HIDE DEF bytes, f
<1>3. \A k \in 1 .. Len(bytes) :
         /\ bytes[k].port = 1
         /\ Handle(f[k - 1], bytes[k]) = <<f[k], IF k = Len(bytes) THEN meaning ELSE Nothing>>
    <2> SUFFICES ASSUME NEW k \in 1 .. 1
                 PROVE  /\ bytes[k].port = 1
                        /\ Handle(f[k - 1], bytes[k]) =
                              <<f[k], IF k = Len(bytes) THEN meaning ELSE Nothing>>
        BY <1>1
    <2>1. k = 1 /\ k - 1 = 0
        OBVIOUS
    <2> QED BY <1>1, <1>2, <2>1, Zenon
<1>4. Decodes(e, Items(bytes, meaning), g)
    BY <1>1, <1>2, <1>3, BytesDecode, Zenon
<1> QED BY <1>4, Zenon DEF bytes

\* What is sent goes behind what is on the line.
LEMMA SendDecodes ==
    ASSUME NEW d, NEW e, NEW g, wire \in Seq(WireItems), Decodes(d, wire, e),
           NEW bytes \in Seq(Bytes), NEW meaning \in Characters \cup {Nothing},
           Send(bytes, meaning), Decodes(e, Items(bytes, meaning), g)
    PROVE  Decodes(d, wire', g)
<1>1. wire' = wire \o Items(bytes, meaning)
    BY Zenon DEF Send, Items
<1> QED BY <1>1, ItemsFields, DecodesBoth, Zenon

\* The flags that agree with a set of keys, and what one byte makes of them.
LEMMA FlagsType ==
    ASSUME NEW down, NEW capsOn \in BOOLEAN
    PROVE  Flags(down, capsOn) \in Decoders
<1>1. 0 \in 0 .. PauseLength
    BY KeyboardAssumption
<1> QED BY <1>1 DEF Flags, Decoders

\* The prefix E0 sets one flag, and the byte behind it clears it again.
Prefixed(down, capsOn) == [Flags(down, capsOn) EXCEPT !.extended = TRUE]

\* The prefix 0xE0 is remembered and yields no character.
LEMMA PrefixHandled ==
    ASSUME NEW down, NEW capsOn \in BOOLEAN
    PROVE  /\ Prefixed(down, capsOn) \in Decoders
           /\ Handle(Flags(down, capsOn), Byte(Extended, FALSE)) = <<Prefixed(down, capsOn), Nothing>>
<1> DEFINE d == Flags(down, capsOn)
           b == Byte(Extended, FALSE)
<1>1. d.pause = 0 /\ b.code = Extended
    BY DEF Flags, Byte
<1>2. Extended \notin Codes /\ Extended # PausePrefix
    BY KeyboardAssumption
<1>3. ~(d.pause > 0)
    BY <1>1
<1>4. d \in Decoders
    BY FlagsType
<1>5. Handle(d, b) = <<[d EXCEPT !.extended = TRUE], Nothing>>
    <2> HIDE DEF d, b
    <2> QED BY <1>1, <1>2, <1>3, Zenon DEF Handle
<1>6. [d EXCEPT !.extended = TRUE] \in Decoders
    <2> HIDE DEF d
    <2> QED BY <1>4, Zenon DEF Decoders
<1> QED BY <1>5, <1>6, Zenon DEF Prefixed

\* A key without the prefix.
LEMMA PlainHandled ==
    ASSUME NEW down, NEW capsOn \in BOOLEAN, NEW code \in Codes, NEW released \in BOOLEAN
    PROVE  LET d == Flags(down, capsOn)  b == Byte(code, released)
           IN  Handle(d, b) = <<HandlePlain(d, b), IF code \in Modifiers \/ released
                                                   THEN Nothing ELSE Decoded(d, code)>>
<1> DEFINE d == Flags(down, capsOn)
           b == Byte(code, released)
<1>1. d.pause = 0 /\ ~d.extended /\ b.code = code /\ b.released = released
    BY Zenon DEF Flags, Byte
<1>2. Extended \notin Codes /\ PausePrefix \notin Codes
    BY KeyboardAssumption
<1>3. ~(d.pause > 0)
    BY <1>1
<1> HIDE DEF d, b
<1>4. Handle(d, b) = <<HandlePlain(d, b), IF code \in Modifiers \/ released
                                          THEN Nothing ELSE Decoded(d, code)>>
    BY <1>1, <1>2, <1>3, Zenon DEF Handle
<1> QED BY <1>4 DEF d, b

\* And one behind it.
LEMMA PrefixedHandled ==
    ASSUME NEW down, NEW capsOn \in BOOLEAN, NEW code \in Codes, NEW released \in BOOLEAN
    PROVE  LET d == Prefixed(down, capsOn)  b == Byte(code, released)
           IN  Handle(d, b) = <<HandleExtended(d, b), ExtendedCharacter(b)>>
<1> DEFINE d == Prefixed(down, capsOn)
           b == Byte(code, released)
<1>1. d.pause = 0 /\ d.extended /\ b.code = code
    BY DEF Flags, Prefixed, Byte
<1>2. Extended \notin Codes /\ PausePrefix \notin Codes
    BY KeyboardAssumption
<1>3. ~(d.pause > 0)
    BY <1>1
<1> HIDE DEF d, b
<1>4. Handle(d, b) = <<HandleExtended(d, b), ExtendedCharacter(b)>>
    BY <1>1, <1>2, <1>3, Zenon DEF Handle
<1> QED BY <1>4 DEF d, b

\* Two sets of flags are the same when they agree one by one.
LEMMA FlagsEqual ==
    ASSUME NEW d \in Decoders, NEW e \in Decoders,
           d.leftShift <=> e.leftShift, d.rightShift <=> e.rightShift,
           d.leftCtrl <=> e.leftCtrl, d.rightCtrl <=> e.rightCtrl,
           d.capsLock <=> e.capsLock, d.extended <=> e.extended, d.pause = e.pause
    PROVE  d = e
BY DEF Decoders

\* What the flags say that agree with a set of keys.
LEMMA FlagsSay ==
    ASSUME NEW down, NEW capsOn \in BOOLEAN, NEW d, d = Flags(down, capsOn)
    PROVE  /\ d \in Decoders
           /\ d.leftShift <=> <<FALSE, LeftShift>> \in down
           /\ d.rightShift <=> <<FALSE, RightShift>> \in down
           /\ d.leftCtrl <=> <<FALSE, Control>> \in down
           /\ d.rightCtrl <=> <<TRUE, Control>> \in down
           /\ d.capsLock <=> capsOn
           /\ ~d.extended /\ d.pause = 0
<1>1. d \in Decoders
    BY FlagsType, Zenon
<1> QED BY <1>1, Zenon DEF Flags

\* The keys that are down after one has been pressed or released.
Held(down, key, released) == IF released THEN down \ {key} ELSE down \cup {key}

\* The keys that are down after a key was pressed or released.
LEMMA HeldResult ==
    ASSUME NEW down, NEW key, NEW other, NEW released \in BOOLEAN
    PROVE  other \in Held(down, key, released) <=>
              IF other = key THEN ~released ELSE other \in down
<1>1. CASE released
    BY <1>1, Zenon DEF Held
<1>2. CASE ~released
    BY <1>2, Zenon DEF Held
<1> QED BY <1>1, <1>2

\* The modifiers have scancodes of their own.
LEMMA ModifiersDiffer ==
    /\ LeftShift # RightShift /\ LeftShift # Control /\ LeftShift # CapsLock
    /\ RightShift # Control /\ RightShift # CapsLock /\ Control # CapsLock
    /\ LeftShift \in Codes /\ RightShift \in Codes /\ Control \in Codes /\ CapsLock \in Codes
BY KeyboardAssumption DEF Codes, Modifiers

\* Whether Caps Lock is on after a key without the prefix.
CapsAfter(code, released, capsOn) == IF code = CapsLock /\ ~released THEN ~capsOn ELSE capsOn

\* The handler's flags follow the key, whichever it is.
LEMMA PlainFlags ==
    ASSUME NEW down, NEW capsOn \in BOOLEAN, NEW code \in Codes, NEW released \in BOOLEAN
    PROVE  HandlePlain(Flags(down, capsOn), Byte(code, released)) =
              Flags(Held(down, <<FALSE, code>>, released),
                    CapsAfter(code, released, capsOn))
<1>1. PICK now \in BOOLEAN : now = CapsAfter(code, released, capsOn)
    BY Zenon DEF CapsAfter
<1>2. now <=> IF code = CapsLock /\ ~released THEN ~capsOn ELSE capsOn
    BY <1>1, Zenon DEF CapsAfter
<1>3. PICK new : new = Held(down, <<FALSE, code>>, released)
    BY Zenon
<1>4. PICK b : b = Byte(code, released)
    BY Zenon
<1>5. PICK d : d = Flags(down, capsOn)
    BY Zenon
<1>6. PICK e : e = Flags(new, now)
    BY Zenon
<1>7. b.code = code /\ b.released = released
    BY <1>4, ByteFields, Zenon
<1>8. /\ <<FALSE, LeftShift>> \in new <=> IF code = LeftShift THEN ~released ELSE <<FALSE, LeftShift>> \in down
      /\ <<FALSE, RightShift>> \in new <=> IF code = RightShift THEN ~released ELSE <<FALSE, RightShift>> \in down
      /\ <<FALSE, Control>> \in new <=> IF code = Control THEN ~released ELSE <<FALSE, Control>> \in down
      /\ <<TRUE, Control>> \in new <=> <<TRUE, Control>> \in down
    <2>1. \A other : other \in new <=> IF other = <<FALSE, code>> THEN ~released ELSE other \in down
        BY <1>3, HeldResult, Zenon
    <2>2. /\ <<TRUE, Control>> # <<FALSE, code>>
          /\ <<FALSE, LeftShift>> = <<FALSE, code>> <=> code = LeftShift
          /\ <<FALSE, RightShift>> = <<FALSE, code>> <=> code = RightShift
          /\ <<FALSE, Control>> = <<FALSE, code>> <=> code = Control
        OBVIOUS
    <2> QED BY <2>1, <2>2, Zenon
<1>9. /\ d \in Decoders
      /\ d.leftShift <=> <<FALSE, LeftShift>> \in down
      /\ d.rightShift <=> <<FALSE, RightShift>> \in down
      /\ d.leftCtrl <=> <<FALSE, Control>> \in down
      /\ d.rightCtrl <=> <<TRUE, Control>> \in down
      /\ d.capsLock <=> capsOn
      /\ ~d.extended /\ d.pause = 0
    BY <1>5, FlagsSay, Zenon
<1>10. /\ e \in Decoders
       /\ e.leftShift <=> <<FALSE, LeftShift>> \in new
       /\ e.rightShift <=> <<FALSE, RightShift>> \in new
       /\ e.leftCtrl <=> <<FALSE, Control>> \in new
       /\ e.rightCtrl <=> <<TRUE, Control>> \in new
       /\ e.capsLock <=> now
       /\ ~e.extended /\ e.pause = 0
    BY <1>6, FlagsSay, Zenon
<1>11. PICK q : q = HandlePlain(d, b)
    BY Zenon
<1>12. /\ q \in Decoders
       /\ q.leftShift <=> IF code = LeftShift THEN ~released ELSE d.leftShift
       /\ q.rightShift <=> IF code = RightShift THEN ~released ELSE d.rightShift
       /\ q.leftCtrl <=> IF code = Control THEN ~released ELSE d.leftCtrl
       /\ q.rightCtrl <=> d.rightCtrl
       /\ q.capsLock <=> IF code = CapsLock /\ ~released THEN ~d.capsLock ELSE d.capsLock
       /\ q.extended <=> d.extended
       /\ q.pause = d.pause
    <2>1. CASE code = LeftShift
        <3>1. q = [d EXCEPT !.leftShift = ~released]
            BY <1>7, <1>11, <2>1, ModifiersDiffer, Zenon DEF HandlePlain
        <3> QED BY <1>9, <2>1, <3>1, ModifiersDiffer, Zenon DEF Decoders
    <2>2. CASE code = RightShift
        <3>1. q = [d EXCEPT !.rightShift = ~released]
            BY <1>7, <1>11, <2>2, ModifiersDiffer, Zenon DEF HandlePlain
        <3> QED BY <1>9, <2>2, <3>1, ModifiersDiffer, Zenon DEF Decoders
    <2>3. CASE code = Control
        <3>1. q = [d EXCEPT !.leftCtrl = ~released]
            BY <1>7, <1>11, <2>3, ModifiersDiffer, Zenon DEF HandlePlain
        <3> QED BY <1>9, <2>3, <3>1, ModifiersDiffer, Zenon DEF Decoders
    <2>4. CASE code = CapsLock
        <3>1. q = [d EXCEPT !.capsLock = (@ # ~released)]
            BY <1>7, <1>11, <2>4, ModifiersDiffer, Zenon DEF HandlePlain
        <3> QED BY <1>9, <2>4, <3>1, ModifiersDiffer, Zenon DEF Decoders
    <2>5. CASE code \notin {LeftShift, RightShift, Control, CapsLock}
        <3>1. q = d
            BY <1>7, <1>11, <2>5, Zenon DEF HandlePlain
        <3> QED BY <1>9, <2>5, <3>1, Zenon
    <2> QED BY <2>1, <2>2, <2>3, <2>4, <2>5, Zenon
<1>13. q = e
    <2>1. (q.leftShift <=> e.leftShift) /\ (q.rightShift <=> e.rightShift)
        BY <1>8, <1>9, <1>10, <1>12, Zenon
    <2>2. (q.leftCtrl <=> e.leftCtrl) /\ (q.rightCtrl <=> e.rightCtrl)
        BY <1>8, <1>9, <1>10, <1>12, Zenon
    <2>3. (q.capsLock <=> e.capsLock) /\ (q.extended <=> e.extended) /\ q.pause = e.pause
        BY <1>2, <1>9, <1>10, <1>12, Zenon
    <2> QED BY <1>10, <1>12, <2>1, <2>2, <2>3, FlagsEqual, Zenon
<1> QED BY <1>1, <1>3, <1>4, <1>5, <1>6, <1>11, <1>13, Zenon

\* A prefixed scancode leaves the flags that belong to the keys then down.
LEMMA ExtendedFlags ==
    ASSUME NEW down, NEW capsOn \in BOOLEAN, NEW code \in Codes, NEW released \in BOOLEAN
    PROVE  HandleExtended(Prefixed(down, capsOn), Byte(code, released)) =
              Flags(Held(down, <<TRUE, code>>, released), capsOn)
<1>1. PICK new : new = Held(down, <<TRUE, code>>, released)
    BY Zenon
<1>2. PICK b : b = Byte(code, released)
    BY Zenon
<1>3. PICK d : d = Flags(down, capsOn)
    BY Zenon
<1>4. PICK e : e = Flags(new, capsOn)
    BY Zenon
<1>5. b.code = code /\ b.released = released
    BY <1>2, ByteFields, Zenon
<1>6. /\ <<FALSE, LeftShift>> \in new <=> <<FALSE, LeftShift>> \in down
      /\ <<FALSE, RightShift>> \in new <=> <<FALSE, RightShift>> \in down
      /\ <<FALSE, Control>> \in new <=> <<FALSE, Control>> \in down
      /\ <<TRUE, Control>> \in new <=> IF code = Control THEN ~released ELSE <<TRUE, Control>> \in down
    <2>1. \A other : other \in new <=> IF other = <<TRUE, code>> THEN ~released ELSE other \in down
        BY <1>1, HeldResult, Zenon
    <2>2. /\ <<FALSE, LeftShift>> # <<TRUE, code>>
          /\ <<FALSE, RightShift>> # <<TRUE, code>>
          /\ <<FALSE, Control>> # <<TRUE, code>>
          /\ <<TRUE, Control>> = <<TRUE, code>> <=> code = Control
        OBVIOUS
    <2> QED BY <2>1, <2>2, Zenon
<1>7. /\ d \in Decoders
      /\ d.leftShift <=> <<FALSE, LeftShift>> \in down
      /\ d.rightShift <=> <<FALSE, RightShift>> \in down
      /\ d.leftCtrl <=> <<FALSE, Control>> \in down
      /\ d.rightCtrl <=> <<TRUE, Control>> \in down
      /\ d.capsLock <=> capsOn
      /\ ~d.extended /\ d.pause = 0
    BY <1>3, FlagsSay, Zenon
<1>8. /\ e \in Decoders
      /\ e.leftShift <=> <<FALSE, LeftShift>> \in new
      /\ e.rightShift <=> <<FALSE, RightShift>> \in new
      /\ e.leftCtrl <=> <<FALSE, Control>> \in new
      /\ e.rightCtrl <=> <<TRUE, Control>> \in new
      /\ e.capsLock <=> capsOn
      /\ ~e.extended /\ e.pause = 0
    BY <1>4, FlagsSay, Zenon
<1>9. PICK p : p = Prefixed(down, capsOn) /\ p = [d EXCEPT !.extended = TRUE]
    BY <1>3, Zenon DEF Prefixed
<1>10. PICK q : q = HandleExtended(p, b)
    BY Zenon
<1>11. /\ q \in Decoders
       /\ q.leftShift <=> d.leftShift
       /\ q.rightShift <=> d.rightShift
       /\ q.leftCtrl <=> d.leftCtrl
       /\ q.rightCtrl <=> IF code = Control THEN ~released ELSE d.rightCtrl
       /\ q.capsLock <=> d.capsLock
       /\ ~q.extended /\ q.pause = d.pause
    <2>1. /\ p \in Decoders
          /\ p.leftShift <=> d.leftShift
          /\ p.rightShift <=> d.rightShift
          /\ p.leftCtrl <=> d.leftCtrl
          /\ p.rightCtrl <=> d.rightCtrl
          /\ p.capsLock <=> d.capsLock
          /\ p.pause = d.pause
        BY <1>7, <1>9, Zenon DEF Decoders
    <2>2. /\ q \in Decoders
          /\ q.leftShift <=> p.leftShift
          /\ q.rightShift <=> p.rightShift
          /\ q.leftCtrl <=> p.leftCtrl
          /\ q.rightCtrl <=> IF code = Control THEN ~released ELSE p.rightCtrl
          /\ q.capsLock <=> p.capsLock
          /\ ~q.extended /\ q.pause = p.pause
        BY <1>5, <1>10, <2>1, Zenon DEF HandleExtended, Decoders
    <2> QED BY <2>1, <2>2, Zenon
<1>12. q = e
    <2>1. (q.leftShift <=> e.leftShift) /\ (q.rightShift <=> e.rightShift)
        BY <1>6, <1>7, <1>8, <1>11, Zenon
    <2>2. (q.leftCtrl <=> e.leftCtrl) /\ (q.rightCtrl <=> e.rightCtrl)
        BY <1>6, <1>7, <1>8, <1>11, Zenon
    <2>3. (q.capsLock <=> e.capsLock) /\ (q.extended <=> e.extended) /\ q.pause = e.pause
        BY <1>7, <1>8, <1>11, Zenon
    <2> QED BY <1>8, <1>11, <2>1, <2>2, <2>3, FlagsEqual, Zenon
<1> QED BY <1>1, <1>2, <1>4, <1>9, <1>10, <1>12, Zenon

\* A press yields the character that is meant, given the keys that are down with
\* the new one and Caps Lock as it was.
LEMMA PlainCharacter ==
    ASSUME NEW down, NEW capsOn \in BOOLEAN, NEW code \in Codes, code \notin Modifiers
    PROVE  Decoded(Flags(down, capsOn), code) =
              Meaning(<<FALSE, code>>, Held(down, <<FALSE, code>>, FALSE), capsOn)
<1>1. PICK d : d = Flags(down, capsOn)
    BY Zenon
<1>2. PICK new : new = Held(down, <<FALSE, code>>, FALSE)
    BY Zenon
<1>3. PICK key : key = <<FALSE, code>>
    BY Zenon
<1>31. key[1] = FALSE /\ key[2] = code
    BY <1>3
<1> DEFINE shift == <<FALSE, LeftShift>> \in new \/ <<FALSE, RightShift>> \in new
           control == <<FALSE, Control>> \in new \/ <<TRUE, Control>> \in new
<1>4. /\ d.leftShift \/ d.rightShift <=> shift
      /\ d.leftCtrl \/ d.rightCtrl <=> control
      /\ d.capsLock <=> capsOn
    <2>1. /\ d.leftShift <=> <<FALSE, LeftShift>> \in down
          /\ d.rightShift <=> <<FALSE, RightShift>> \in down
          /\ d.leftCtrl <=> <<FALSE, Control>> \in down
          /\ d.rightCtrl <=> <<TRUE, Control>> \in down
          /\ d.capsLock <=> capsOn
        BY <1>1, FlagsSay, Zenon
    <2>2. \A other : other \in new <=> other = key \/ other \in down
        BY <1>2, <1>3, Zenon DEF Held
    <2>3. /\ <<FALSE, LeftShift>> # key /\ <<FALSE, RightShift>> # key
          /\ <<FALSE, Control>> # key /\ <<TRUE, Control>> # key
        BY <1>3 DEF Modifiers
    <2> QED BY <2>1, <2>2, <2>3, Zenon
<1>5. d.capsLock \in BOOLEAN /\ shift \in BOOLEAN
    BY <1>1, FlagsSay DEF Decoders
<1> HIDE DEF shift, control
<1>6. \A form : Character(form, code).form = form
    BY DEF Character
<1>7. Letters \cap (Symbols \cup Plains) = {} /\ Symbols \cap Plains = {}
    BY KeyboardAssumption
<1>8. Meaning(key, new, capsOn) =
          IF code \in Letters
          THEN Character(IF control THEN "control"
                         ELSE IF shift # capsOn THEN "upper" ELSE "lower", code)
          ELSE IF code \in Symbols THEN Character(IF shift THEN "shifted" ELSE "plain", code)
          ELSE IF code \in Plains THEN Character("plain", code) ELSE Nothing
    BY <1>31, <1>7, Zenon DEF Meaning, shift, control
<1>9. CASE code \in Letters
    <2>1. code \notin Symbols
        BY <1>7, <1>9
    <2>2. CASE control
        <3>1. d.leftCtrl \/ d.rightCtrl
            BY <1>4, <2>2
        <3>2. "control" # "lower"
            OBVIOUS
        <3>3. Decoded(d, code) = Character("control", code)
            BY <1>6, <1>9, <2>1, <3>1, <3>2 DEF Decoded
        <3> QED BY <1>1, <1>2, <1>3, <1>8, <1>9, <2>2, <3>3, Zenon
    <2>3. CASE ~control /\ shift # capsOn
        <3>1. ~(d.leftCtrl \/ d.rightCtrl) /\ (d.leftShift \/ d.rightShift) # d.capsLock
            BY <1>4, <1>5, <2>3
        <3>2. Decoded(d, code) = Character("upper", code)
            BY <1>6, <1>9, <2>1, <3>1, Zenon DEF Decoded
        <3> QED BY <1>1, <1>2, <1>3, <1>8, <1>9, <2>3, <3>2, Zenon
    <2>4. CASE ~control /\ ~(shift # capsOn)
        <3>1. ~(d.leftCtrl \/ d.rightCtrl) /\ ~((d.leftShift \/ d.rightShift) # d.capsLock)
            BY <1>4, <1>5, <2>4
        <3>2. Decoded(d, code) = Character("lower", code)
            BY <1>6, <1>9, <2>1, <3>1, Zenon DEF Decoded
        <3> QED BY <1>1, <1>2, <1>3, <1>8, <1>9, <2>4, <3>2, Zenon
    <2> QED BY <2>2, <2>3, <2>4, Zenon
<1>10. CASE code \in Symbols
    <2>1. code \notin Letters
        BY <1>7, <1>10
    <2>2. "shifted" # "lower" /\ "plain" # "lower"
        OBVIOUS
    <2>3. CASE shift
        <3>1. d.leftShift \/ d.rightShift
            BY <1>4, <2>3
        <3>2. Decoded(d, code) = Character("shifted", code)
            BY <1>6, <1>10, <2>1, <2>2, <3>1 DEF Decoded
        <3> QED BY <1>1, <1>2, <1>3, <1>8, <1>10, <2>1, <2>3, <3>2, Zenon
    <2>4. CASE ~shift
        <3>1. ~(d.leftShift \/ d.rightShift)
            BY <1>4, <2>4
        <3>2. Decoded(d, code) = Character("plain", code)
            BY <1>6, <1>10, <2>1, <2>2, <3>1, Zenon DEF Decoded
        <3> QED BY <1>1, <1>2, <1>3, <1>8, <1>10, <2>1, <2>4, <3>2, Zenon
    <2> QED BY <2>3, <2>4, Zenon
<1>11. CASE code \notin Letters /\ code \notin Symbols
    <2>1. "plain" # "lower" /\ Nothing.form # "lower"
        BY DEF Nothing
    <2>2. Decoded(d, code) = IF code \in Plains THEN Character("plain", code) ELSE Nothing
        BY <1>6, <1>11, <2>1, Zenon DEF Decoded
    <2> QED BY <1>1, <1>2, <1>3, <1>8, <1>11, <2>2, Zenon
<1> QED BY <1>9, <1>10, <1>11, Zenon

\* A prefixed scancode yields the character the key means when it is pressed, and
\* none when it is released.
LEMMA PrefixedCharacter ==
    ASSUME NEW down, NEW capsOn, NEW code \in Codes
    PROVE  /\ ExtendedCharacter(Byte(code, FALSE)) = Meaning(<<TRUE, code>>, down, capsOn)
           /\ ExtendedCharacter(Byte(code, TRUE)) = Nothing
<1>1. PICK key : key = <<TRUE, code>>
    BY Zenon
<1>11. key[1] = TRUE /\ key[2] = code
    BY <1>1
<1>2. Navigation \cap Keypad = {}
    BY KeyboardAssumption
<1>3. Meaning(key, down, capsOn) =
          IF code \in Keypad THEN Character("plain", code)
          ELSE IF code \in Navigation THEN Character("special", code) ELSE Nothing
    BY <1>11, <1>2, Zenon DEF Meaning
<1>4. ASSUME NEW b, b.code = code, ~b.released
      PROVE  ExtendedCharacter(b) =
                IF code \in Keypad THEN Character("plain", code)
                ELSE IF code \in Navigation THEN Character("special", code) ELSE Nothing
    BY <1>2, <1>4, Zenon DEF ExtendedCharacter
<1>5. ExtendedCharacter(Byte(code, FALSE)) = Meaning(key, down, capsOn)
    <2>1. PICK b : b = Byte(code, FALSE)
        BY Zenon
    <2>2. b.code = code /\ ~b.released
        BY <2>1, ByteFields, Zenon
    <2>3. ExtendedCharacter(b) =
                IF code \in Keypad THEN Character("plain", code)
                ELSE IF code \in Navigation THEN Character("special", code) ELSE Nothing
        BY <1>4, <2>2
    <2> QED BY <1>3, <2>1, <2>3, Zenon
<1>6. ASSUME NEW b, b.released PROVE ExtendedCharacter(b) = Nothing
    BY <1>6, Zenon DEF ExtendedCharacter
<1>7. ExtendedCharacter(Byte(code, TRUE)) = Nothing
    BY <1>6, ByteFields, Zenon
<1> QED BY <1>1, <1>5, <1>7, Zenon

\* What is meant by a key that goes down or up.
Sent(down, key, released, capsOn) ==
    IF released THEN Nothing ELSE Meaning(key, Held(down, key, FALSE), capsOn)

\* The byte of a key without the prefix: the flags follow the key, and what goes
\* into the ring is what it means with the keys that are down.
LEMMA PlainByte ==
    ASSUME NEW down, NEW capsOn \in BOOLEAN, NEW code \in Codes, NEW released \in BOOLEAN
    PROVE  Handle(Flags(down, capsOn), Byte(code, released)) =
              <<Flags(Held(down, <<FALSE, code>>, released),
                      CapsAfter(code, released, capsOn)),
                Sent(down, <<FALSE, code>>, released, capsOn)>>
<1>1. HandlePlain(Flags(down, capsOn), Byte(code, released)) =
         Flags(Held(down, <<FALSE, code>>, released), CapsAfter(code, released, capsOn))
    BY PlainFlags, Zenon
<1>2. Handle(Flags(down, capsOn), Byte(code, released)) =
         <<HandlePlain(Flags(down, capsOn), Byte(code, released)),
           IF code \in Modifiers \/ released THEN Nothing
           ELSE Decoded(Flags(down, capsOn), code)>>
    BY PlainHandled
<1>3. CASE released
    BY <1>1, <1>2, <1>3, Zenon DEF Sent
<1>4. CASE ~released /\ code \in Modifiers
    <2>1. code \notin Letters /\ code \notin Symbols /\ code \notin Plains
        BY <1>4, KeyboardAssumption
    <2>2. PICK key : key = <<FALSE, code>>
        BY Zenon
    <2>3. ~key[1] /\ key[2] = code
        BY <2>2
    <2>4. Meaning(key, Held(down, key, FALSE), capsOn) = Nothing
        BY <2>1, <2>3, Zenon DEF Meaning
    <2> QED BY <1>1, <1>2, <1>4, <2>2, <2>4, Zenon DEF Sent
<1>5. CASE ~released /\ code \notin Modifiers
    <2>1. Decoded(Flags(down, capsOn), code) =
             Meaning(<<FALSE, code>>, Held(down, <<FALSE, code>>, FALSE), capsOn)
        BY <1>5, PlainCharacter, Zenon
    <2> QED BY <1>1, <1>2, <1>5, <2>1, Zenon DEF Sent
<1> QED BY <1>3, <1>4, <1>5, Zenon

\* The byte behind the prefix is decoded as meant, into the flags of the keys then down.
LEMMA PrefixedByte ==
    ASSUME NEW down, NEW capsOn \in BOOLEAN, NEW code \in Codes, NEW released \in BOOLEAN
    PROVE  Handle(Prefixed(down, capsOn), Byte(code, released)) =
              <<Flags(Held(down, <<TRUE, code>>, released), capsOn),
                Sent(down, <<TRUE, code>>, released, capsOn)>>
<1>1. HandleExtended(Prefixed(down, capsOn), Byte(code, released)) =
         Flags(Held(down, <<TRUE, code>>, released), capsOn)
    BY ExtendedFlags, Zenon
<1>2. Handle(Prefixed(down, capsOn), Byte(code, released)) =
         <<HandleExtended(Prefixed(down, capsOn), Byte(code, released)),
           ExtendedCharacter(Byte(code, released))>>
    BY PrefixedHandled
<1>3. ExtendedCharacter(Byte(code, released)) = Sent(down, <<TRUE, code>>, released, capsOn)
    <2>1. CASE released = TRUE
        BY <2>1, PrefixedCharacter, Zenon DEF Sent
    <2>2. CASE released = FALSE
        <3>1. ExtendedCharacter(Byte(code, FALSE)) =
                 Meaning(<<TRUE, code>>, Held(down, <<TRUE, code>>, FALSE), capsOn)
            BY PrefixedCharacter, Zenon
        <3> QED BY <2>2, <3>1, Zenon DEF Sent
    <2> QED BY <2>1, <2>2, Zenon
<1> QED BY <1>1, <1>2, <1>3, Zenon

\* What a key is sent for is a character or nothing.
LEMMA SentType ==
    ASSUME NEW key \in BOOLEAN \X Codes, NEW down, NEW capsOn, NEW released
    PROVE  Sent(down, key, released, capsOn) \in Characters \cup {Nothing}
BY MeaningType, Zenon DEF Sent

\* A key that goes down or up, prefix and all.
LEMMA PlainKeyDecodes ==
    ASSUME NEW down, NEW capsOn \in BOOLEAN, NEW code \in Codes, NEW released \in BOOLEAN
    PROVE  Decodes(Flags(down, capsOn),
                   Items(Scancode(<<FALSE, code>>, released),
                         Sent(down, <<FALSE, code>>, released, capsOn)),
                   Flags(Held(down, <<FALSE, code>>, released),
                         CapsAfter(code, released, capsOn)))
<1>0. CapsAfter(code, released, capsOn) \in BOOLEAN
    BY Zenon DEF CapsAfter
<1>1. Handle(Flags(down, capsOn), Byte(code, released)) =
         <<Flags(Held(down, <<FALSE, code>>, released), CapsAfter(code, released, capsOn)),
           Sent(down, <<FALSE, code>>, released, capsOn)>>
    BY PlainByte, Zenon
<1>2. PICK e \in Decoders : e = Flags(down, capsOn)
    BY FlagsType, Zenon
<1>3. PICK g \in Decoders :
         g = Flags(Held(down, <<FALSE, code>>, released), CapsAfter(code, released, capsOn))
    BY <1>0, FlagsType, Zenon
<1>4. PICK b \in Bytes : b = Byte(code, released)
    BY ByteType, Zenon
<1>5. PICK meaning \in Characters \cup {Nothing} :
         meaning = Sent(down, <<FALSE, code>>, released, capsOn)
    <2>1. <<FALSE, code>> \in BOOLEAN \X Codes
        BY Zenon
    <2> QED BY <2>1, SentType, Zenon
<1>6. Handle(e, b) = <<g, meaning>> /\ b.port = 1
    BY <1>1, <1>2, <1>3, <1>4, <1>5, ByteFields, Zenon
<1>7. Decodes(e, Items(<<b>>, meaning), g)
    BY <1>6, ByteDecodes, Zenon
<1>8. Scancode(<<FALSE, code>>, released) = <<b>>
    <2>1. PICK key : key = <<FALSE, code>>
        BY Zenon
    <2>2. ~key[1] /\ key[2] = code
        BY <2>1
    <2>3. Scancode(key, released) = <<>> \o <<b>>
        BY <1>4, <2>2, Zenon DEF Scancode
    <2>4. <<>> \o <<b>> = <<b>>
        OBVIOUS
    <2> QED BY <2>1, <2>3, <2>4, Zenon
<1> QED BY <1>2, <1>3, <1>5, <1>7, <1>8, Zenon

\* A prefixed key is decoded as meant: first the prefix, then the scancode.
LEMMA PrefixedKeyDecodes ==
    ASSUME NEW down, NEW capsOn \in BOOLEAN, NEW code \in Codes, NEW released \in BOOLEAN
    PROVE  Decodes(Flags(down, capsOn),
                   Items(Scancode(<<TRUE, code>>, released),
                         Sent(down, <<TRUE, code>>, released, capsOn)),
                   Flags(Held(down, <<TRUE, code>>, released), capsOn))
<1>1. Handle(Prefixed(down, capsOn), Byte(code, released)) =
         <<Flags(Held(down, <<TRUE, code>>, released), capsOn),
           Sent(down, <<TRUE, code>>, released, capsOn)>>
    BY PrefixedByte, Zenon
<1>2. PICK e \in Decoders : e = Flags(down, capsOn)
    BY FlagsType, Zenon
<1>3. PICK g \in Decoders : g = Flags(Held(down, <<TRUE, code>>, released), capsOn)
    BY FlagsType, Zenon
<1>4. PICK b \in Bytes : b = Byte(code, released)
    BY ByteType, Zenon
<1>5. PICK meaning \in Characters \cup {Nothing} :
         meaning = Sent(down, <<TRUE, code>>, released, capsOn)
    <2>1. <<TRUE, code>> \in BOOLEAN \X Codes
        BY Zenon
    <2> QED BY <2>1, SentType, Zenon
<1>6. PICK h \in Decoders : h = Prefixed(down, capsOn)
    BY PrefixHandled, Zenon
<1>7. PICK x \in Bytes : x = Byte(Extended, FALSE)
    BY ByteType, Zenon
<1>8. Handle(h, b) = <<g, meaning>> /\ b.port = 1
    BY <1>1, <1>3, <1>4, <1>5, <1>6, ByteFields, Zenon
<1>9. Handle(e, x) = <<h, Nothing>> /\ x.port = 1
    <2>1. Handle(Flags(down, capsOn), Byte(Extended, FALSE)) = <<Prefixed(down, capsOn), Nothing>>
        BY PrefixHandled, Zenon
    <2> QED BY <1>2, <1>6, <1>7, <2>1, ByteFields, Zenon
<1>10. Decodes(e, Items(<<x>>, Nothing), h)
    BY <1>9, ByteDecodes, Zenon
<1>11. Decodes(h, Items(<<b>>, meaning), g)
    BY <1>8, ByteDecodes, Zenon
<1>12. <<x>> \in Seq(Bytes) /\ <<b>> \in Seq(Bytes) /\ <<b>> # <<>>
    OBVIOUS
<1>13. Items(<<x>> \o <<b>>, meaning) = Items(<<x>>, Nothing) \o Items(<<b>>, meaning)
    BY <1>12, ItemsBoth, Zenon
<1>14. Items(<<x>>, Nothing) \in Seq(WireItems) /\ Items(<<b>>, meaning) \in Seq(WireItems)
    BY <1>12, ItemsFields, Zenon
<1>15. Decodes(e, Items(<<x>>, Nothing) \o Items(<<b>>, meaning), g)
    BY <1>10, <1>11, <1>14, DecodesBoth, Zenon
<1>16. Scancode(<<TRUE, code>>, released) = <<x>> \o <<b>>
    <2>1. PICK key : key = <<TRUE, code>>
        BY Zenon
    <2>2. key[1] /\ key[2] = code
        BY <2>1
    <2>3. Scancode(key, released) = <<x>> \o <<b>>
        BY <1>4, <1>7, <2>2, Zenon DEF Scancode
    <2> QED BY <2>1, <2>3, Zenon
<1> QED BY <1>2, <1>3, <1>5, <1>13, <1>15, <1>16, Zenon

\* The shift codes around a navigation key change no flag and mean nothing.
LEMMA FakeDecodes ==
    ASSUME NEW down, NEW capsOn \in BOOLEAN, NEW fake \in FakeShifts
    PROVE  /\ fake \in Seq(Bytes)
           /\ Decodes(Flags(down, capsOn), Items(fake, Nothing), Flags(down, capsOn))
<1>1. CASE fake = <<>>
    <2>1. fake \in Seq(Bytes) /\ Len(fake) = 0
        BY <1>1
    <2> DEFINE f == [k \in 0 .. 0 |-> Flags(down, capsOn)]
    <2>2. f \in [0 .. 0 -> Decoders] /\ f[0] = Flags(down, capsOn)
        BY FlagsType
    <2> HIDE DEF f
    <2>3. \A k \in 1 .. Len(fake) :
             /\ fake[k].port = 1
             /\ Handle(f[k - 1], fake[k]) = <<f[k], IF k = Len(fake) THEN Nothing ELSE Nothing>>
        BY <2>1
    <2> QED BY <2>1, <2>2, <2>3, BytesDecode, Zenon
<1>2. ASSUME NEW r \in BOOLEAN, fake = Scancode(<<TRUE, LeftShift>>, r)
      PROVE  /\ fake \in Seq(Bytes)
             /\ Decodes(Flags(down, capsOn), Items(fake, Nothing), Flags(down, capsOn))
    <2>1. LeftShift \in Codes
        BY ModifiersDiffer
    <2>2. PICK key \in BOOLEAN \X Codes : key = <<TRUE, LeftShift>>
        BY <2>1, Zenon
    <2>3. key[1] /\ key[2] = LeftShift
        BY <2>2
    <2>4. LeftShift \notin Navigation /\ LeftShift \notin Keypad
        BY KeyboardAssumption DEF Modifiers
    <2>5. \A S : Meaning(key, S, capsOn) = Nothing
        BY <2>3, <2>4, Zenon DEF Meaning
    <2>6. Flags(Held(down, key, r), capsOn) = Flags(down, capsOn)
        <3>1. \A other : other # key => (other \in Held(down, key, r) <=> other \in down)
            BY HeldResult, Zenon
        <3>2. /\ <<FALSE, LeftShift>> # key /\ <<FALSE, RightShift>> # key
              /\ <<FALSE, Control>> # key /\ <<TRUE, Control>> # key
            BY <2>2, ModifiersDiffer
        <3>3. PICK S : S = Held(down, key, r)
            BY Zenon
        <3>4. PICK d : d = Flags(down, capsOn)
            BY Zenon
        <3>5. PICK e : e = Flags(S, capsOn)
            BY Zenon
        <3>6. /\ <<FALSE, LeftShift>> \in S <=> <<FALSE, LeftShift>> \in down
              /\ <<FALSE, RightShift>> \in S <=> <<FALSE, RightShift>> \in down
              /\ <<FALSE, Control>> \in S <=> <<FALSE, Control>> \in down
              /\ <<TRUE, Control>> \in S <=> <<TRUE, Control>> \in down
            BY <3>1, <3>2, <3>3, Zenon
        <3>7. /\ d \in Decoders
              /\ d.leftShift <=> <<FALSE, LeftShift>> \in down
              /\ d.rightShift <=> <<FALSE, RightShift>> \in down
              /\ d.leftCtrl <=> <<FALSE, Control>> \in down
              /\ d.rightCtrl <=> <<TRUE, Control>> \in down
              /\ d.capsLock <=> capsOn
              /\ ~d.extended /\ d.pause = 0
            BY <3>4, FlagsSay, Zenon
        <3>8. /\ e \in Decoders
              /\ e.leftShift <=> <<FALSE, LeftShift>> \in S
              /\ e.rightShift <=> <<FALSE, RightShift>> \in S
              /\ e.leftCtrl <=> <<FALSE, Control>> \in S
              /\ e.rightCtrl <=> <<TRUE, Control>> \in S
              /\ e.capsLock <=> capsOn
              /\ ~e.extended /\ e.pause = 0
            BY <3>5, FlagsSay, Zenon
        <3>9. e = d
            BY <3>6, <3>7, <3>8, FlagsEqual, Zenon
        <3> QED BY <3>3, <3>4, <3>5, <3>9, Zenon
    <2>7. Decodes(Flags(down, capsOn), Items(Scancode(<<TRUE, LeftShift>>, r), Nothing),
                  Flags(Held(down, <<TRUE, LeftShift>>, r), capsOn))
        <3>1. Sent(down, <<TRUE, LeftShift>>, r, capsOn) = Nothing
            BY <2>2, <2>5, Zenon DEF Sent
        <3>2. Decodes(Flags(down, capsOn),
                      Items(Scancode(<<TRUE, LeftShift>>, r),
                            Sent(down, <<TRUE, LeftShift>>, r, capsOn)),
                      Flags(Held(down, <<TRUE, LeftShift>>, r), capsOn))
            BY <2>1, PrefixedKeyDecodes, Zenon
        <3> QED BY <3>1, <3>2, Zenon
    <2> QED BY <1>2, <2>2, <2>6, <2>7, ScancodeType, Zenon
<1>3. fake = <<>> \/ \E r \in BOOLEAN : fake = Scancode(<<TRUE, LeftShift>>, r)
    BY Zenon DEF FakeShifts
<1> QED BY <1>1, <1>2, <1>3, Zenon

\* The flags with n bytes of the Pause key to come.
Pausing(down, capsOn, n) == [Flags(down, capsOn) EXCEPT !.pause = n]

\* The decoder with n bytes of Pause still to skip; with none it is as before.
LEMMA PausingType ==
    ASSUME NEW down, NEW capsOn \in BOOLEAN, NEW n \in 0 .. PauseLength
    PROVE  /\ Pausing(down, capsOn, n) \in Decoders
           /\ Pausing(down, capsOn, n).pause = n
           /\ n = 0 => Pausing(down, capsOn, n) = Flags(down, capsOn)
<1>1. PICK d \in Decoders : d = Flags(down, capsOn) /\ d.pause = 0
    BY FlagsSay, Zenon
<1>2. [d EXCEPT !.pause = n] \in Decoders /\ [d EXCEPT !.pause = n].pause = n
    BY DEF Decoders
<1>3. n = 0 => [d EXCEPT !.pause = n] = d
    BY <1>1 DEF Decoders
<1> QED BY <1>1, <1>2, <1>3, Zenon DEF Pausing

\* Its first byte starts the count, whatever follows only counts down.
LEMMA PauseStarts ==
    ASSUME NEW down, NEW capsOn \in BOOLEAN
    PROVE  Handle(Flags(down, capsOn), Byte(PausePrefix, FALSE)) =
              <<Pausing(down, capsOn, PauseLength), Nothing>>
<1>1. PICK d \in Decoders : d = Flags(down, capsOn) /\ d.pause = 0 /\ ~d.extended
    BY FlagsSay, Zenon
<1>2. PICK b : b = Byte(PausePrefix, FALSE) /\ b.code = PausePrefix
    <2>1. Byte(PausePrefix, FALSE).code = PausePrefix
        BY ByteFields, Zenon
    <2> QED BY <2>1, Zenon
<1>3. ~(d.pause > 0)
    BY <1>1
<1>4. PausePrefix \notin Codes /\ Extended # PausePrefix
    BY KeyboardAssumption
<1>5. Handle(d, b) = <<[d EXCEPT !.pause = PauseLength, !.extended = FALSE], Nothing>>
    BY <1>1, <1>2, <1>3, <1>4, Zenon DEF Handle
<1>6. [d EXCEPT !.pause = PauseLength, !.extended = FALSE] = [d EXCEPT !.pause = PauseLength]
    BY <1>1, Zenon DEF Decoders
<1> QED BY <1>1, <1>2, <1>5, <1>6, Zenon DEF Pausing

\* Each byte of Pause is skipped and counted.
LEMMA PauseCounts ==
    ASSUME NEW down, NEW capsOn \in BOOLEAN, NEW n \in 1 .. PauseLength, NEW b \in Bytes
    PROVE  Handle(Pausing(down, capsOn, n), b) = <<Pausing(down, capsOn, n - 1), Nothing>>
<1>0. n \in 0 .. PauseLength
    OBVIOUS
<1>1. PICK d \in Decoders : d = Pausing(down, capsOn, n) /\ d.pause = n
    BY <1>0, PausingType, Zenon
<1>2. PICK c \in Decoders : c = Flags(down, capsOn)
    BY FlagsType, Zenon
<1>3. d.pause > 0 /\ d.pause # 0
    BY <1>1
<1>4. Handle(d, b) = <<[d EXCEPT !.pause = @ - 1], Nothing>>
    BY <1>3, Zenon DEF Handle
<1>5. d = [c EXCEPT !.pause = n]
    BY <1>1, <1>2, Zenon DEF Pausing
<1>6. [d EXCEPT !.pause = @ - 1] = [c EXCEPT !.pause = n - 1]
    BY <1>5, Zenon DEF Decoders
<1> QED BY <1>1, <1>2, <1>4, <1>6, Zenon DEF Pausing

\* Pause is its prefix with PauseLength bytes behind it, all from the keyboard.
LEMMA PauseFields ==
    /\ PauseSequence \in Seq(Bytes) /\ Len(PauseSequence) = PauseLength + 1
    /\ PauseSequence[1] = Byte(PausePrefix, FALSE)
    /\ \A k \in 1 .. PauseLength + 1 : PauseSequence[k] \in Bytes /\ PauseSequence[k].port = 1
<1> DEFINE item(i) == IF i = 3 THEN Byte(PausePrefix, FALSE) ELSE Byte(Control, i > 3)
           first == Byte(PausePrefix, FALSE)
           rest == [i \in 1 .. PauseLength |-> item(i)]
<1>1. first \in Bytes /\ \A i \in 1 .. PauseLength : item(i) \in Bytes /\ item(i).port = 1
    <2>1. Control \in Codes
        BY ModifiersDiffer
    <2>2. Byte(Control, TRUE) \in Bytes /\ Byte(Control, FALSE) \in Bytes
          /\ Byte(PausePrefix, FALSE) \in Bytes
        BY <2>1, ByteType, Zenon
    <2>3. \A i \in 1 .. PauseLength : (i > 3) \in BOOLEAN
        OBVIOUS
    <2>4. \A i \in 1 .. PauseLength : item(i) \in Bytes
        BY <2>2, <2>3, Zenon
    <2>5. ASSUME NEW i PROVE item(i).port = 1
        <3>1. CASE i = 3
            BY <3>1, ByteFields, Zenon
        <3>2. CASE i # 3
            BY <3>2, Zenon DEF Byte
        <3> QED BY <3>1, <3>2, Zenon
    <2> QED BY <2>2, <2>4, <2>5, Zenon
<1>2. first.port = 1
    BY ByteFields, Zenon
<1>3. PauseSequence = <<first>> \o rest
    BY Zenon DEF PauseSequence
<1> HIDE DEF item, first
<1>4. /\ rest \in Seq(Bytes) /\ Len(rest) = PauseLength
      /\ \A i \in 1 .. PauseLength : rest[i] \in Bytes /\ rest[i].port = 1
    BY <1>1, KeyboardAssumption
<1> HIDE DEF rest
<1>5. <<first>> \in Seq(Bytes) /\ Len(<<first>>) = 1 /\ <<first>>[1] = first
    BY <1>1
<1>6. PauseLength \in Nat
    BY KeyboardAssumption
<1>7. PICK one \in Seq(Bytes) : one = <<first>> /\ Len(one) = 1 /\ one[1] = first
    BY <1>5, Zenon
<1>8. /\ one \o rest \in Seq(Bytes) /\ Len(one \o rest) = Len(one) + Len(rest)
      /\ \A k \in 1 .. Len(one) + Len(rest) :
            (one \o rest)[k] = IF k <= Len(one) THEN one[k] ELSE rest[k - Len(one)]
    BY <1>4, ConcatFacts, Zenon
<1>9. \A k \in 1 .. PauseLength + 1 :
         (one \o rest)[k] = IF k <= 1 THEN one[k] ELSE rest[k - 1]
    BY <1>4, <1>6, <1>7, <1>8
<1>10. (one \o rest)[1] = first
    BY <1>6, <1>7, <1>9
<1>11. ASSUME NEW k \in 1 .. PauseLength + 1
       PROVE  (one \o rest)[k] \in Bytes /\ (one \o rest)[k].port = 1
    <2>1. CASE k = 1
        BY <1>1, <1>2, <1>10, <2>1, Zenon
    <2>2. CASE k # 1
        <3>1. k - 1 \in 1 .. PauseLength /\ ~(k <= 1)
            BY <1>6, <2>2
        <3>2. (one \o rest)[k] = rest[k - 1]
            BY <1>9, <3>1, Zenon
        <3> QED BY <1>4, <3>1, <3>2, Zenon
    <2> QED BY <2>1, <2>2, Zenon
<1>12. Len(one \o rest) = PauseLength + 1
    BY <1>4, <1>6, <1>7, <1>8
<1> QED BY <1>3, <1>7, <1>8, <1>10, <1>11, <1>12, Zenon DEF first

\* The Pause key leaves the flags as they were.
LEMMA PauseDecodes ==
    ASSUME NEW down, NEW capsOn \in BOOLEAN
    PROVE  Decodes(Flags(down, capsOn), Items(PauseSequence, Nothing), Flags(down, capsOn))
<1> DEFINE n == PauseLength + 1
           f == [k \in 0 .. n |-> IF k = 0 THEN Flags(down, capsOn)
                                  ELSE Pausing(down, capsOn, n - k)]
<1>1. PauseLength \in Nat /\ PauseLength > 0
    BY KeyboardAssumption
<1>2. \A k \in 1 .. n : n - k \in 0 .. PauseLength
    BY <1>1
<1>3. \A k \in 1 .. n : Pausing(down, capsOn, n - k) \in Decoders
    BY <1>2, PausingType, Zenon
<1>4. /\ f \in [0 .. n -> Decoders] /\ f[0] = Flags(down, capsOn)
      /\ \A k \in 1 .. n : f[k] = Pausing(down, capsOn, n - k)
    <2>1. Flags(down, capsOn) \in Decoders
        BY FlagsType, Zenon
    <2>2. 0 \in 0 .. n /\ \A k \in 0 .. n : k # 0 => k \in 1 .. n
        BY <1>1
    <2>3. \A k \in 1 .. n : k \in 0 .. n /\ k # 0
        BY <1>1
    <2> HIDE DEF n
    <2> QED BY <1>3, <2>1, <2>2, <2>3, Zenon
<1> HIDE DEF f
<1>5. f[n] = Flags(down, capsOn)
    <2>1. n \in 1 .. n /\ n - n = 0 /\ 0 \in 0 .. PauseLength
        BY <1>1
    <2>2. f[n] = Pausing(down, capsOn, 0)
        BY <1>4, <2>1
    <2> QED BY <2>1, <2>2, PausingType, Zenon
<1>6. ASSUME NEW k \in 1 .. n
      PROVE  Handle(f[k - 1], PauseSequence[k]) = <<f[k], Nothing>>
    <2>1. CASE k = 1
        <3>1. f[k] = Pausing(down, capsOn, PauseLength)
            BY <1>1, <1>4, <2>1
        <3>2. k - 1 = 0
            BY <2>1
        <3> QED BY <1>4, <2>1, <3>1, <3>2, PauseFields, PauseStarts, Zenon
    <2>2. CASE k # 1
        <3>1. PICK m \in 1 .. PauseLength : m = n - (k - 1) /\ m - 1 = n - k
            BY <1>1, <2>2
        <3>2. k - 1 \in 1 .. n
            BY <1>1, <2>2
        <3>3. f[k - 1] = Pausing(down, capsOn, m) /\ f[k] = Pausing(down, capsOn, m - 1)
            BY <1>4, <3>1, <3>2, Zenon
        <3>4. PauseSequence[k] \in Bytes
            BY PauseFields, Zenon
        <3>5. Handle(Pausing(down, capsOn, m), PauseSequence[k]) =
                 <<Pausing(down, capsOn, m - 1), Nothing>>
            BY <3>4, PauseCounts, Zenon
        <3> QED BY <3>3, <3>5, Zenon
    <2> QED BY <2>1, <2>2, Zenon
<1>7. Len(PauseSequence) = n /\ PauseSequence \in Seq(Bytes)
    BY PauseFields, Zenon
<1>8. \A k \in 1 .. n : PauseSequence[k].port = 1
    BY PauseFields, Zenon
<1> HIDE DEF n
<1>9. \A k \in 1 .. Len(PauseSequence) :
         /\ PauseSequence[k].port = 1
         /\ Handle(f[k - 1], PauseSequence[k]) =
               <<f[k], IF k = Len(PauseSequence) THEN Nothing ELSE Nothing>>
    BY <1>6, <1>7, <1>8, Zenon
<1>10. f \in [0 .. Len(PauseSequence) -> Decoders] /\ f[Len(PauseSequence)] = f[n]
    BY <1>4, <1>7, Zenon
<1> QED BY <1>4, <1>5, <1>7, <1>9, <1>10, BytesDecode, Zenon

-----------------------------------------------------------------------------
(***************************************************************************)
(* Every step keeps the bytes on the line in step with the keys.           *)
(***************************************************************************)
LEMMA InitInStep == Init => InStep
<1> SUFFICES ASSUME Init PROVE InStep
    OBVIOUS
<1>1. wire = <<>> /\ held = {} /\ caps = FALSE
    BY DEF Init
<1>2. decoder \in Decoders
    BY InitTypes, Zenon DEF TypeOK
<1>3. decoder = Flags(held, caps)
    <2>1. /\ ~decoder.leftShift /\ ~decoder.rightShift /\ ~decoder.leftCtrl
          /\ ~decoder.rightCtrl /\ ~decoder.capsLock /\ ~decoder.extended
          /\ decoder.pause = 0
        BY DEF Init
    <2>2. PICK d : d = Flags(held, caps)
        BY Zenon
    <2>3. /\ d \in Decoders
          /\ ~d.leftShift /\ ~d.rightShift /\ ~d.leftCtrl
          /\ ~d.rightCtrl /\ ~d.capsLock /\ ~d.extended /\ d.pause = 0
        <3>1. caps \in BOOLEAN
            BY <1>1, Zenon
        <3>2. /\ d \in Decoders
              /\ d.leftShift <=> <<FALSE, LeftShift>> \in held
              /\ d.rightShift <=> <<FALSE, RightShift>> \in held
              /\ d.leftCtrl <=> <<FALSE, Control>> \in held
              /\ d.rightCtrl <=> <<TRUE, Control>> \in held
              /\ d.capsLock <=> caps
              /\ ~d.extended /\ d.pause = 0
            BY <2>2, <3>1, FlagsSay, Zenon
        <3> QED BY <1>1, <3>2, Zenon
    <2>4. decoder = d
        BY <1>2, <2>1, <2>3, FlagsEqual, Zenon
    <2> QED BY <2>2, <2>4, Zenon
<1> DEFINE f == [k \in 0 .. 0 |-> decoder]
<1>4. Len(wire) = 0 /\ f \in [0 .. 0 -> Decoders] /\ f[0] = decoder
    BY <1>1, <1>2
<1> HIDE DEF f
<1>5. \A k \in 1 .. Len(wire) : Taken(f[k - 1], wire[k]) = <<f[k], wire[k].meant>>
    BY <1>4
<1> QED BY <1>3, <1>4, <1>5, Zenon DEF InStep, Decodes

\* A key, given the bytes of it and what they do.
LEMMA KeySent ==
    ASSUME TypeOK, InStep, NEW bytes \in Seq(Bytes), NEW meaning \in Characters \cup {Nothing},
           Send(bytes, meaning),
           Decodes(Flags(held, caps), Items(bytes, meaning), Flags(held', caps'))
    PROVE  InStep'
<1>1. Decodes(decoder, wire, Flags(held, caps)) /\ wire \in Seq(WireItems)
    BY Zenon DEF InStep, TypeOK
<1>2. Decodes(decoder, wire', Flags(held', caps'))
    BY <1>1, SendDecodes, Zenon
<1>3. decoder' = decoder
    BY Zenon DEF Send
<1> QED BY <1>2, <1>3, Zenon DEF InStep

\* A release goes behind the line with the flags of the keys that stay down.
LEMMA ReleaseInStep ==
    ASSUME TypeOK, InStep, NEW key \in Keys, Release(key)
    PROVE  InStep'
<1>1. PICK prefix \in BOOLEAN, code \in Codes : key = <<prefix, code>>
    BY KeyboardAssumption
<1>2. /\ held' = Held(held, key, TRUE) /\ caps' = caps
      /\ Sent(held, key, TRUE, caps) = Nothing /\ Send(Scancode(key, TRUE), Nothing)
    BY Zenon DEF Release, Held, Sent
<1>3. Scancode(key, TRUE) \in Seq(Bytes)
    BY KeyboardAssumption, ScancodeType, Zenon
<1>4. caps \in BOOLEAN
    BY Zenon DEF TypeOK
<1>5. Decodes(Flags(held, caps), Items(Scancode(key, TRUE), Nothing), Flags(held', caps'))
    <2>1. CASE prefix = TRUE
        <3>1. Decodes(Flags(held, caps),
                      Items(Scancode(<<TRUE, code>>, TRUE), Sent(held, <<TRUE, code>>, TRUE, caps)),
                      Flags(Held(held, <<TRUE, code>>, TRUE), caps))
            BY <1>4, PrefixedKeyDecodes, Zenon
        <3> QED BY <1>1, <1>2, <2>1, <3>1, Zenon
    <2>2. CASE prefix = FALSE
        <3>1. Decodes(Flags(held, caps),
                      Items(Scancode(<<FALSE, code>>, TRUE), Sent(held, <<FALSE, code>>, TRUE, caps)),
                      Flags(Held(held, <<FALSE, code>>, TRUE), CapsAfter(code, TRUE, caps)))
            BY <1>4, PlainKeyDecodes, Zenon
        <3>2. CapsAfter(code, TRUE, caps) = caps
            BY Zenon DEF CapsAfter
        <3> QED BY <1>1, <1>2, <2>2, <3>1, <3>2, Zenon
    <2> QED BY <2>1, <2>2, Zenon
<1> QED BY <1>2, <1>3, <1>5, KeySent, Zenon

\* A press, with its fake shift where the keyboard sends one, keeps the line in step.
LEMMA PressInStep ==
    ASSUME TypeOK, InStep, NEW key \in Keys, Press(key)
    PROVE  InStep'
<1>1. PICK prefix \in BOOLEAN, code \in Codes : key = <<prefix, code>>
    BY KeyboardAssumption
<1>2. PICK fake \in FakeShifts : Send(fake \o Scancode(key, FALSE), Meaning(key, held', caps))
    <2>1. <<>> \in FakeShifts
        BY Zenon DEF FakeShifts
    <2> QED BY <2>1, Zenon DEF Press
<1>3. held' = Held(held, key, FALSE) /\ Meaning(key, held', caps) = Sent(held, key, FALSE, caps)
    BY Zenon DEF Press, Held, Sent
<1>4. key \in BOOLEAN \X Codes
    BY KeyboardAssumption
<1>5. /\ Scancode(key, FALSE) \in Seq(Bytes)
      /\ Sent(held, key, FALSE, caps) \in Characters \cup {Nothing}
    BY <1>4, ScancodeType, SentType, Zenon
<1>6. caps \in BOOLEAN
    BY Zenon DEF TypeOK
<1>7. Decodes(Flags(held, caps), Items(Scancode(key, FALSE), Sent(held, key, FALSE, caps)),
              Flags(held', caps'))
    <2>1. CASE prefix = TRUE
        <3>1. Decodes(Flags(held, caps),
                      Items(Scancode(<<TRUE, code>>, FALSE), Sent(held, <<TRUE, code>>, FALSE, caps)),
                      Flags(Held(held, <<TRUE, code>>, FALSE), caps))
            BY <1>6, PrefixedKeyDecodes, Zenon
        <3>2. key # <<FALSE, CapsLock>>
            BY <1>1, <2>1
        <3>3. caps' = caps
            BY <1>6, <3>2, Zenon DEF Press
        <3> QED BY <1>1, <1>3, <2>1, <3>1, <3>3, Zenon
    <2>2. CASE prefix = FALSE
        <3>1. Decodes(Flags(held, caps),
                      Items(Scancode(<<FALSE, code>>, FALSE), Sent(held, <<FALSE, code>>, FALSE, caps)),
                      Flags(Held(held, <<FALSE, code>>, FALSE), CapsAfter(code, FALSE, caps)))
            BY <1>6, PlainKeyDecodes, Zenon
        <3>2. key = <<FALSE, CapsLock>> <=> code = CapsLock
            BY <1>1, <2>2, Zenon
        <3>3. caps' = CapsAfter(code, FALSE, caps)
            BY <1>6, <3>2, Zenon DEF Press, CapsAfter
        <3> QED BY <1>1, <1>3, <2>2, <3>1, <3>3, Zenon
    <2> QED BY <2>1, <2>2, Zenon
<1>8. /\ fake \in Seq(Bytes)
      /\ Decodes(Flags(held, caps), Items(fake, Nothing), Flags(held, caps))
    BY <1>6, FakeDecodes, Zenon
<1>9. Scancode(key, FALSE) # <<>>
    <2>1. PICK first \in Bytes : first = Byte(Extended, FALSE)
        BY ByteType, Zenon
    <2>2. PICK last : last = Byte(key[2], FALSE)
        BY Zenon
    <2>3. Scancode(key, FALSE) = (IF key[1] THEN <<first>> ELSE <<>>) \o <<last>>
        BY <2>1, <2>2, Zenon DEF Scancode
    <2>4. <<first>> \o <<last>> # <<>> /\ <<>> \o <<last>> # <<>>
        OBVIOUS
    <2> QED BY <2>3, <2>4, Zenon
<1>10. PICK meaning \in Characters \cup {Nothing} : meaning = Sent(held, key, FALSE, caps)
    BY <1>5, Zenon
<1>11. PICK bytes \in Seq(Bytes) : bytes = fake \o Scancode(key, FALSE)
    BY <1>5, <1>8, ConcatFacts, Zenon
<1>12. Items(bytes, meaning) = Items(fake, Nothing) \o Items(Scancode(key, FALSE), meaning)
    BY <1>5, <1>8, <1>9, <1>11, ItemsBoth, Zenon
<1>13. Items(fake, Nothing) \in Seq(WireItems) /\ Items(Scancode(key, FALSE), meaning) \in Seq(WireItems)
    BY <1>5, <1>8, ItemsFields, Zenon
<1>14. Decodes(Flags(held, caps), Items(fake, Nothing) \o Items(Scancode(key, FALSE), meaning),
               Flags(held', caps'))
    BY <1>7, <1>8, <1>10, <1>13, DecodesBoth, Zenon
<1> QED BY <1>2, <1>3, <1>10, <1>11, <1>12, <1>14, KeySent, Zenon

\* Pause leads the decoder back to where it was.
LEMMA PauseInStep ==
    ASSUME TypeOK, InStep, PressPause
    PROVE  InStep'
<1>1. held' = held /\ caps' = caps /\ Send(PauseSequence, Nothing) /\ caps \in BOOLEAN
    BY Zenon DEF PressPause, TypeOK
<1>2. Decodes(Flags(held, caps), Items(PauseSequence, Nothing), Flags(held', caps'))
    BY <1>1, PauseDecodes, Zenon
<1> QED BY <1>1, <1>2, PauseFields, KeySent, Zenon

\* Bytes of the mouse are not decoded.
LEMMA MouseInStep ==
    ASSUME TypeOK, InStep, MouseMoves
    PROVE  InStep'
<1>1. PICK item : item = [byte |-> MouseByte, meant |-> Nothing]
    BY Zenon
<1>2. item \in WireItems /\ item.byte.port = 2 /\ item.meant = Nothing
    BY <1>1 DEF WireItems, MouseByte, Bytes
<1>3. decoder \in Decoders /\ wire \in Seq(WireItems)
    BY Zenon DEF TypeOK
<1>4. Taken(decoder, item) = <<decoder, Nothing>>
    BY <1>2, Zenon DEF Taken
<1>5. Decodes(decoder, <<item>>, decoder)
    <2> DEFINE f == [k \in 0 .. 1 |-> decoder]
               w == <<item>>
    <2>1. f \in [0 .. 1 -> Decoders] /\ f[0] = decoder /\ f[1] = decoder
        BY <1>3
    <2>2. Len(w) = 1 /\ w[1] = item
        OBVIOUS
    <2> HIDE DEF f, w
    <2>3. \A k \in 1 .. Len(w) : Taken(f[k - 1], w[k]) = <<f[k], w[k].meant>>
        <3> SUFFICES ASSUME NEW k \in 1 .. 1
                     PROVE  Taken(f[k - 1], w[k]) = <<f[k], w[k].meant>>
            BY <2>2
        <3>1. k = 1 /\ k - 1 = 0
            OBVIOUS
        <3> QED BY <1>2, <1>4, <2>1, <2>2, <3>1, Zenon
    <2>4. Decodes(decoder, w, decoder)
        BY <2>1, <2>2, <2>3, Zenon DEF Decodes
    <2> QED BY <2>4, Zenon DEF w
<1>6. Decodes(decoder, <<item>> \o wire, Flags(held, caps))
    <2>1. <<item>> \in Seq(WireItems)
        BY <1>2
    <2> QED BY <1>3, <1>5, <2>1, DecodesBoth, Zenon DEF InStep
<1>7. wire' = <<item>> \o wire /\ decoder' = decoder /\ held' = held /\ caps' = caps
    BY <1>1, Zenon DEF MouseMoves
<1> QED BY <1>6, <1>7, Zenon DEF InStep

\* The handler takes the first byte and pushes what is meant by it.
LEMMA FirstTaken ==
    ASSUME TypeOK, InStep, KeyIrq, wire # <<>>
    PROVE  /\ wire' = Tail(wire) /\ BufferPush(Head(wire).meant)
           /\ Decodes(decoder', Tail(wire), Flags(held, caps))
<1>1. wire \in Seq(WireItems) /\ Decodes(decoder, wire, Flags(held, caps))
    BY Zenon DEF TypeOK, InStep
<1>2. PICK c \in Decoders : /\ Taken(decoder, Head(wire)) = <<c, Head(wire).meant>>
                            /\ Decodes(c, Tail(wire), Flags(held, caps))
    BY <1>1, DecodesFirst, Zenon
<1>3. wire' = Tail(wire)
    BY Zenon DEF KeyIrq
<1>4. CASE Head(wire).byte.port = 2
    <2>1. decoder' = decoder /\ UNCHANGED ring
        BY <1>4, Zenon DEF KeyIrq
    <2>2. <<decoder, Nothing>> = <<c, Head(wire).meant>>
        BY <1>2, <1>4, Zenon DEF Taken
    <2>3. decoder = c /\ Head(wire).meant = Nothing
        BY <2>2
    <2>4. BufferPush(Head(wire).meant)
        BY <2>1, <2>3, Zenon DEF BufferPush
    <2> QED BY <1>2, <1>3, <2>1, <2>3, <2>4, Zenon
<1>5. CASE Head(wire).byte.port # 2
    <2>1. PICK handled : handled = Handle(decoder, Head(wire).byte)
        BY Zenon
    <2>2. decoder' = handled[1] /\ BufferPush(handled[2])
        BY <1>5, <2>1, Zenon DEF KeyIrq
    <2>3. handled = <<c, Head(wire).meant>>
        BY <1>2, <1>5, <2>1, Zenon DEF Taken
    <2>4. handled[1] = c /\ handled[2] = Head(wire).meant
        BY <2>3
    <2> QED BY <1>2, <1>3, <2>2, <2>4, Zenon
<1> QED BY <1>4, <1>5, Zenon

\* Every step keeps the line, the decoder and the keys in step.
LEMMA NextInStep == TypeOK /\ InStep /\ [Next]_vars => InStep'
<1> SUFFICES ASSUME TypeOK, InStep, [Next]_vars PROVE InStep'
    BY Zenon
<1>1. ASSUME NEW key \in Keys, Press(key) PROVE InStep'
    BY <1>1, PressInStep, Zenon
<1>2. ASSUME NEW key \in Keys, Release(key) PROVE InStep'
    BY <1>2, ReleaseInStep, Zenon
<1>3. CASE PressPause
    BY <1>3, PauseInStep, Zenon
<1>4. CASE MouseMoves
    BY <1>4, MouseInStep, Zenon
<1>5. CASE UNCHANGED <<held, caps, wire, decoder>>
    <2>1. held' = held /\ caps' = caps /\ wire' = wire /\ decoder' = decoder
        BY <1>5
    <2> QED BY <2>1, Zenon DEF InStep
<1>6. CASE KeyIrq
    <2>1. held' = held /\ caps' = caps
        BY <1>6, Zenon DEF KeyIrq
    <2>2. CASE wire = <<>>
        BY <1>5, <1>6, <2>1, <2>2, Zenon DEF KeyIrq
    <2>3. CASE wire # <<>>
        <3>1. wire' = Tail(wire) /\ Decodes(decoder', Tail(wire), Flags(held, caps))
            BY <1>6, <2>3, FirstTaken, Zenon
        <3> QED BY <2>1, <3>1, Zenon DEF InStep
    <2> QED BY <2>2, <2>3, Zenon
<1>7. ASSUME NEW p \in Processes, Tick(p) \/ Read(p) \/ Step(p) PROVE InStep'
    <2>1. UNCHANGED <<keys, decoder>>
        BY <1>7, Zenon DEF Tick, Read, Step, Deliver, Enable, Halt, Disable
    <2> QED BY <1>5, <2>1, Zenon DEF keys
<1>8. CASE UNCHANGED vars
    <2>1. UNCHANGED <<held, caps, wire, decoder>>
        BY <1>8 DEF vars
    <2> QED BY <1>5, <2>1
<1> QED BY <1>1, <1>2, <1>3, <1>4, <1>6, <1>7, <1>8, Zenon DEF Next, Typing

\* Once the handler has taken every byte, its flags agree with the keys that
\* are down, whatever keys were pressed in whatever order and however the bytes
\* of the second port fell between theirs: no prefix, fake shift or byte of the
\* Pause key leaves a modifier stuck (keyboard_handle_irq).
THEOREM FlagsInStep == Spec => []ModifiersInStep
<1>1. TypeOK /\ InStep => ModifiersInStep
    <2> SUFFICES ASSUME InStep, wire = <<>> PROVE decoder = Flags(held, caps)
        BY Zenon DEF ModifiersInStep
    <2>1. Len(wire) = 0
        OBVIOUS
    <2> QED BY <2>1, Zenon DEF InStep, Decodes
<1> QED BY <1>1, InitInStep, NextInStep, KeyboardTypes, PTL DEF Spec

\* The ring is full when the next index to write is the next to read.
LEMMA FullRing ==
    ASSUME TypeOK
    PROVE  Successor(head) = tail <=> Len(Queue) = BufferSize - 1
<1>1. /\ BufferSize \in Nat /\ BufferSize >= 2
      /\ head \in 0 .. BufferSize - 1 /\ tail \in 0 .. BufferSize - 1
    BY KeyboardAssumption DEF TypeOK
<1>2. Len(Queue) = Filled
    BY QueueType
<1>3. Filled = IF head < tail THEN head - tail + BufferSize ELSE head - tail
    BY FilledResult
<1>4. Successor(head) = IF head = BufferSize - 1 THEN 0 ELSE head + 1
    BY <1>1, SuccessorResult
<1> QED BY <1>1, <1>2, <1>3, <1>4

\* Only the handler takes a byte from the line.
LEMMA OnlyIrqTakes ==
    ASSUME TypeOK, [Next]_vars, wire # <<>>, wire' = Tail(wire)
    PROVE  KeyIrq
<1>1. wire \in Seq(WireItems) /\ Len(wire') < Len(wire)
    BY DEF TypeOK
<1>2. ASSUME NEW bytes \in Seq(Bytes), NEW meaning \in Characters \cup {Nothing},
             Send(bytes, meaning)
      PROVE  FALSE
    <2>1. PICK items \in Seq(WireItems) : items = Items(bytes, meaning)
        BY <1>2, ItemsFields, Zenon
    <2>2. wire' = wire \o items
        BY <1>2, <2>1, Zenon DEF Send, Items
    <2>3. Len(wire \o items) = Len(wire) + Len(items)
        BY <1>1, ConcatFacts, Zenon
    <2>4. Len(wire) \in Nat /\ Len(items) \in Nat
        BY <1>1
    <2> QED BY <1>1, <2>2, <2>3, <2>4
<1>3. ASSUME NEW key \in Keys, Press(key) PROVE FALSE
    <2>1. PICK fake \in FakeShifts : Send(fake \o Scancode(key, FALSE), Meaning(key, held', caps))
        <3>1. <<>> \in FakeShifts
            BY Zenon DEF FakeShifts
        <3> QED BY <1>3, <3>1, Zenon DEF Press
    <2>2. key \in BOOLEAN \X Codes
        BY KeyboardAssumption
    <2>3. fake \in Seq(Bytes) /\ Scancode(key, FALSE) \in Seq(Bytes)
        BY <2>2, FakeDecodes, ScancodeType, Zenon
    <2>4. fake \o Scancode(key, FALSE) \in Seq(Bytes)
        BY <2>3, ConcatFacts, Zenon
    <2>5. Meaning(key, held', caps) \in Characters \cup {Nothing}
        BY <2>2, MeaningType, Zenon
    <2> QED BY <1>2, <2>1, <2>4, <2>5, Zenon
<1>4. ASSUME NEW key \in Keys, Release(key) PROVE FALSE
    <2>1. key \in BOOLEAN \X Codes
        BY KeyboardAssumption
    <2> QED BY <1>2, <1>4, <2>1, ScancodeType, Zenon DEF Release
<1>5. CASE PressPause
    BY <1>2, <1>5, PauseType, Zenon DEF PressPause
<1>6. CASE MouseMoves
    <2>1. PICK item : item = [byte |-> MouseByte, meant |-> Nothing]
        BY Zenon
    <2>2. item \in WireItems
        BY <2>1 DEF WireItems, MouseByte, Bytes
    <2>3. wire' = <<item>> \o wire
        BY <1>6, <2>1, Zenon DEF MouseMoves
    <2>4. Len(wire') = 1 + Len(wire) /\ Len(wire) \in Nat
        BY <1>1, <2>2, <2>3
    <2> QED BY <1>1, <2>4
<1>7. ASSUME wire' = wire PROVE FALSE
    <2>1. Len(wire) \in Nat
        BY <1>1
    <2> QED BY <1>1, <1>7, <2>1
<1>8. ASSUME NEW p \in Processes, Tick(p) \/ Read(p) \/ Step(p) PROVE FALSE
    <2>1. UNCHANGED keys
        BY <1>8, Zenon DEF Tick, Read, Step, Deliver, Enable, Halt, Disable
    <2>2. wire' = wire
        BY <2>1 DEF keys
    <2> QED BY <1>7, <2>2, Zenon
<1>9. CASE UNCHANGED vars
    <2>1. wire' = wire
        BY <1>9 DEF vars
    <2> QED BY <1>7, <2>1
<1> QED BY <1>3, <1>4, <1>5, <1>6, <1>8, <1>9, Zenon DEF Next, Typing

\* The interrupt that takes the last byte of a key pushes the character it means.
LEMMA StepTypes == TypeOK /\ TypeOK' /\ InStep /\ [Next]_vars => ByteTyped
<1> SUFFICES ASSUME TypeOK, TypeOK', InStep, [Next]_vars, wire # <<>>, wire' = Tail(wire),
                    NEW meant, meant = Head(wire).meant
             PROVE  Queue' = IF meant = Nothing \/ Len(Queue) = BufferSize - 1
                             THEN Queue ELSE Append(Queue, meant)
    BY Zenon DEF ByteTyped
<1>1. BufferPush(meant)
    BY OnlyIrqTakes, FirstTaken, Zenon
<1>2. CASE meant = Nothing \/ Successor(head) = tail
    <2>1. UNCHANGED ring
        BY <1>1, <1>2, Zenon DEF BufferPush
    <2>2. Queue' = Queue
        BY <2>1, Zenon DEF ring, Queue
    <2>3. meant = Nothing \/ Len(Queue) = BufferSize - 1
        BY <1>2, FullRing, Zenon
    <2> QED BY <2>2, <2>3, Zenon
<1>3. CASE meant # Nothing /\ Successor(head) # tail
    <2>1. Len(Queue) # BufferSize - 1
        BY <1>3, FullRing, Zenon
    <2>2. meant \in Characters
        <3>1. Head(wire) \in WireItems
            BY HeadTailFacts, Zenon DEF TypeOK
        <3> QED BY <1>3, <3>1 DEF WireItems
    <2>3. Queue' = Append(Queue, meant)
        BY <1>1, <1>3, <2>2, PushAppends, Zenon DEF BufferPush
    <2> QED BY <1>3, <2>1, <2>3, Zenon
<1> QED BY <1>2, <1>3, Zenon

\* What keyboard_handle_irq puts into the ring for a byte is what the person
\* meant by it when it was sent, with the modifiers as they were then, however
\* far the line runs ahead of the handler and for every size of the ring; a
\* character is dropped only when the ring is full.
THEOREM KeysAsMeant == Spec => TypedAsMeant
<1>1. TypeOK /\ TypeOK' /\ InStep /\ [Next]_vars => [ByteTyped]_vars
    BY StepTypes, Zenon
<1> QED BY <1>1, InitInStep, NextInStep, KeyboardTypes, PTL DEF Spec, TypedAsMeant
=============================================================================
