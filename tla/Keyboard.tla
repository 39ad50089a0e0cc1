------------------------------ MODULE Keyboard ------------------------------
(***************************************************************************)
(* Keyboard input: the keys that a person presses, the scan codes that     *)
(* they put on the line to the PS/2 controller, the IRQ 1 handler of       *)
(* kernel/drivers/keyboard.c that decodes them into a ring of characters,  *)
(* and the processes that wait for a character in syscall_read             *)
(* (kernel/core/syscall.c).                                                *)
(*                                                                         *)
(* A waiting process runs with interrupts off except between the sti and   *)
(* the cli of its loop.  The handler can therefore run after the ring was  *)
(* found empty and before the hlt, and the process then halts although     *)
(* there is a character; the timer wakes it.                               *)
(***************************************************************************)
EXTENDS Integers, Sequences, FiniteSets

CONSTANTS Letters,        \* codes with a letter in normal_map
          Symbols,        \* codes with another character in both maps
          Plains,         \* codes with a character in normal_map only
          Keypad,         \* codes that mean the same character after E0
          Navigation,     \* codes that are a special key after E0
          LeftShift, RightShift, Control, CapsLock,
          Extended, PausePrefix,  \* the bytes E0 and E1
          PauseLength,    \* SCANCODE_PAUSE_REMAINING, 5 in the code
          BufferSize,     \* KEYBOARD_BUFFER_SIZE, 128 in the code
          Keys,           \* what keys can exist: <<has the prefix E0, code>>
          HeldLimit,      \* bound of the instance: keys held at a time
          Backlog,        \* bound of the instance: bytes a key may queue behind
          Processes,
          Setups          \* bound of the instance: which keys the keyboard has,
                          \* Pause apart, and which processes read it

Modifiers == {LeftShift, RightShift, Control, CapsLock}

Codes == Letters \cup Symbols \cup Plains \cup Keypad \cup Navigation \cup Modifiers

ASSUME KeyboardAssumption ==
    /\ BufferSize \in Nat /\ BufferSize >= 2
    /\ PauseLength \in Nat \ {0}
    /\ Keys \subseteq BOOLEAN \X Codes
    /\ Processes # {}
    /\ Setups \subseteq [keys : SUBSET Keys, pause : BOOLEAN, readers : SUBSET Processes]
    /\ HeldLimit \in Nat /\ Backlog \in Nat
    /\ Extended \notin Codes /\ PausePrefix \notin Codes
    /\ Extended # PausePrefix
    /\ Letters \cap (Symbols \cup Plains) = {} /\ Symbols \cap Plains = {}
    /\ Keypad \subseteq Symbols \cup Plains
    /\ Navigation \cap Keypad = {}
    /\ Modifiers \cap (Letters \cup Symbols \cup Plains \cup Navigation) = {}
    /\ LeftShift \notin {RightShift, Control, CapsLock}
    /\ RightShift \notin {Control, CapsLock} /\ Control # CapsLock

Nothing == [form |-> "none", code |-> Extended]    \* the character '\0'

Character(form, code) == [form |-> form, code |-> code]

Forms == {"lower", "upper", "control", "plain", "shifted", "special"}

Characters == [form : Forms, code : Codes]

VARIABLES
    setup,     \* the setup of this behaviour
    held,      \* the keys that are down
    caps,      \* how often Caps Lock has been sent is odd
    wire,      \* bytes on their way to the handler, each with the character
               \* that the person means by it
    decoder,   \* the handler's flags, pause_bytes_remaining included
    buffer, head, tail,   \* input_buffer, input_head, input_tail
    running,   \* the process that has the CPU
    pc         \* where each process is: "user" outside of read, or a point of
               \* the loop in syscall_read

vars == <<setup, held, caps, wire, decoder, buffer, head, tail, running, pc>>

keys == <<setup, held, caps, wire>>
ring == <<buffer, head, tail>>

(***************************************************************************)
(* The keyboard, which is outside of the code.  A byte is a code with the  *)
(* release bit, or one of the two prefixes.                                *)
(***************************************************************************)
Byte(code, released) == [code |-> code, released |-> released, port |-> 1]

\* A byte of the second port, which the status register tells apart.
MouseByte == [code |-> Extended, released |-> FALSE, port |-> 2]

Scancode(key, released) ==
    (IF key[1] THEN <<Byte(Extended, FALSE)>> ELSE <<>>)
        \o <<Byte(key[2], released)>>

\* E1 1D 45 E1 9D C5: what follows the first byte has no meaning of its own.
PauseSequence ==
    <<Byte(PausePrefix, FALSE)>>
        \o [i \in 1 .. PauseLength |->
                IF i = 3 THEN Byte(PausePrefix, FALSE) ELSE Byte(Control, i > 3)]

\* The shift codes that a keyboard puts before a navigation key to undo Num
\* Lock or a shift key that is down.
FakeShifts == {<<>>} \cup {Scancode(<<TRUE, LeftShift>>, r) : r \in BOOLEAN}

\* What a key that goes down means, from the keys that are down.
Meaning(key, down, capsOn) ==
    LET code == key[2]
        shift == <<FALSE, LeftShift>> \in down \/ <<FALSE, RightShift>> \in down
        control == <<FALSE, Control>> \in down \/ <<TRUE, Control>> \in down
    IN  CASE key[1] /\ code \in Navigation -> Character("special", code)
          [] key[1] /\ code \in Keypad     -> Character("plain", code)
          [] ~key[1] /\ code \in Letters ->
                Character(IF control THEN "control"
                          ELSE IF shift # capsOn THEN "upper" ELSE "lower", code)
          [] ~key[1] /\ code \in Symbols ->
                Character(IF shift THEN "shifted" ELSE "plain", code)
          [] ~key[1] /\ code \in Plains -> Character("plain", code)
          [] OTHER -> Nothing

\* The last byte of a sequence carries its meaning.
Send(bytes, meaning) ==
    /\ Len(wire) <= Backlog
    /\ wire' = wire \o [i \in DOMAIN bytes |->
                            [byte |-> bytes[i],
                             meant |-> IF i = Len(bytes) THEN meaning ELSE Nothing]]
    /\ UNCHANGED <<setup, decoder, ring, running, pc>>

\* A key goes down, or is down and repeats.
Press(key) ==
    /\ key \in setup.keys
    /\ Cardinality(held \cup {key}) <= HeldLimit
    /\ held' = held \cup {key}
    /\ caps' = (caps # (key = <<FALSE, CapsLock>>))
    /\ \E fake \in IF key[1] /\ key[2] \in Navigation THEN FakeShifts ELSE {<<>>} :
          Send(fake \o Scancode(key, FALSE), Meaning(key, held', caps))

Release(key) ==
    /\ key \in held
    /\ held' = held \ {key}
    /\ Send(Scancode(key, TRUE), Nothing)
    /\ UNCHANGED caps

PressPause ==
    /\ setup.pause
    /\ Send(PauseSequence, Nothing)
    /\ UNCHANGED <<held, caps>>

\* The second port answers before the next byte of the keyboard.
MouseMoves ==
    /\ wire # <<>> => Head(wire).byte.port = 1
    /\ wire' = <<[byte |-> MouseByte, meant |-> Nothing]>> \o wire
    /\ UNCHANGED <<setup, held, caps, decoder, ring, running, pc>>

-----------------------------------------------------------------------------
(***************************************************************************)
(* The ring.                                                               *)
(***************************************************************************)
Successor(i) == (i + 1) % BufferSize

\* keyboard_buffer_push, which a character other than '\0' reaches.
BufferPushOverwriting(c) ==
    IF c = Nothing
    THEN UNCHANGED ring
    ELSE /\ buffer' = [buffer EXCEPT ![head] = c]
         /\ head' = Successor(head)
         /\ UNCHANGED tail

BufferPush(c) ==
    IF c = Nothing \/ Successor(head) = tail
    THEN UNCHANGED ring
    ELSE /\ buffer' = [buffer EXCEPT ![head] = c]
         /\ head' = Successor(head)
         /\ UNCHANGED tail

\* keyboard_try_read
TryRead ==
    /\ tail # head
    /\ tail' = Successor(tail)
    /\ UNCHANGED <<buffer, head>>

\* keyboard_handle_extended: the flags afterwards, and the character.
HandleExtended(d, byte) ==
    [d EXCEPT !.extended = FALSE,
              !.rightCtrl = IF byte.code = Control THEN ~byte.released ELSE @]

ExtendedCharacter(byte) ==
    CASE byte.released -> Nothing
      [] ~byte.released /\ byte.code \in Keypad -> Character("plain", byte.code)
      [] ~byte.released /\ byte.code \in Navigation -> Character("special", byte.code)
      [] OTHER -> Nothing

\* The character of a code that is no modifier and no release.
DecodedEither(d, code) ==
    IF code \in Letters
    THEN Character(IF d.leftCtrl \/ d.rightCtrl THEN "control"
                   ELSE IF d.leftShift \/ d.rightShift \/ d.capsLock
                        THEN "upper" ELSE "lower", code)
    ELSE IF code \in Symbols
         THEN Character(IF d.leftShift \/ d.rightShift THEN "shifted" ELSE "plain", code)
         ELSE IF code \in Plains THEN Character("plain", code) ELSE Nothing

Decoded(d, code) ==
    LET shift == d.leftShift \/ d.rightShift
        ctrl == d.leftCtrl \/ d.rightCtrl
        mapped == IF shift /\ code \in Symbols
                  THEN Character("shifted", code)
                  ELSE IF code \in Letters
                       THEN Character("lower", code)
                       ELSE IF code \in Symbols \cup Plains
                            THEN Character("plain", code) ELSE Nothing
        controlled == IF ctrl /\ code \in Letters
                      THEN Character("control", code) ELSE mapped
    IN  IF controlled.form = "lower" /\ shift # d.capsLock
        THEN Character("upper", code) ELSE controlled

\* The flags after a byte that no prefix applies to.
HandlePlain(d, byte) ==
    CASE byte.code = LeftShift  -> [d EXCEPT !.leftShift = ~byte.released]
      [] byte.code = RightShift -> [d EXCEPT !.rightShift = ~byte.released]
      [] byte.code = Control    -> [d EXCEPT !.leftCtrl = ~byte.released]
      [] byte.code = CapsLock   -> [d EXCEPT !.capsLock = (@ # ~byte.released)]
      [] OTHER -> d

\* keyboard_handle_irq with a byte of the first port: flags and character.
Handle(d, byte) ==
    CASE d.pause > 0 ->
            <<[d EXCEPT !.pause = @ - 1], Nothing>>
      [] d.pause = 0 /\ byte.code = PausePrefix ->
            <<[d EXCEPT !.pause = PauseLength, !.extended = FALSE], Nothing>>
      [] d.pause = 0 /\ byte.code = Extended ->
            <<[d EXCEPT !.extended = TRUE], Nothing>>
      [] d.pause = 0 /\ byte.code \in Codes /\ d.extended ->
            <<HandleExtended(d, byte), ExtendedCharacter(byte)>>
      [] d.pause = 0 /\ byte.code \in Codes /\ ~d.extended ->
            <<HandlePlain(d, byte),
              IF byte.code \in Modifiers \/ byte.released
              THEN Nothing ELSE Decoded(d, byte.code)>>

-----------------------------------------------------------------------------
(***************************************************************************)
(* Interrupts and the processes that read.                                 *)
(***************************************************************************)
InterruptsOn == pc[running] \in {"user", "enabled", "halted", "woken"}

\* An interrupt ends the hlt.
Awake == [pc EXCEPT ![running] = IF @ = "halted" THEN "woken" ELSE @]

\* IRQ 1.  The controller may have nothing, or a byte of the mouse.
KeyIrq ==
    /\ InterruptsOn
    /\ pc' = Awake
    /\ IF wire = <<>>
       THEN UNCHANGED <<wire, decoder, ring>>
       ELSE LET byte == Head(wire).byte
                handled == Handle(decoder, byte)
            IN  /\ wire' = Tail(wire)
                /\ IF byte.port = 2
                   THEN UNCHANGED <<decoder, ring>>
                   ELSE decoder' = handled[1] /\ BufferPush(handled[2])
    /\ UNCHANGED <<setup, held, caps, running>>

\* IRQ 0.  scheduler_on_tick lets the process go on or passes the CPU to p,
\* which resumes where it gave it up.
Tick(p) ==
    /\ InterruptsOn /\ p \in setup.readers
    /\ pc' = Awake
    /\ running' = p
    /\ UNCHANGED <<keys, decoder, ring>>

\* syscall_read(0, ...) with a valid buffer and a length of at least 1.
Read(p) ==
    /\ running = p /\ pc[p] = "user" /\ p \in setup.readers
    /\ pc' = [pc EXCEPT ![p] = "try"]
    /\ UNCHANGED <<keys, decoder, ring, running>>

\* keyboard_try_read delivers, and the system call returns to user mode.
Deliver(p) ==
    /\ running = p /\ pc[p] = "try"
    /\ TryRead
    /\ pc' = [pc EXCEPT ![p] = "user"]
    /\ UNCHANGED <<keys, decoder, running>>

\* keyboard_try_read finds the ring empty and irq_enable follows.
Enable(p) ==
    /\ running = p /\ pc[p] = "try"
    /\ tail = head
    /\ pc' = [pc EXCEPT ![p] = "enabled"]
    /\ UNCHANGED <<keys, decoder, ring, running>>

\* hlt
Halt(p) ==
    /\ running = p /\ pc[p] = "enabled"
    /\ pc' = [pc EXCEPT ![p] = "halted"]
    /\ UNCHANGED <<keys, decoder, ring, running>>

\* irq_save_disable, and back to the test of the loop.
DisableUntested(p) ==
    /\ running = p /\ pc[p] = "woken"
    /\ pc' = [pc EXCEPT ![p] = "enabled"]
    /\ UNCHANGED <<keys, decoder, ring, running>>

Disable(p) ==
    /\ running = p /\ pc[p] = "woken"
    /\ pc' = [pc EXCEPT ![p] = "try"]
    /\ UNCHANGED <<keys, decoder, ring, running>>

-----------------------------------------------------------------------------
\* keyboard_init: no key is down when scanning is enabled.
Init ==
    /\ setup \in Setups
    /\ held = {} /\ caps = FALSE /\ wire = <<>>
    /\ decoder = [leftShift |-> FALSE, rightShift |-> FALSE, leftCtrl |-> FALSE,
                  rightCtrl |-> FALSE, capsLock |-> FALSE, extended |-> FALSE,
                  pause |-> 0]
    /\ buffer = [i \in 0 .. BufferSize - 1 |-> Nothing] /\ head = 0 /\ tail = 0
    /\ running = CHOOSE p \in Processes : TRUE
    /\ pc = [p \in Processes |-> "user"]

Step(p) == Deliver(p) \/ Enable(p) \/ Halt(p) \/ Disable(p)

Typing == \/ \E key \in Keys : Press(key) \/ Release(key)
          \/ PressPause
          \/ MouseMoves

Next ==
    \/ Typing
    \/ KeyIrq
    \/ \E p \in Processes : Tick(p) \/ Read(p) \/ Step(p)

Spec == Init /\ [][Next]_vars

\* The timer does not stop; round robin runs every process again and again
\* (Scheduler's ReadyRuns), and for a time slice that is long enough for the
\* few instructions of the loop.
FairSpec ==
    /\ Spec
    /\ \A p \in Processes : SF_vars(Tick(p)) /\ SF_vars(Step(p))

-----------------------------------------------------------------------------
(***************************************************************************)
(* Properties.                                                             *)
(***************************************************************************)
Bytes == [code : Codes \cup {Extended, PausePrefix},
          released : BOOLEAN, port : {1, 2}]

WireItems == [byte : Bytes, meant : Characters \cup {Nothing}]

Decoders == [leftShift : BOOLEAN, rightShift : BOOLEAN, leftCtrl : BOOLEAN,
             rightCtrl : BOOLEAN, capsLock : BOOLEAN, extended : BOOLEAN,
             pause : 0 .. PauseLength]

TypeOK ==
    /\ setup \in Setups /\ held \subseteq Keys /\ caps \in BOOLEAN
    /\ wire \in Seq(WireItems)
    /\ decoder \in Decoders
    /\ buffer \in [0 .. BufferSize - 1 -> Characters \cup {Nothing}]
    /\ head \in 0 .. BufferSize - 1 /\ tail \in 0 .. BufferSize - 1
    /\ running \in Processes
    /\ pc \in [Processes -> {"user", "try", "enabled", "halted", "woken"}]

\* The characters in the ring, the oldest first.
Queue ==
    [i \in 1 .. (head - tail) % BufferSize |-> buffer[(tail + i - 1) % BufferSize]]

\* The ring is a first-in first-out queue of BufferSize - 1 characters, from
\* which nothing is lost or repeated (keyboard_buffer_push, keyboard_try_read).
InputQueue == INSTANCE KeyQueue WITH queue <- Queue, Capacity <- BufferSize - 1

ImplementsQueue == InputQueue!Spec

\* When a byte leaves the line, the ring gains what was meant by it.
ByteTyped ==
    wire # <<>> /\ wire' = Tail(wire) =>
       LET meant == Head(wire).meant
       IN  Queue' = IF meant = Nothing \/ Len(Queue) = BufferSize - 1
                    THEN Queue ELSE Append(Queue, meant)

\* Each byte that keyboard_handle_irq takes adds the character that the person
\* meant by it, given the keys that were down when it was sent, and no other;
\* a character is lost only when the ring is full.
TypedAsMeant == [][ByteTyped]_vars

\* The handler's flags when they agree with the keys that are down.
Flags(down, capsOn) ==
    [leftShift |-> <<FALSE, LeftShift>> \in down,
     rightShift |-> <<FALSE, RightShift>> \in down,
     leftCtrl |-> <<FALSE, Control>> \in down,
     rightCtrl |-> <<TRUE, Control>> \in down,
     capsLock |-> capsOn, extended |-> FALSE, pause |-> 0]

\* Once every byte has been handled, the handler's flags agree with the keys
\* that are down: no prefix, fake shift or pause byte leaves one stuck.
ModifiersInStep == wire = <<>> => decoder = Flags(held, caps)

\* What keyboard_handle_irq makes of a byte: the flags after it, the character.
Taken(d, item) == IF item.byte.port = 2 THEN <<d, Nothing>> ELSE Handle(d, item.byte)

\* The bytes of w lead the handler from flags d to flags e, and each of them
\* yields what is meant by it.
Decodes(d, w, e) ==
    \E f \in [0 .. Len(w) -> Decoders] :
       /\ f[0] = d /\ f[Len(w)] = e
       /\ \A k \in 1 .. Len(w) : Taken(f[k - 1], w[k]) = <<f[k], w[k].meant>>

\* What TypedAsMeant rests on: the bytes that are still on the line will lead the
\* handler to where the keys are already.
InStep == Decodes(decoder, wire, Flags(held, caps))

\* When every reader waits in the loop of syscall_read and there is a
\* character, one of them gets it, even if it was pressed between the test of
\* the ring and the hlt.
WaitingReaderServed ==
    (head # tail /\ setup.readers # {} /\ \A p \in setup.readers : pc[p] # "user")
        ~> (\E p \in setup.readers : pc[p] = "user")
=============================================================================
