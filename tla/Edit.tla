-------------------------------- MODULE Edit --------------------------------
(***************************************************************************)
(* The line editor (user/programs/edit.c): a text buffer of fixed size in  *)
(* which lines are found by counting newlines and changed by moving the    *)
(* tail of the buffer, a flag that says whether there are unsaved changes, *)
(* and the file, which is truncated and written again by every save.       *)
(*                                                                         *)
(* The shell waits for the editor, so nobody else changes the file.  Every *)
(* system call on the file may fail; a failed write leaves a first part of *)
(* the text in the file.  Writes to the console succeed (sys_write has no  *)
(* failure there), so the exits for a console that is gone are left out,   *)
(* and so are the commands that only print.  Offsets count from zero, as   *)
(* in the code: the byte at offset p of a text is text[p + 1].             *)
(***************************************************************************)
EXTENDS Integers, Sequences, FiniteSets

CONSTANTS TextLetters,    \* the characters of a line
          Newline,
          Control,        \* a byte that text_byte_supported rejects
          Absent,         \* the file does not exist
          Capacity,       \* EDIT_BUFFER_CAPACITY, 32768
          TextLimit,      \* bounds of the instance: the text of a command,
          NumberLimit     \* line numbers

ASSUME EditAssumption ==
    /\ Newline \notin TextLetters /\ Control \notin TextLetters /\ Control # Newline
    /\ Absent \notin Seq(TextLetters \cup {Newline, Control})
    /\ Capacity \in Nat /\ TextLimit \in Nat /\ NumberLimit \in Nat

NoNumber == -1      \* consume_number has failed

Texts == UNION {[1 .. n -> TextLetters] : n \in 0 .. TextLimit}

Commands ==
    [verb : {"a"}, number : {NoNumber}, text : Texts]
      \cup [verb : {"i", "r"}, number : 0 .. NumberLimit, text : Texts]
      \cup [verb : {"d"}, number : 0 .. NumberLimit, text : {<<>>}]
      \cup [verb : {"i", "r", "d", "w", "q", "q!", "^D", "other"},
            number : {NoNumber}, text : {<<>>}]

NoCommand == [verb |-> "none", number |-> NoNumber, text |-> <<>>]

VARIABLES
    at,        \* "start", "prompt", "command", or how main was left
    text,      \* the first edit_length bytes of edit_buffer
    command,   \* the line that read_command has delivered
    dirty,
    file,      \* the bytes of the file
    changed,   \* history: the text has changed since it was loaded or saved
    failed     \* history: the last save has failed

editVars == <<at, text, command, dirty, file, changed, failed>>

-----------------------------------------------------------------------------
\* The buffer.

Newlines(t) == {p \in 0 .. Len(t) - 1 : t[p + 1] = Newline}

\* line_count
LineCount(t) == IF t = <<>> THEN 0
                ELSE Cardinality(Newlines(t)) + IF t[Len(t)] = Newline THEN 0 ELSE 1

\* The offset behind the first n newlines, where the outer loop of line_bounds
\* arrives; behind the text when there are not as many.
Behind(t, n) ==
    IF n = 0 THEN 0
    ELSE IF Cardinality(Newlines(t)) < n THEN Len(t)
    ELSE 1 + CHOOSE p \in Newlines(t) : Cardinality({q \in Newlines(t) : q <= p}) = n

\* line_bounds: the line exists, and where it is.
HasLine(t, n) == n > 0 /\ Behind(t, n - 1) < Len(t)

LineStart(t, n) == Behind(t, n - 1)

ContentEnd(t, n) ==
    CHOOSE p \in LineStart(t, n) .. Len(t) :
        /\ p = Len(t) \/ p \in Newlines(t)
        /\ \A q \in LineStart(t, n) .. p - 1 : q \notin Newlines(t)

FullEnd(t, n) == IF ContentEnd(t, n) < Len(t) THEN ContentEnd(t, n) + 1 ELSE Len(t)

\* The loops of replace_range that move the tail, as a copy of one byte after
\* the other within the array.
Copied(array, from, to) == [array EXCEPT ![to + 1] = array[from + 1]]

MoveTail(array, end, target, tail, downwards) ==
    LET Moved[k \in 0 .. tail] ==
            IF k = 0 THEN array
            ELSE LET p == IF downwards THEN tail - k ELSE k - 1
                 IN  Copied(Moved[k - 1], end + p, target + p)
    IN  Moved[tail]

\* Mutant of ReplaceRange: the tail is always moved from its first byte on.
ReplaceRangeUpwards(t, start, end, new) ==
    LET array == [p \in 1 .. Capacity |-> IF p <= Len(t) THEN t[p] ELSE Control]
        moved == MoveTail(array, end, start + Len(new), Len(t) - end, FALSE)
    IN  [p \in 1 .. Len(t) - (end - start) + Len(new) |->
            IF p - 1 \in start .. start + Len(new) - 1 THEN new[p - start] ELSE moved[p]]

\* replace_range, when the result fits.
ReplaceRange(t, start, end, new) ==
    LET array == [p \in 1 .. Capacity |-> IF p <= Len(t) THEN t[p] ELSE Control]
        moved == MoveTail(array, end, start + Len(new), Len(t) - end,
                          Len(new) > end - start)
    IN  [p \in 1 .. Len(t) - (end - start) + Len(new) |->
            IF p - 1 \in start .. start + Len(new) - 1 THEN new[p - start] ELSE moved[p]]

Fits(t, start, end, new) == Len(new) <= Capacity - (Len(t) - (end - start))

-----------------------------------------------------------------------------
\* The commands that change the text.

\* replace_range with its check, and the flag that process_command sets.
Replace(start, end, new) ==
    /\ IF Fits(text, start, end, new)
       THEN text' = ReplaceRange(text, start, end, new) /\ dirty' = TRUE
       ELSE UNCHANGED <<text, dirty>>
    /\ changed' = (changed \/ text' # text)
    /\ UNCHANGED <<file, failed>>

Refuse == UNCHANGED <<text, dirty, file, changed, failed>>

\* append_line
AppendLine(line) ==
    LET separator == IF text # <<>> /\ text[Len(text)] # Newline THEN <<Newline>> ELSE <<>>
    IN  Replace(Len(text), Len(text), separator \o line \o <<Newline>>)

\* insert_line
InsertLine(n, line) ==
    IF n = LineCount(text) + 1 THEN AppendLine(line)
    ELSE Replace(LineStart(text, n), LineStart(text, n), line \o <<Newline>>)

\* replace_line
ReplaceLine(n, line) == Replace(LineStart(text, n), ContentEnd(text, n), line)

\* delete_line
DeleteLine(n) == Replace(LineStart(text, n), FullEnd(text, n), <<>>)

\* The branches of process_command for a, i, r and d.
ChangeText ==
    /\ command.verb \in {"a", "i", "r", "d"}
    /\ LET n == command.number IN
       CASE command.verb = "a" -> AppendLine(command.text)
         [] command.verb = "i" -> IF n \in 1 .. LineCount(text) + 1
                                  THEN InsertLine(n, command.text) ELSE Refuse
         [] command.verb = "r" -> IF n \in 1 .. LineCount(text)
                                  THEN ReplaceLine(n, command.text) ELSE Refuse
         [] OTHER              -> IF HasLine(text, n) THEN DeleteLine(n) ELSE Refuse
    /\ at' = "prompt"

-----------------------------------------------------------------------------
\* Loading and saving.

IsText(t) == \A k \in DOMAIN t : t[k] \in TextLetters \cup {Newline}

\* load_file: there is no such file, or all of it has been read.
Load ==
    /\ at = "start"
    /\ file # Absent => Len(file) <= Capacity /\ IsText(file)
    /\ at' = "prompt"
    /\ text' = IF file = Absent THEN <<>> ELSE file
    /\ UNCHANGED <<command, dirty, file, changed, failed>>

\* load_file: the file is too large or not a text, or a call has failed.
LoadFails ==
    /\ at = "start"
    /\ at' = "not loaded"
    /\ UNCHANGED <<text, command, dirty, file, changed, failed>>

\* open, with O_CREAT and O_TRUNC, fails: perhaps after it has created or
\* truncated the file.
OpenFails ==
    /\ file' \in {file, <<>>}
    /\ failed' = TRUE
    /\ UNCHANGED <<dirty, changed>>

\* open succeeds and minios_write_all writes this much before it fails.
WriteFails(count) ==
    /\ count < Len(text)
    /\ file' = SubSeq(text, 1, count)
    /\ failed' = TRUE
    /\ UNCHANGED <<dirty, changed>>

\* Everything is written; close succeeds or fails.
WriteSucceeds(closed) ==
    /\ file' = text
    /\ changed' = (changed /\ ~closed)
    /\ failed' = ~closed
    /\ dirty' = (dirty /\ ~closed)

\* Mutant of Save: the result of minios_write_all is not looked at.
SaveWithoutCheck ==
    /\ command.verb = "w"
    /\ \/ OpenFails
       \/ \E count \in 0 .. Capacity :
             /\ count < Len(text) /\ file' = SubSeq(text, 1, count)
             /\ dirty' = FALSE /\ UNCHANGED <<changed, failed>>
       \/ \E closed \in BOOLEAN : WriteSucceeds(closed)
    /\ at' = "prompt"
    /\ UNCHANGED text

\* save_file
Save ==
    /\ command.verb = "w"
    /\ \/ OpenFails
       \/ \E count \in 0 .. Capacity : WriteFails(count)
       \/ \E closed \in BOOLEAN : WriteSucceeds(closed)
    /\ at' = "prompt"
    /\ UNCHANGED text

-----------------------------------------------------------------------------
\* main

\* read_command
ReadCommand ==
    /\ at = "prompt"
    /\ at' = "command"
    /\ command' \in Commands
    /\ UNCHANGED <<text, dirty, file, changed, failed>>

\* q, and the end of the input, leave only a clean buffer; q! leaves any.
Leave ==
    /\ command.verb \in {"q", "^D", "q!"}
    /\ at' = IF command.verb # "q!" /\ dirty THEN "prompt" ELSE command.verb
    /\ UNCHANGED <<text, dirty, file, changed, failed>>

\* The commands that only print, the unknown ones, and the empty line.
Other ==
    /\ command.verb = "other"
    /\ at' = "prompt"
    /\ UNCHANGED <<text, dirty, file, changed, failed>>

\* process_command
ProcessCommand ==
    /\ at = "command"
    /\ ChangeText \/ Save \/ Leave \/ Other
    /\ command' = NoCommand

EditInit ==
    /\ at = "start"
    /\ text = <<>> /\ command = NoCommand /\ dirty = FALSE
    /\ file \in {Absent, <<Control>>}
          \cup UNION {[1 .. n -> TextLetters \cup {Newline}] : n \in 0 .. Capacity + 1}
    /\ changed = FALSE /\ failed = FALSE

EditNext == Load \/ LoadFails \/ ReadCommand \/ ProcessCommand

EditSpec == EditInit /\ [][EditNext]_editVars

-----------------------------------------------------------------------------
\* Properties.

\* A save that fails leaves a first part of the text in the file.
FirstPart(f, t) == f \in {<<>>, t} \/ \E count \in 0 .. Capacity : f = SubSeq(t, 1, count)

HoldsText == file = text \/ (file = Absent /\ text = <<>>)

\* q and the end of the input never lose a change: the text has not changed
\* since it was loaded or completely saved, and the file holds it.  Only when
\* a later save of the same text has failed, and said so, may the file lack a
\* last part of the text (save_file leaves dirty as it was); it never holds
\* anything else.
QuitKeepsChanges ==
    at \in {"q", "^D"} => /\ ~changed
                          /\ HoldsText \/ (failed /\ FirstPart(file, text))

\* What QuitKeepsChanges rests on: the flag never misses a change, and as long
\* as nothing has changed the file holds the text, or a first part of it if the
\* last save has failed.
EditInv ==
    /\ at \in {"start", "not loaded", "prompt", "command", "q", "^D", "q!"}
    /\ dirty \in BOOLEAN /\ changed \in BOOLEAN /\ failed \in BOOLEAN
    /\ changed => dirty
    /\ at \in {"q", "^D"} => ~dirty
    /\ at \notin {"start", "not loaded"} /\ ~changed =>
          HoldsText \/ (failed /\ FirstPart(file, text))
=============================================================================
