----------------------------- MODULE EditLines -----------------------------
(***************************************************************************)
(* What the commands of the editor (Edit, user/programs/edit.c) are to do, *)
(* said of the sequence of lines of the text, where Edit counts newlines   *)
(* and moves bytes.                                                        *)
(***************************************************************************)
EXTENDS Edit, SequencesExt

\* A text as the sequence of its lines, each with its newline; the last one may
\* have none.
FullLines(t) ==
    LET ends == SetToSortSeq(({p + 1 : p \in Newlines(t)} \cup {Len(t)}) \ {0}, <)
    IN  [k \in DOMAIN ends |-> SubSeq(t, IF k = 1 THEN 1 ELSE ends[k - 1] + 1, ends[k])]

Terminated(line) == IF Last(line) = Newline THEN line ELSE Append(line, Newline)

\* What a command is to do with the lines.
LinesAfter(lines, c) ==
    LET count == Len(lines)
        n     == c.number
        line  == Append(c.text, Newline)
        ended == [k \in 1 .. count |-> Terminated(lines[k])]
    IN  CASE c.verb = "a" \/ (c.verb = "i" /\ n = count + 1) -> Append(ended, line)
          [] c.verb = "i" /\ n \in 1 .. count -> InsertAt(lines, n, line)
          [] c.verb = "r" /\ n \in 1 .. count ->
                [lines EXCEPT ![n] = IF Last(@) = Newline THEN line ELSE c.text]
          [] c.verb = "d" /\ n \in 1 .. count -> RemoveAt(lines, n)
          [] OTHER -> lines

\* a, i, r and d do to the sequence of lines what their names say, and to no
\* other line, wherever the moved tail of the buffer lies; a command whose
\* result would not fit changes nothing.  The one surprise is intended here:
\* a last line without a newline that is replaced by nothing disappears.
LinesFollowCommands ==
    [][at = "command" =>
        LET new == FlattenSeq(LinesAfter(FullLines(text), command))
        IN  text' = IF Len(new) <= Capacity THEN new ELSE text]_editVars
=============================================================================
