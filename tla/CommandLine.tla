----------------------------- MODULE CommandLine ----------------------------
(***************************************************************************)
(* How the shell takes a line apart (parse_line in user/programs/sh.c):    *)
(* in place, with a cursor that reads and one that writes the words, their *)
(* quotes and escapes removed, into the part of the line that has been     *)
(* read.  Against it stands what the words of a line are.  A line is a     *)
(* sequence of characters, strings of length one; NUL ends it in memory.   *)
(***************************************************************************)
EXTENDS Integers, Sequences, FiniteSets, SequencesExt

CONSTANT ArgumentLimit      \* SHELL_ARGUMENT_LIMIT, 16

ASSUME ArgumentAssumption == ArgumentLimit \in Nat \ {0}

NUL == "NUL"

Failed == <<<<NUL>>>>       \* parse_line has returned -1

IsSeparator(c) == c = " "

IsQuote(c) == c \in {"'", "\""}

-----------------------------------------------------------------------------
\* parse_line.  Its state: the line in memory, the two cursors, where the
\* arguments begin, the open quote, and which of its loops it is in.

Started(line) == [line |-> Append(line, NUL), read |-> 1, write |-> 1, starts |-> <<>>,
                  quote |-> NUL, in |-> "gap"]

\* The next character of the line, taken as it is, is written to the word.
Store(p, width) == [p EXCEPT !.line[p.write] = p.line[p.read + width - 1],
                             !.write = @ + 1, !.read = @ + width]

Escaped(p) == IF p.line[p.read + 1] = NUL THEN [p EXCEPT !.in = "failed"] ELSE Store(p, 2)

InGap(p, c) ==
    CASE c = NUL        -> [p EXCEPT !.in = "done"]
      [] IsSeparator(c) -> [p EXCEPT !.read = @ + 1]
      [] OTHER          -> IF Len(p.starts) >= ArgumentLimit THEN [p EXCEPT !.in = "failed"]
                           ELSE [p EXCEPT !.starts = Append(@, p.write), !.in = "word"]

InWord(p, c) ==
    CASE c = NUL -> [p EXCEPT !.in = IF p.quote = NUL THEN "end" ELSE "failed"]
      [] c # NUL /\ c = p.quote -> [p EXCEPT !.quote = NUL, !.read = @ + 1]
      [] c = "\\" /\ p.quote # "'" -> Escaped(p)
      [] p.quote = NUL /\ IsSeparator(c) -> [p EXCEPT !.in = "end"]
      [] p.quote = NUL /\ IsQuote(c) -> [p EXCEPT !.quote = c, !.read = @ + 1]
      [] OTHER -> Store(p, 1)

WordEnded(p) == [p EXCEPT !.line[p.write] = NUL, !.write = @ + 1, !.in = "gap"]

\* Mutant of AtEnd: the word is ended before the separators are skipped.
AtEndAtOnce(p, c) == WordEnded(p)

\* The separators behind a word are skipped before the word is ended, because
\* the NUL may overwrite the first of them.
AtEnd(p, c) == IF IsSeparator(c) THEN [p EXCEPT !.read = @ + 1] ELSE WordEnded(p)

ParseStep(p, c) == CASE p.in = "gap"  -> InGap(p, c)
                     [] p.in = "word" -> InWord(p, c)
                     [] p.in = "end"  -> AtEnd(p, c)
                     [] OTHER         -> p

\* No loop looks at a character more than once, and every word is begun and
\* ended once.
Parsed(line) == FoldLeft(LAMBDA p, k : ParseStep(p, p.line[p.read]), Started(line),
                         [k \in 1 .. 3 * (Len(line) + 1) |-> k])

StringAt(memory, start) ==
    LET end == CHOOSE e \in start .. Len(memory) :
                   /\ memory[e] = NUL
                   /\ \A k \in start .. e - 1 : memory[k] # NUL
    IN  SubSeq(memory, start, end - 1)

\* The arguments that parse_line delivers.
ParseLine(line) ==
    LET p == Parsed(line)
    IN  IF p.in # "done" THEN Failed
        ELSE [k \in DOMAIN p.starts |-> StringAt(p.line, p.starts[k])]

-----------------------------------------------------------------------------
\* What the words of a line are.  After each character the line is in a mode;
\* a character of the mode "plain" that separates is part of no word, and a
\* character that changes the mode is part of a word but not of its text.

ModeAfter(mode, c) ==
    CASE mode = "plain"     -> CASE c = "'" -> "single" [] c = "\"" -> "double"
                                 [] c = "\\" -> "escape" [] OTHER -> "plain"
      [] mode = "single"    -> IF c = "'" THEN "plain" ELSE "single"
      [] mode = "double"    -> CASE c = "\"" -> "plain" [] c = "\\" -> "escape in double"
                                 [] OTHER -> "double"
      [] mode = "escape"    -> "plain"
      [] OTHER              -> "double"

\* The mode after the first k characters.
Mode(line) ==
    LET mode[k \in 0 .. Len(line)] ==
            IF k = 0 THEN "plain" ELSE ModeAfter(mode[k - 1], line[k])
    IN  mode

WordsIn(line, mode) ==
    LET gap(k)     == mode[k - 1] = "plain" /\ IsSeparator(line[k])
        literal(k) == ~gap(k) /\ (mode[k] = mode[k - 1]
                                  \/ mode[k - 1] \in {"escape", "escape in double"})
        starts == {k \in DOMAIN line : ~gap(k) /\ (k = 1 \/ gap(k - 1))}
        word(k) == {i \in k .. Len(line) : literal(i) /\ \A j \in k .. i : ~gap(j)}
        begins == SetToSortSeq(starts, <)
    IN  [n \in DOMAIN begins |->
            LET places == SetToSortSeq(word(begins[n]), <)
            IN  [i \in DOMAIN places |-> line[places[i]]]]

\* The words, if every quote and escape is complete and there are not too many.
WordsOf(line) ==
    LET words == WordsIn(line, Mode(line))
    IN  IF Mode(line)[Len(line)] = "plain" /\ Len(words) <= ArgumentLimit
        THEN words ELSE Failed
=============================================================================
