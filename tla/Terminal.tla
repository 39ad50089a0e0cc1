------------------------------ MODULE Terminal ------------------------------
(***************************************************************************)
(* The text screen (kernel/drivers/vga.c), as operators on a screen:       *)
(* what is in its cells, the place of the cursor, and how much of an       *)
(* escape sequence has been seen.  A character is a string of length one,  *)
(* but for "ESC" and "BS".  Rows, columns and places count from zero; the  *)
(* place of a cell is row * Width + column.  The copy of the output that   *)
(* goes to the serial line is left out.                                    *)
(***************************************************************************)
EXTENDS Integers, Sequences, SequencesExt

CONSTANTS Width, Height     \* VGA_WIDTH, VGA_HEIGHT: 80 and 25

ASSUME ScreenAssumption == Width \in Nat \ {0} /\ Height \in Nat \ {0}

Cells == 0 .. Width * Height - 1

Place(s) == s.row * Width + s.column

\* vga_clear
Cleared(s) == [s EXCEPT !.cells = [p \in Cells |-> " "], !.row = 0, !.column = 0]

\* vga_init
BlankScreen == Cleared([cells |-> <<>>, row |-> 0, column |-> 0, escape |-> "none"])

\* vga_scroll, when the cursor has left the last row.
Scrolled(s) ==
    IF s.row < Height THEN s
    ELSE [s EXCEPT !.cells = [p \in Cells |-> IF p + Width \in Cells THEN s.cells[p + Width]
                                              ELSE " "],
                   !.row = Height - 1]

\* The automaton that reads escape sequences.
InEscape(s, c) ==
    CASE s.escape = "started" -> [s EXCEPT !.escape = IF c = "[" THEN "csi" ELSE "none"]
      [] s.escape = "csi" /\ c = "2" -> [s EXCEPT !.escape = "csi 2"]
      [] s.escape = "csi" /\ c = "H" -> [s EXCEPT !.escape = "none", !.row = 0, !.column = 0]
      [] s.escape = "csi 2" /\ c = "J" -> [Cleared(s) EXCEPT !.escape = "none"]
      [] OTHER -> [s EXCEPT !.escape = "none"]

Backspace(s) ==
    CASE s.column > 0 -> [s EXCEPT !.column = @ - 1]
      [] s.column = 0 /\ s.row > 0 -> [s EXCEPT !.row = @ - 1, !.column = Width - 1]
      [] OTHER -> s

PutCell(s, c) ==
    LET written == [s EXCEPT !.cells[Place(s)] = c]
    IN  IF s.column + 1 = Width THEN [written EXCEPT !.column = 0, !.row = @ + 1]
        ELSE [written EXCEPT !.column = @ + 1]

\* vga_write_char
WriteChar(s, c) ==
    CASE s.escape # "none" -> InEscape(s, c)
      [] s.escape = "none" /\ c = "ESC" -> [s EXCEPT !.escape = "started"]
      [] s.escape = "none" /\ c = "\r" -> [s EXCEPT !.column = 0]
      [] s.escape = "none" /\ c = "BS" -> Backspace(s)
      [] s.escape = "none" /\ c = "\n" -> Scrolled([s EXCEPT !.column = 0, !.row = @ + 1])
      [] OTHER -> Scrolled(PutCell(s, c))

\* A string that is written to the console.
Output(s, string) == FoldLeft(WriteChar, s, string)
=============================================================================
