------------------------------- MODULE Shell --------------------------------
(***************************************************************************)
(* The shell at the keyboard (main of user/programs/sh.c): a line with a   *)
(* cursor in it, the history and the draft that is kept while the history  *)
(* is looked at, completion of command names, and the screen, on which the *)
(* shell keeps the line up to date by writing characters and backspaces    *)
(* only.  One action for each key.                                         *)
(*                                                                         *)
(* The shell reads one key at a time and waits for the program it starts,  *)
(* so nothing else writes to the screen while a line is edited.  Writing   *)
(* to the console cannot fail.  What a program, or a message of the shell, *)
(* writes is one of Outputs; none of them stops inside an escape sequence, *)
(* which would swallow the first characters of the prompt.                 *)
(***************************************************************************)
EXTENDS Terminal, CommandLine

CONSTANTS Letters,          \* printable characters that are no separator
          LineSize,         \* SHELL_LINE_SIZE, 256
          HistoryLimit,     \* SHELL_HISTORY_LIMIT, 8
          Leaving,          \* the builtins that end the shell: exit, shutdown
          Clear, Cd,        \* two more that do something to the screen
          Builtins,         \* all of them, in the order of the table
          Programs,         \* the names in /bin
          Prompts,          \* what print_prompt may write
          Outputs           \* what a command may write

ASSUME ShellAssumption ==
    /\ LineSize \in Nat \ {0} /\ HistoryLimit \in Nat \ {0}
    /\ Leaving \cup {Clear, Cd} \subseteq ToSet(Builtins)
    \* The prompt, begun anywhere in a row, and the longest line fit the screen.
    /\ \A p \in Prompts : Len(p) + LineSize <= Width * (Height - 1)

Printable == Letters \cup {" "}

VARIABLES
    screen,
    line, cursor,       \* cursor characters of the line are left of the cursor
    history, position,  \* shell_history, history_position
    draft,
    prompt,             \* follows the current directory
    shell,              \* "reading", or "left" when main has returned
    typed               \* history: the line when the history was last entered

shellVars == <<screen, line, cursor, history, position, draft, prompt, shell, typed>>

-----------------------------------------------------------------------------
\* Writing to the screen.

Backspaces(n) == [k \in 1 .. n |-> "BS"]

Spaces(n) == [k \in 1 .. n |-> " "]

ClearScreen == <<"ESC", "[", "2", "J", "ESC", "[", "H">>

From(l, n) == SubSeq(l, n + 1, Len(l))

RenderedLength(new) == IF Len(new) > Len(line) THEN Len(new) ELSE Len(line)

\* Mutant of Redraw: the way back does not count the blanks behind a line that
\* has become shorter.
RedrawShort(new, newCursor) ==
    Backspaces(cursor) \o new \o Spaces(RenderedLength(new) - Len(new))
        \o Backspaces(Len(new) - newCursor)

\* redraw_line, over the line that is on the screen.
Redraw(new, newCursor) ==
    Backspaces(cursor) \o new \o Spaces(RenderedLength(new) - Len(new))
        \o Backspaces(RenderedLength(new) - newCursor)

Show(string) == screen' = Output(screen, string)

\* The line becomes another one, with the cursor in it.
SetLine(new, newCursor) ==
    /\ line' = new /\ cursor' = newCursor
    /\ Show(Redraw(new, newCursor))

Editing == shell = "reading" /\ UNCHANGED <<history, prompt, shell, typed>>

OnlyEditing == Editing /\ UNCHANGED <<position, draft>>

-----------------------------------------------------------------------------
\* The keys that move the cursor and change the line.

Left ==
    /\ OnlyEditing /\ cursor > 0
    /\ cursor' = cursor - 1 /\ Show(<<"BS">>)
    /\ UNCHANGED line

Right ==
    /\ OnlyEditing /\ cursor < Len(line)
    /\ cursor' = cursor + 1 /\ Show(<<line[cursor + 1]>>)
    /\ UNCHANGED line

Home ==
    /\ OnlyEditing
    /\ cursor' = 0 /\ Show(Backspaces(cursor))
    /\ UNCHANGED line

End ==
    /\ OnlyEditing
    /\ cursor' = Len(line) /\ Show(From(line, cursor))
    /\ UNCHANGED line

BackspaceKey ==
    /\ OnlyEditing /\ cursor > 0
    /\ SetLine(RemoveAt(line, cursor), cursor - 1)

\* Delete, and ^D in a line that is not empty.
Delete ==
    /\ OnlyEditing /\ cursor < Len(line)
    /\ SetLine(RemoveAt(line, cursor + 1), cursor)

\* ^K and ^U
KillToEnd == OnlyEditing /\ SetLine(SubSeq(line, 1, cursor), cursor)

KillToStart == OnlyEditing /\ SetLine(From(line, cursor), 0)

\* ^L
Redisplay ==
    /\ OnlyEditing
    /\ Show(ClearScreen \o prompt \o line \o Backspaces(Len(line) - cursor))
    /\ UNCHANGED <<line, cursor>>

Type(c) ==
    /\ OnlyEditing /\ Len(line) + 1 < LineSize
    /\ IF cursor = Len(line)
       THEN line' = Append(line, c) /\ cursor' = cursor + 1 /\ Show(<<c>>)
       ELSE SetLine(InsertAt(line, cursor + 1, c), cursor + 1)

-----------------------------------------------------------------------------
\* The history.

\* Mutant of Up: the draft is overwritten whenever the key is pressed.
UpOverDraft ==
    /\ shell = "reading" /\ position > 0
    /\ draft' = line
    /\ typed' = IF position = Len(history) THEN line ELSE typed
    /\ position' = position - 1
    /\ SetLine(history[position], Len(history[position]))
    /\ UNCHANGED <<history, prompt, shell>>

Up ==
    /\ shell = "reading" /\ position > 0
    /\ draft' = IF position = Len(history) THEN line ELSE draft
    /\ typed' = IF position = Len(history) THEN line ELSE typed
    /\ position' = position - 1
    /\ SetLine(history[position], Len(history[position]))
    /\ UNCHANGED <<history, prompt, shell>>

Down ==
    /\ Editing /\ position < Len(history)
    /\ position' = position + 1
    /\ LET recalled == IF position + 1 = Len(history) THEN draft ELSE history[position + 2]
       IN  SetLine(recalled, Len(recalled))
    /\ UNCHANGED draft

HasContent(l) == \E k \in DOMAIN l : ~IsSeparator(l[k])

\* history_add
HistoryAdd(h, l) ==
    CASE ~HasContent(l) \/ (h # <<>> /\ Last(h) = l) -> h
      [] HasContent(l) /\ Len(h) = HistoryLimit /\ Last(h) # l -> Append(Tail(h), l)
      [] OTHER -> Append(h, l)

\* A new line is begun, at the end of the history.
StartLine(h) ==
    /\ history' = h /\ position' = Len(h)
    /\ line' = <<>> /\ cursor' = 0 /\ draft' = <<>> /\ typed' = <<>>

\* ^C
Interrupt ==
    /\ shell = "reading"
    /\ StartLine(history)
    /\ Show(<<"^", "C", "\n">> \o prompt)
    /\ UNCHANGED <<prompt, shell>>

-----------------------------------------------------------------------------
\* run_line: what the commands write, and what they do to the prompt.  A builtin
\* with arguments that it does not take writes its usage; Letters has no digits,
\* so that every argument of exit is one of those.

Effects(words) ==
    LET written == [output : Outputs, prompt : {prompt}]
    IN  CASE words = Failed -> written
          [] words = <<>>   -> [output : {<<>>}, prompt : {prompt}]
          [] words = <<Clear>> -> [output : {ClearScreen}, prompt : {prompt}]
          [] words \notin {Failed, <<>>} /\ words[1] = Cd /\ Len(words) <= 2 ->
                written \cup [output : {<<>>}, prompt : Prompts]
          [] OTHER -> written

Enter ==
    /\ shell = "reading"
    /\ StartLine(HistoryAdd(history, line))
    /\ IF ParseLine(line) \in {<<word>> : word \in Leaving}
       THEN shell' = "left" /\ Show(<<"\n">>) /\ UNCHANGED prompt
       ELSE \E effect \in Effects(ParseLine(line)) :
               /\ prompt' = effect.prompt
               /\ Show(<<"\n">> \o effect.output \o effect.prompt)
               /\ UNCHANGED shell

\* ^D in an empty line.
EndOfInput ==
    /\ shell = "reading" /\ line = <<>>
    /\ shell' = "left" /\ Show(<<"\n">>)
    /\ UNCHANGED <<line, cursor, history, position, draft, prompt, typed>>

-----------------------------------------------------------------------------
\* Tab: completion of the first word.

Names == Builtins \o SelectSeq(Programs, LAMBDA w : w \notin ToSet(Builtins))

Matches(prefix) == SelectSeq(Names, LAMBDA w : IsPrefix(prefix, w))

\* collect_command_matches: the longest common prefix of the matches.
Common(words) == LongestCommonPrefix(ToSet(words))

\* insert_completion: the rest of the word, and a separator if the word is
\* complete and none follows; nothing if that would not fit.
Inserted(rest, complete) ==
    LET separate == complete /\ (cursor = Len(line) \/ ~IsSeparator(line[cursor + 1]))
        added == rest \o IF separate THEN <<" ">> ELSE <<>>
    IN  IF Len(line) + Len(added) + 1 > LineSize THEN <<>> ELSE added

Insert(added) ==
    LET new == SubSeq(line, 1, cursor) \o added \o From(line, cursor)
    IN  IF cursor = Len(line)
        THEN line' = new /\ cursor' = Len(new) /\ Show(added)
        ELSE SetLine(new, cursor + Len(added))

\* print_command_matches
List(words) ==
    /\ Show(<<"\n">> \o FlattenSeq([k \in DOMAIN words |-> Append(words[k], "\n")])
              \o prompt \o line \o Backspaces(Len(line) - cursor))
    /\ UNCHANGED <<line, cursor>>

\* The word that the cursor is behind, when it is the first of the line.
Prefix == SelectSeq(SubSeq(line, 1, cursor), LAMBDA c : ~IsSeparator(c))

Completes ==
    /\ Prefix # <<>> /\ IsSuffix(Prefix, SubSeq(line, 1, cursor))
    /\ cursor < Len(line) => IsSeparator(line[cursor + 1])
    /\ Matches(Prefix) # <<>>

\* complete_command, when /bin can be read.  A prefix longer than MINIFS_NAME_MAX
\* matches no name, so its check changes nothing.
Tab ==
    /\ OnlyEditing /\ Completes
    /\ LET prefix == Prefix
           words  == Matches(prefix)
           rest   == From(Common(words), Len(prefix))
       IN  CASE Len(words) = 1 -> Insert(Inserted(rest, TRUE))
             [] Len(words) > 1 /\ rest # <<>> -> Insert(Inserted(rest, FALSE))
             [] OTHER -> List(words)

\* /bin cannot be read when the matches are listed: main returns.
TabFails ==
    /\ shell = "reading" /\ Completes
    /\ Len(Matches(Prefix)) > 1 /\ Common(Matches(Prefix)) = Prefix
    /\ \E listed \in Prefixes(Matches(Prefix)) :
          Show(<<"\n">> \o FlattenSeq([k \in DOMAIN listed |-> Append(listed[k], "\n")]))
    /\ shell' = "left"
    /\ UNCHANGED <<line, cursor, history, position, draft, prompt, typed>>

-----------------------------------------------------------------------------
ShellInit ==
    /\ \E first \in Prompts : prompt = first
    /\ screen = Output(BlankScreen, prompt)
    /\ line = <<>> /\ cursor = 0
    /\ history = <<>> /\ position = 0 /\ draft = <<>>
    /\ shell = "reading" /\ typed = <<>>

ShellNext ==
    \/ \E c \in Printable : Type(c)
    \/ Left \/ Right \/ Home \/ End \/ BackspaceKey \/ Delete \/ KillToEnd \/ KillToStart
    \/ Redisplay \/ Up \/ Down \/ Interrupt \/ Enter \/ EndOfInput \/ Tab \/ TabFails

ShellSpec == ShellInit /\ [][ShellNext]_shellVars

-----------------------------------------------------------------------------
\* Properties.

\* The cells from the beginning of the prompt on show the prompt and the whole
\* line, and the cursor of the screen is where the cursor of the line is: after
\* every key, across the ends of rows, when the screen scrolls in the middle of
\* a redraw, and after another line has been recalled or completed.
ScreenShowsLine ==
    shell = "reading" =>
        LET shown == prompt \o line
            first == Place(screen) - cursor - Len(prompt)
        IN  /\ screen.escape = "none" /\ first >= 0
            /\ \A k \in DOMAIN shown : screen.cells[first + k - 1] = shown[k]

\* Going back to the end of the history brings back the line as it was when the
\* history was entered, whatever has been recalled and edited in between.
DraftComesBack ==
    [][position < Len(history) /\ position' = Len(history') => line' = typed']_shellVars
=============================================================================
