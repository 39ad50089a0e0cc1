----------------------------- MODULE MCPrograms -----------------------------
(***************************************************************************)
(* The instance for TLC of what lies between the keyboard and a running    *)
(* program: the shell, the editor, and the parts of the kernel that take   *)
(* what programs pass to it.  They share no state, so each behaviour is    *)
(* one of them; the shell is used in two ways, every key for a short time  *)
(* or a few keys for longer, and its parser is given every short line.     *)
(***************************************************************************)
EXTENDS Shell, EditLines, Paths, UserMemory, ElfImage

CONSTANTS KeyLimit,         \* keys typed with all of them in use,
          RecallLimit,      \* and with those for lines and history
          InputLimit        \* length of the lines given to the parser

VARIABLES
    program,    \* what this behaviour is about
    keys,       \* the keys typed so far
    input       \* a line for the parser

mcVars == <<program, keys, input>>

-----------------------------------------------------------------------------
\* Constants: a shell whose clear is "ab", whose cd is "ba" and whose exit is
\* "bab", with programs "ba", which cd hides, and "bac".
MCClear == <<"a", "b">>
MCCd == <<"b", "a">>
MCExit == <<"b", "a", "b">>
MCLeaving == {MCExit}
MCBuiltins == <<MCClear, MCCd, MCExit>>
MCCommands == <<<<"b", "a">>, <<"b", "a", "c">>>>
MCPrompts == {<<"$">>, <<"/", "$">>}
MCOutputs == {<<"x", "\n">>, <<"x">>}

\* Every combination of absent, read-only and writable user pages below the
\* kernel's; one string ends at some byte or nowhere.
MCLayouts ==
    {[base \in PageBases |-> IF base < KernelBase THEN low[base] ELSE {"present", "writable"}] :
        low \in [{base \in PageBases : base < KernelBase} ->
                     {{}, {"present", "user"}, {"present", "user", "writable"}}]}

MCMemories == {[a \in Words |-> IF a = end THEN End0 ELSE 1] :
                  end \in {0, UserPageSize - 1, UserPageSize, KernelBase - 1, KernelBase}}

Header(type, offset, fileSize, address, memorySize, flags, alignment) ==
    [type |-> type, offset |-> offset, fileSize |-> fileSize, address |-> address,
     memorySize |-> memorySize, flags |-> flags, alignment |-> alignment]

\* Segments with every layout, and a few headers that are wrong in one way.
MCHeaders ==
    {Header("load", 1, stored, address, size, flags, 1) :
         stored \in {0, 2, 4}, address \in {2, 3, 4, 5, 8, 9}, size \in {0, 1, 3, 5},
         flags \in {{"R", "X"}, {"R", "W"}}}
      \cup {Header("load", 2, 1, 3, 2, {"R"}, alignment) : alignment \in {2, 3, 4}}
      \cup {Header("load", offset, 2, 4, 2, {"R"}, 1) : offset \in {3, 4}}
      \cup {Header("load", 1, 1, 4, 2, flags, 1) : flags \in {{"W"}, {"R", "other"}}}
      \cup {Header("note", 1, 1, 4, 2, {"R"}, 0)}

-----------------------------------------------------------------------------
\* The components that this behaviour is not about keep one initial state.
ProgramsInit ==
    /\ program \in {"shell", "recall", "parser", "editor", "paths", "user memory", "loader"}
    /\ keys = 0 /\ input = <<>>
    /\ program \notin {"shell", "recall"} => prompt = <<"$">>
    /\ program # "editor" => file = Absent
    /\ program # "user memory" => /\ layout = CHOOSE l \in Layouts : TRUE
                                  /\ memory = CHOOSE m \in Memories : TRUE
    /\ program # "loader" => headers = <<>>
    /\ ShellInit /\ EditInit /\ PathInit /\ UserInit /\ ElfInit

\* The keys to enter lines and to go back to them.
Recall == (\E c \in Letters : Type(c)) \/ Up \/ Down \/ Enter

Typing(limit, key) == keys < limit /\ keys' = keys + 1 /\ key /\ UNCHANGED input

InputCharacters == {"a", " ", "'", "\"", "\\"}

Lengthen == \E c \in InputCharacters :
    Len(input) < InputLimit /\ input' = Append(input, c) /\ UNCHANGED keys

UseShell ==
    /\ program = "shell" /\ Typing(KeyLimit, ShellNext)
    /\ UNCHANGED <<program, editVars, pathVars, userVars, elfVars>>

UseHistory ==
    /\ program = "recall" /\ Typing(RecallLimit, Recall)
    /\ UNCHANGED <<program, editVars, pathVars, userVars, elfVars>>

UseParser ==
    /\ program = "parser" /\ Lengthen
    /\ UNCHANGED <<program, shellVars, editVars, pathVars, userVars, elfVars>>

UseEditor ==
    /\ program = "editor" /\ EditNext
    /\ UNCHANGED <<mcVars, shellVars, pathVars, userVars, elfVars>>

UsePaths ==
    /\ program = "paths" /\ PathNext
    /\ UNCHANGED <<mcVars, shellVars, editVars, userVars, elfVars>>

\* What a call returns depends on nothing but its arguments and the memory, so
\* one call per memory is enough.
UseMemory ==
    /\ program = "user memory" /\ call = NoCall /\ UserNext
    /\ UNCHANGED <<mcVars, shellVars, editVars, pathVars, elfVars>>

UseLoader ==
    /\ program = "loader" /\ ElfNext
    /\ UNCHANGED <<mcVars, shellVars, editVars, pathVars, userVars>>

ProgramsNext ==
    UseShell \/ UseHistory \/ UseParser \/ UseEditor \/ UsePaths \/ UseMemory \/ UseLoader

ProgramsSpec ==
    ProgramsInit /\ [][ProgramsNext]_<<mcVars, shellVars, editVars, pathVars, userVars, elfVars>>

-----------------------------------------------------------------------------
\* Property.

\* parse_line, which writes the words over the line that it is reading, gives
\* exactly the words that the quotes and escapes of the line delimit, and
\* refuses exactly the lines with an open quote or escape or too many words.
WordsAsQuoted == ParseLine(input) = WordsOf(input)
=============================================================================
