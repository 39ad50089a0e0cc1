CONSTANTS
    Width = 3
    Height = 3
    ArgumentLimit = 2
    Letters = {"a", "b"}
    LineSize = 4
    HistoryLimit = 2
    Leaving <- MCLeaving
    Clear <- MCClear
    Cd <- MCCd
    Builtins <- MCBuiltins
    Programs <- MCCommands
    Prompts <- MCPrompts
    Outputs <- MCOutputs
    KeyLimit = 7
    RecallLimit = 9
    InputLimit = 6
    TextLetters = {x}
    Newline = NL
    Control = CTL
    Absent = Absent
    Capacity = 4
    TextLimit = 2
    NumberLimit = 3
    NameLetters = {"a"}
    PathMax = 6
    UserPageSize = 3
    KernelBase = 9
    AddressModulus = 12
    Layouts <- MCLayouts
    Memories <- MCMemories
    ProgramHeaders <- MCHeaders
    ProgramLimit = 2
    Entries = {4}
    ImageSize = 5
SPECIFICATION ProgramsSpec
INVARIANTS
    ScreenShowsLine
    WordsAsQuoted
    QuitKeepsChanges
    PathsResolve
    CopiesExact
    LoadedAsDescribed
PROPERTIES
    DraftComesBack
    LinesFollowCommands
\* The shell and the editor are left, the bounds are reached.
CHECK_DEADLOCK FALSE
