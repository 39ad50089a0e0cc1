CONSTANTS
    r1 = r1
    r2 = r2
    letter = letter
    symbol = symbol
    space = space
    arrow = arrow
    Letters = {letter}
    Symbols = {symbol}
    Plains = {space}
    Keypad = {symbol}
    Navigation = {arrow}
    LeftShift = LeftShift
    RightShift = RightShift
    Control = Control
    CapsLock = CapsLock
    Extended = Extended
    PausePrefix = PausePrefix
    PauseLength = 5
    BufferSize = 3
    Keys <- EveryKey
    HeldLimit = 3
    Backlog = 0
    Processes = {r1, r2}
    Setups <- ThreeSetups
SPECIFICATION FairSpec
PROPERTIES
    ImplementsQueue
    TypedAsMeant
    WaitingReaderServed
