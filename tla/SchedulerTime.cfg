CONSTANTS
    ProcessLimit = 3
    PidMaximum = 3
    DefaultSlice = 2
    SleepMaximum = 2
    TickModulus = 6
    ExitCodes = {0}
SPECIFICATION FairSpec
PROPERTIES
    WakesAtDeadline
    ReadyRuns
    SleeperWakes
    WaiterReturns
