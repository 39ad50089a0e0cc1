CONSTANTS
    ProcessLimit = 4
    PidMaximum = 4
    DefaultSlice = 1
    SleepMaximum = 1
    TickModulus = 4
    ExitCodes = {0}
SPECIFICATION Spec
INVARIANTS
    NoPanic
    PidsUnique
    WaiterHasLiveChild
    WokenWaiterFindsZombie
    OrphansStayOrphans
PROPERTIES
    ZombieKept
