CONSTANTS
    boot = boot
    p1 = p1
    p2 = p2
    PageLimit = 16
    Sizes = {11, 16}
    RegionPages = 4
    UserRegions = 2
    HeapRegions = 1
    Processes = {boot, p1, p2}
    BootProcess = boot
    KernelStack = 1
    ImageLimit = 2
    Images <- Programs
SPECIFICATION Spec
INVARIANTS InvariantsKept PagesOwned
CHECK_DEADLOCK FALSE
