CONSTANTS
    boot = boot
    p1 = p1
    p2 = p2
    PageLimit = 16
    Sizes = {11, 16}
    RegionPages = 2
    UserRegions = 2
    HeapRegions = 2
    Processes = {boot, p1, p2}
    BootProcess = boot
    KernelStack = 1
    ImageLimit = 2
    Images <- Programs
SPECIFICATION Spec
INVARIANT HeapMapped
CHECK_DEADLOCK FALSE
