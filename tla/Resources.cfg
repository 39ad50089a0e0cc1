CONSTANTS
    PageSize = 4
    MaxPages = 6
    WordModulus = 32
    LowEnd = 4
    MaxEntries = 2
    MaxSegments = 2
    Answers <- SomeAnswers
    Segments <- SomeSegments
    EntryPoint = 10
    HeaderSize = 4
    Alignment = 2
    HeapPageSize = 14
    HeapMaxPages = 3
    SizesRequested = {1, 3, 5, 8, 10, 11, 23, 24, 38, 39}
    DriveSectors = 5
    LbaLimit = 4
    SectorsPerBlock = 2
    Contents = {c0, c1}
    RequestBlocks = 2
    RequestLimit = 2
SPECIFICATION ResourcesSpec
INVARIANTS
    ImageInUsableMemory
    BootInfoAccepted
    HandedOutIsUsable
    StatsAddUp
    NoHeapPanic
    Tiled
    RequestsExact
PROPERTIES
    AllocationsStay
CHECK_DEADLOCK FALSE
