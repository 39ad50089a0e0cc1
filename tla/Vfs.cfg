CONSTANTS
    p1 = p1
    p2 = p2
    a = a
    b = b
    Processes = {p1, p2}
    FirstProcess = p1
    FileLimit = 3
    FdLimit = 5
    InodeLimit = 4
    EntryLimit = 2
    SizeLimit = 1
    OffsetLimit = 2
    Names = {a, b}
SPECIFICATION VfsSpec
INVARIANTS
    FilesOwned
    OpenInodesLive
    
PROPERTIES
    DescriptorsIndependent
    EntriesStayPut
\* When the last process has ended nothing opens files any more.
CHECK_DEADLOCK FALSE
