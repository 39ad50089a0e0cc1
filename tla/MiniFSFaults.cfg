CONSTANTS
    na = na
    nb = nb
    v1 = v1
    v2 = v2
    Dot = Dot
    DotDot = DotDot
    InodeLimit = 3
    BlockLimit = 4
    CellsPerBlock = 3
    DirectCount = 1
    Names = {na, nb}
    Values = {v1, v2}
    SizeBound = 4
    FaultBound = 1
SPECIFICATION Spec
INVARIANTS
    NamesResolve
    BlocksOwned
    FsckClean
PROPERTIES
    CommitsAtomically
SYMMETRY Symmetry
CONSTRAINT Followed
