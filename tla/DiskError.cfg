CONSTANTS
    DriveSectors = 5
    LbaLimit = 4
    SectorsPerBlock = 2
    Contents = {c0, c1}
    RequestBlocks = 2
    RequestLimit = 2
SPECIFICATION AtaSpec
PROPERTY ErrorEndsWithItsRequest
