SPECIFICATION FairSpec
CONSTANTS
    a = a
    b = b
    c = c
    t = t
    u = u
    NoName = NoName
    NoId = NoId
    Absent = Absent
    Names <- MCTwoNames
    Ids <- MCIds
    Texts <- MCOneText
    Hello = a
    HelloText <- MCHelloText
    MAX_FILES = 2
    MAX_FILE_SIZE = 2
    SLOTS_PER_SECTOR = 1
    CATALOG_SECTORS = 2
    DATA_START_SECTOR = 5
    PowerLosses = FALSE
    ReadFaults = FALSE
    WriteFaults = FALSE
PROPERTIES
    BuiltFileIsThere
