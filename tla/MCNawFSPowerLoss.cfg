SPECIFICATION Spec
CONSTANTS
    a = a
    b = b
    c = c
    t = t
    u = u
    NoName = NoName
    NoId = NoId
    Absent = Absent
    Names <- MCThreeNames
    Ids <- MCIds
    Texts <- MCTexts
    Hello = a
    HelloText <- MCHelloText
    MAX_FILES = 3
    MAX_FILE_SIZE = 2
    SLOTS_PER_SECTOR = 2
    CATALOG_SECTORS = 2
    DATA_START_SECTOR = 5
    PowerLosses = TRUE
    ReadFaults = FALSE
    WriteFaults = FALSE
SYMMETRY MCSymmetry
INVARIANTS
    TypeOK
    NoCrossLink
    CatalogInSync
    WriteStores
PROPERTIES
    ImplementsStore
