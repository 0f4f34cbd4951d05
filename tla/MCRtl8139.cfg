SPECIFICATION FairSpec
CONSTANTS
    BUSES = 3
    CardBuses = {1, 3}
    RING = 256
    PacketLengths = {64, 97, 111}
    MAX_PACKET = 110
    SLOTS = 2
    Contents <- MCContents
    OptionLists <- MCOptionLists
    Codes = {53}
    MAX_FRAMES = 4
    MAX_SENDS = 3
    MAX_WORK = 5
INVARIANTS
    TypeOK
    PayloadWithinFrame
    OptionIsThere
    SentWhole
PROPERTIES
    ImplementsQueue
    OverflowAcknowledged
    AllSent
