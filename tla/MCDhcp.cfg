SPECIFICATION FairSpec
CONSTANTS
    s1 = s1
    s2 = s2
    a1 = a1
    a2 = a2
    NoAddr = NoAddr
    Servers <- MCServers
    Addrs <- MCAddrs
    Pool <- MCPool
    Terse <- MCTerse
    RETRY_TICKS = 1
    MAX_COMMANDS = 2
INVARIANTS
    TypeOK
    SourceIsLeasedUndisturbed
    LeaseIsWhole
PROPERTIES
    GetsConfigured
CHECK_DEADLOCK FALSE
