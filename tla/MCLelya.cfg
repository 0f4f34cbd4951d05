SPECIFICATION FairSpec
CONSTANTS
    Programs <- MCPrograms
    Inputs = {0, 2}
    Bits = 3
    MAX_LOOP_DEPTH = 2
    MAX_VARS = 2
    MAX_STRINGS = 2
    MAX_JUMPS = 2
    STACK_SIZE = 3
INVARIANTS
    TypeOK
    StaysInCode
    StackEmptyBetween
PROPERTIES
    ImplementsSource
    CompileEnds
CHECK_DEADLOCK FALSE
