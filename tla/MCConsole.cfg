SPECIFICATION FairSpec
CONSTANTS
    Keys <- MCKeys
    Extended <- MCExtended
    Files <- MCFiles
    Absent = Absent
    Lines <- MCLines
    EDITOR_BUFFER_SIZE = 5
    TERMINAL_COLS = 2
    HISTORY_ROWS = 6
    TAB = 2
    LINE_SIZE = 3
    NUMBER_SIZE = 2
    MAX_PRESSES = 3
    MAX_HELD = 2
    MAX_QUEUE = 2
INVARIANTS
    TypeOK
    ActedOnce
    NoPressLost
    TextEndsAtNul
    SavedIsShown
    CursorOnItsCharacter
    VerticalMoves
PROPERTIES
    EveryPressAnswered
CHECK_DEADLOCK FALSE
