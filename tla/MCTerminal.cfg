SPECIFICATION Spec
CONSTANTS
    x = x
    Space = Space
    Newline = Newline
    Backspace = Backspace
    Glyphs <- MCGlyphs
    MAX_ROWS = 2
    MAX_COLS = 2
    SCROLLBACK_ROWS = 3
    MAX_BATCH_DEPTH = 1
INVARIANTS
    TypeOK
    RowsInUse
    ScreenIsCurrent
    ReadsBack
