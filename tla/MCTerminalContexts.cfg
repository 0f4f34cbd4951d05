SPECIFICATION ContextsSpec
CONSTANTS
    x = x
    y = y
    Space = Space
    Newline = Newline
    Backspace = Backspace
    Glyphs <- MCTwoGlyphs
    NetGlyph = x
    ShellGlyph = y
    MAX_ROWS = 2
    MAX_COLS = 2
    SCROLLBACK_ROWS = 3
    MAX_BATCH_DEPTH = 0
    MAX_NET = 3
    MAX_SHELL = 1
INVARIANTS
    ShellOutputKept
CHECK_DEADLOCK FALSE
