-------------------------------- MODULE Editor --------------------------------
(***************************************************************************)
(* The text editor, apps/editor/: its buffer, its cursor, what a key does, *)
(* and where the cursor is drawn.                                          *)
(*                                                                         *)
(* An editor is [buffer, len, cursor, status]: buffer is the C array, the  *)
(* text its first len characters, and the character after them is NUL when *)
(* all is well, for saving writes the buffer up to its first NUL.          *)
(***************************************************************************)
EXTENDS Integers, Sequences, FiniteSetsExt

CONSTANTS
    EDITOR_BUFFER_SIZE,
    TERMINAL_COLS,
    HISTORY_ROWS,           \* rows of the terminal's history
    TAB                     \* spaces a tab stands for: 4

ASSUME SizesAssumption ==
    /\ EDITOR_BUFFER_SIZE \in Nat \ {0} /\ TERMINAL_COLS \in Nat \ {0}
    /\ HISTORY_ROWS \in Nat \ {0, 1, 2, 3} /\ TAB \in Nat

EDITOR_TEXT_START_ROW == 3
NUL == "NUL"
Newline == "nl"
Characters == {"1", "!", " ", Newline}      \* what a text is made of

Cells == 0 .. EDITOR_BUFFER_SIZE - 1

Text(ed) == [i \in 1 .. ed.len |-> ed.buffer[i - 1]]

\* The C string that begins at the buffer.
CString(buffer) ==
    LET length == Min({i \in Cells : buffer[i] = NUL} \cup {EDITOR_BUFFER_SIZE})
    IN  [i \in 1 .. length |-> buffer[i - 1]]

BufferOf(text) == [i \in Cells |-> IF i < Len(text) THEN text[i + 1] ELSE NUL]

-----------------------------------------------------------------------------
(* Loading and saving *)

\* A file that cannot be read is taken for a new one.
editor_file_load(text, readable) ==
    IF readable
    THEN [buffer |-> BufferOf(text), len |-> Len(text), cursor |-> Len(text), status |-> ""]
    ELSE [buffer |-> BufferOf(<<>>), len |-> 0, cursor |-> 0, status |-> "New file"]

-----------------------------------------------------------------------------
(* The buffer *)

Full(ed) == ed.len >= EDITOR_BUFFER_SIZE - 1

Inserted(ed, c) ==
    [i \in Cells |-> IF i < ed.cursor \/ i > ed.len + 1 THEN ed.buffer[i]
                     ELSE IF i = ed.cursor THEN c
                     ELSE ed.buffer[i - 1]]

editor_buffer_insert(ed, c) ==
    IF Full(ed) THEN ed
    ELSE [ed EXCEPT !.buffer = Inserted(ed, c), !.len = @ + 1, !.cursor = @ + 1]

\* Slip: the NUL left behind.
editor_buffer_delete_short(ed) ==
    IF ed.cursor <= 0 THEN ed
    ELSE [ed EXCEPT !.buffer = [i \in Cells |-> IF i \in ed.cursor - 1 .. ed.len - 2
                                                THEN ed.buffer[i + 1] ELSE ed.buffer[i]],
                    !.len = @ - 1, !.cursor = @ - 1]
editor_buffer_delete(ed) ==
    IF ed.cursor <= 0 THEN ed
    ELSE [ed EXCEPT !.buffer = [i \in Cells |-> IF i \in ed.cursor - 1 .. ed.len - 1
                                                THEN ed.buffer[i + 1] ELSE ed.buffer[i]],
                    !.len = @ - 1, !.cursor = @ - 1]

-----------------------------------------------------------------------------
(* The cursor *)

Place(row, col) == [row |-> row, col |-> col]

\* Slip: the row ends one column late.
editor_step_visual_position_late(c, place) ==
    IF c = Newline \/ place.col + 1 > TERMINAL_COLS
    THEN Place(place.row + 1, 0)
    ELSE Place(place.row, place.col + 1)
editor_step_visual_position(c, place) ==
    IF c = Newline \/ place.col + 1 >= TERMINAL_COLS
    THEN Place(place.row + 1, 0)
    ELSE Place(place.row, place.col + 1)

\* Where the editor takes the character at an index to be drawn.
editor_cursor_get_visual_position(ed, index) ==
    LET at[i \in 0 .. index] ==
            IF i = 0 THEN Place(EDITOR_TEXT_START_ROW, 0)
            ELSE editor_step_visual_position(ed.buffer[i - 1], at[i - 1])
    IN  at[index]

\* The first index of the row at that column or behind, or the last of the row.
\* Slip: a row that is too short has no place for the cursor.
editor_cursor_index_exact(ed, row, col) ==
    LET at == [i \in 0 .. ed.len |-> editor_cursor_get_visual_position(ed, i)]
        on == {i \in 0 .. ed.len : at[i].row = row}
        behind == {i \in on : at[i].col >= col}
    IN  IF behind # {} THEN Min(behind) ELSE -1
editor_cursor_index_from_visual_position(ed, row, col) ==
    LET at == [i \in 0 .. ed.len |-> editor_cursor_get_visual_position(ed, i)]
        on == {i \in 0 .. ed.len : at[i].row = row}
        behind == {i \in on : at[i].col >= col}
    IN  IF on = {} THEN -1 ELSE IF behind # {} THEN Min(behind) ELSE Max(on)

CursorRow(ed, rows) ==
    LET here == editor_cursor_get_visual_position(ed, ed.cursor)
        next == editor_cursor_index_from_visual_position(ed, here.row + rows, here.col)
    IN  IF next >= 0 THEN [ed EXCEPT !.cursor = next] ELSE ed

editor_cursor_move(ed, key) ==
    IF key = "left" /\ ed.cursor > 0 THEN [ed EXCEPT !.cursor = @ - 1]
    ELSE IF key = "right" /\ ed.cursor < ed.len THEN [ed EXCEPT !.cursor = @ + 1]
    ELSE IF key = "up" THEN CursorRow(ed, -1)
    ELSE IF key = "down" THEN CursorRow(ed, 1)
    ELSE ed

-----------------------------------------------------------------------------
(* Drawing: three rows, then the text through terminal_put_char, which moves *)
(* the rows up when the history is full                                      *)

TerminalRow(place) ==
    IF place.row = HISTORY_ROWS - 1
    THEN [row |-> place.row, col |-> 0, moved |-> place.moved + 1]
    ELSE [row |-> place.row + 1, col |-> 0, moved |-> place.moved]

terminal_put_char(c, place) ==
    IF c = Newline THEN TerminalRow(place)
    ELSE IF place.col + 1 = TERMINAL_COLS THEN TerminalRow(place)
    ELSE [place EXCEPT !.col = @ + 1]

\* Where the terminal stands after the first n characters of the text.
Drawn(ed, n) ==
    LET at[i \in 0 .. n] ==
            IF i = 0 THEN [row |-> EDITOR_TEXT_START_ROW, col |-> 0, moved |-> 0]
            ELSE terminal_put_char(ed.buffer[i - 1], at[i - 1])
    IN  at[n]

\* terminal_set_cursor_absolute keeps the cursor inside the rows in use.
editor_render(ed) ==
    LET place == editor_cursor_get_visual_position(ed, ed.cursor)
        last == Drawn(ed, ed.len).row
    IN  Place(IF place.row > last THEN last ELSE place.row, place.col)

-----------------------------------------------------------------------------
(* Keys *)

Inserting(ed, c) ==
    [editor_buffer_insert(ed, c) EXCEPT !.status = IF Full(ed) THEN "Buffer full" ELSE ""]

Tabbed(ed) ==
    LET after[n \in 0 .. TAB] == IF n = 0 THEN ed ELSE editor_buffer_insert(after[n - 1], " ")
    IN  [after[TAB] EXCEPT !.status = IF after[TAB].len = ed.len + TAB THEN "" ELSE "Buffer full"]

\* Slip: a deletion leaves the last message.
Deleting_quietly(ed) == editor_buffer_delete(ed)
Deleting(ed) == [editor_buffer_delete(ed) EXCEPT !.status = ""]

\* What an event does to the editor, but for saving (F2) and leaving (Esc).
editor_input_handle_event(ed, event) ==
    IF event.extended THEN editor_cursor_move(ed, event.key)
    ELSE CASE event.character \in {Newline, "1", "!"} -> Inserting(ed, event.character)
           [] event.character = "bs" -> Deleting(ed)
           [] event.character = "tab" -> Tabbed(ed)
           [] OTHER -> ed
=============================================================================
