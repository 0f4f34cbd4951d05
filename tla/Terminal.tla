------------------------------- MODULE Terminal -------------------------------
(***************************************************************************)
(* The terminal of kernel/terminal/terminal.c: a history of rows longer    *)
(* than the screen, a cursor in it, and a view of it that is drawn into    *)
(* the VGA memory.  The shell, the editor, the calculator and Lelya write  *)
(* to it from the keyboard interrupt, the network from the main loop.      *)
(*                                                                         *)
(* One step is one call.  A call made by the main loop can be interrupted  *)
(* by one made by the shell: TerminalContexts models that.                 *)
(***************************************************************************)
EXTENDS Integers, Sequences, SequencesExt

CONSTANTS
    MAX_ROWS, MAX_COLS,     \* the screen
    SCROLLBACK_ROWS,        \* the history
    Glyphs,                 \* printable characters
    Space, Newline, Backspace,
    MAX_BATCH_DEPTH         \* bound: nested batches

ASSUME ScreenAssumption ==
    /\ MAX_ROWS \in Nat \ {0} /\ MAX_COLS \in Nat \ {0}
    /\ SCROLLBACK_ROWS \in Nat /\ SCROLLBACK_ROWS > MAX_ROWS
ASSUME GlyphsAssumption == {Space, Newline, Backspace} \cap Glyphs = {}
ASSUME BoundsAssumption == MAX_BATCH_DEPTH \in Nat

VARIABLES
    screen_history,         \* row -> column -> character
    line_lengths,           \* row -> how many characters the row holds
    line_wrapped,           \* row -> does the line go on in the next row
    cursor_row, cursor_col,
    total_rows,             \* rows in use
    view_top_row,           \* the first row shown
    render_batch_depth, render_pending,
    vga,                    \* the screen: row -> column -> character
    text,                   \* what was written since the last clear and is still in the history
    moved                   \* was the cursor placed elsewhere since the last clear

history == <<screen_history, line_lengths, line_wrapped>>
cursor == <<cursor_row, cursor_col>>
batch == <<render_batch_depth, render_pending>>
written == <<text, moved>>
vars == <<history, cursor, total_rows, view_top_row, batch, vga, written>>

HistoryRows == 0 .. (SCROLLBACK_ROWS - 1)
ScreenRows == 0 .. (MAX_ROWS - 1)
Cols == 0 .. (MAX_COLS - 1)
BlankRow == [col \in Cols |-> Space]

Larger(m, n) == IF m < n THEN n ELSE m
Smaller(m, n) == IF m < n THEN m ELSE n

-----------------------------------------------------------------------------
(* The view.                                                               *)

live_view_top_row(total) == Larger(total - MAX_ROWS, 0)

\* What render_view draws, of the state the call leaves.
View(rows, total, top) ==
    [r \in ScreenRows |-> IF top + r < total THEN rows[top + r] ELSE BlankRow]

\* Every call ends by drawing the view, or by leaving that to the end of the batch.
request_render_forgetting ==
    IF render_batch_depth > 0
    THEN UNCHANGED <<batch, vga>>
    ELSE vga' = View(screen_history', total_rows', view_top_row') /\ UNCHANGED batch
request_render ==
    IF render_batch_depth > 0
    THEN render_pending' = TRUE /\ UNCHANGED <<render_batch_depth, vga>>
    ELSE vga' = View(screen_history', total_rows', view_top_row') /\ UNCHANGED batch

sync_view_to_bottom == view_top_row' = live_view_top_row(total_rows')

\* The view after ensure_cursor_visible.
VisibleTop(row) ==
    IF row < view_top_row THEN row
    ELSE IF row >= view_top_row + MAX_ROWS THEN row - MAX_ROWS + 1
    ELSE view_top_row

-----------------------------------------------------------------------------
(* The history.                                                            *)

\* shift_history_up: one column of the history's data moved up by a row.
Up(f, blank) ==
    [row \in HistoryRows |-> IF row = SCROLLBACK_ROWS - 1 THEN blank ELSE f[row + 1]]

\* advance_to_next_row on the history's data: the next row is cleared, and the whole
\* history moves up when there is none.
Advance(f, blank) ==
    IF cursor_row + 1 = SCROLLBACK_ROWS THEN Up(f, blank)
    ELSE [f EXCEPT ![cursor_row + 1] = blank]

AdvanceCursor_beyond ==
    /\ cursor_col' = 0
    /\ cursor_row' = cursor_row + 1
    /\ total_rows' = Larger(total_rows, Smaller(cursor_row + 2, SCROLLBACK_ROWS))
AdvanceCursor_keeping_total ==
    /\ cursor_col' = 0
    /\ cursor_row' = Smaller(cursor_row + 1, SCROLLBACK_ROWS - 1)
    /\ UNCHANGED total_rows
AdvanceCursor ==
    /\ cursor_col' = 0
    /\ cursor_row' = Smaller(cursor_row + 1, SCROLLBACK_ROWS - 1)
    /\ total_rows' = Larger(total_rows, cursor_row' + 1)

\* Where the text of a row ends, for a cursor coming back to it.
EndOfRow(row) == IF line_wrapped[row] THEN MAX_COLS - 1 ELSE line_lengths[row]

-----------------------------------------------------------------------------
(* The text that was written, for as long as the cursor only moved by writing. *)

RowText(row) ==
    [i \in 1 .. line_lengths[row] |-> screen_history[row][i - 1]]
        \o (IF line_wrapped[row] THEN <<>> ELSE <<Newline>>)

\* The text one character longer, without the row the history lost.
Write(c) ==
    text' = IF moved THEN text
            ELSE IF cursor_row + 1 = SCROLLBACK_ROWS /\ (c = Newline \/ cursor_col + 1 >= MAX_COLS)
            THEN SubSeq(Append(text, c), Len(RowText(0)) + 1, Len(text) + 1)
            ELSE Append(text, c)

Move ==
    /\ moved' = TRUE
    /\ text' = <<>>

-----------------------------------------------------------------------------

Init ==
    /\ screen_history = [row \in HistoryRows |-> BlankRow]
    /\ line_lengths = [row \in HistoryRows |-> 0]
    /\ line_wrapped = [row \in HistoryRows |-> FALSE]
    /\ cursor_row = 0 /\ cursor_col = 0
    /\ total_rows = 1
    /\ view_top_row = 0
    /\ render_batch_depth = 0 /\ render_pending = FALSE
    /\ vga = [row \in ScreenRows |-> BlankRow]
    /\ text = <<>>
    /\ moved = FALSE

put_newline ==
    /\ screen_history' = Advance(screen_history, BlankRow)
    /\ line_lengths' = Advance([line_lengths EXCEPT ![cursor_row] = cursor_col], 0)
    /\ line_wrapped' = Advance([line_wrapped EXCEPT ![cursor_row] = FALSE], FALSE)
    /\ AdvanceCursor
    /\ Write(Newline)
    /\ UNCHANGED moved
    /\ sync_view_to_bottom
    /\ request_render

\* A character that leaves room in its row.
put_glyph(c) ==
    /\ cursor_col + 1 < MAX_COLS
    /\ screen_history' = [screen_history EXCEPT ![cursor_row][cursor_col] = c]
    /\ cursor_col' = cursor_col + 1
    /\ line_lengths' = [line_lengths EXCEPT ![cursor_row] = cursor_col + 1]
    /\ line_wrapped' = [line_wrapped EXCEPT ![cursor_row] = FALSE]
    /\ Write(c)
    /\ UNCHANGED <<cursor_row, total_rows, moved>>
    /\ sync_view_to_bottom
    /\ request_render

\* A character that fills its row.
put_last_glyph_unwrapped(c) ==
    /\ cursor_col + 1 >= MAX_COLS
    /\ screen_history' =
          Advance([screen_history EXCEPT ![cursor_row][cursor_col] = c], BlankRow)
    /\ line_lengths' = Advance([line_lengths EXCEPT ![cursor_row] = cursor_col + 1], 0)
    /\ line_wrapped' = Advance(line_wrapped, FALSE)
    /\ AdvanceCursor
    /\ Write(c)
    /\ UNCHANGED moved
    /\ sync_view_to_bottom
    /\ request_render
put_last_glyph(c) ==
    /\ cursor_col + 1 >= MAX_COLS
    /\ screen_history' =
          Advance([screen_history EXCEPT ![cursor_row][cursor_col] = c], BlankRow)
    /\ line_lengths' = Advance([line_lengths EXCEPT ![cursor_row] = cursor_col + 1], 0)
    /\ line_wrapped' = Advance([line_wrapped EXCEPT ![cursor_row] = TRUE], FALSE)
    /\ AdvanceCursor
    /\ Write(c)
    /\ UNCHANGED moved
    /\ sync_view_to_bottom
    /\ request_render

\* At the first column of the first row there is nothing to erase.
put_backspace_nowhere ==
    /\ cursor_row = 0 /\ cursor_col = 0
    /\ UNCHANGED <<history, cursor, total_rows, written>>
    /\ sync_view_to_bottom
    /\ request_render

put_backspace ==
    LET row == IF cursor_col > 0 THEN cursor_row ELSE cursor_row - 1
        col == IF cursor_col > 0 THEN cursor_col - 1 ELSE EndOfRow(cursor_row - 1)
    IN  /\ cursor_row > 0 \/ cursor_col > 0
        /\ cursor_row' = row
        /\ cursor_col' = col
        /\ line_lengths' = [line_lengths EXCEPT ![row] = col]
        /\ line_wrapped' =
              [line_wrapped EXCEPT ![row] = IF col = MAX_COLS - 1 THEN FALSE ELSE @]
        /\ screen_history' = [screen_history EXCEPT ![row][col] = Space]
        /\ text' = IF text = <<>> THEN text ELSE Front(text)
        /\ UNCHANGED <<total_rows, moved>>
        /\ sync_view_to_bottom
        /\ request_render

terminal_put_char ==
    \/ put_newline
    \/ \E c \in Glyphs : put_glyph(c) \/ put_last_glyph(c)
    \/ put_backspace_nowhere \/ put_backspace

-----------------------------------------------------------------------------

terminal_clear ==
    /\ screen_history' = [row \in HistoryRows |-> BlankRow]
    /\ line_lengths' = [row \in HistoryRows |-> 0]
    /\ line_wrapped' = [row \in HistoryRows |-> FALSE]
    /\ cursor_row' = 0 /\ cursor_col' = 0
    /\ total_rows' = 1
    /\ view_top_row' = 0
    /\ text' = <<>>
    /\ moved' = FALSE
    /\ request_render

\* The places are those after clamping to the rows in use.
terminal_set_cursor_absolute(row, col) ==
    /\ row < total_rows
    /\ cursor_row' = row
    /\ cursor_col' = col
    /\ view_top_row' = VisibleTop(row)
    /\ Move
    /\ UNCHANGED <<history, total_rows>>
    /\ request_render

MoveTo(row, col) ==
    /\ cursor_row' = row
    /\ cursor_col' = col
    /\ view_top_row' = VisibleTop(row)
    /\ Move
    /\ UNCHANGED <<history, total_rows>>
    /\ request_render

terminal_move_cursor_left ==
    \/ cursor_col > 0 /\ MoveTo(cursor_row, cursor_col - 1)
    \/ cursor_col = 0 /\ cursor_row > 0 /\ MoveTo(cursor_row - 1, EndOfRow(cursor_row - 1))

terminal_move_cursor_right ==
    LET inRow == IF line_wrapped[cursor_row] THEN cursor_col < MAX_COLS - 1
                 ELSE cursor_col < line_lengths[cursor_row]
    IN  \/ inRow /\ MoveTo(cursor_row, cursor_col + 1)
        \/ ~inRow /\ cursor_row + 1 < total_rows /\ MoveTo(cursor_row + 1, 0)

terminal_set_cursor_offset(row, col) ==
    /\ cursor_row' = view_top_row + row
    /\ cursor_col' = col
    /\ total_rows' = Larger(total_rows, view_top_row + row + 1)
    /\ Move
    /\ UNCHANGED <<history, view_top_row>>
    /\ request_render

terminal_scroll_page_up ==
    /\ view_top_row > 0
    /\ view_top_row' = Larger(view_top_row - MAX_ROWS, 0)
    /\ UNCHANGED <<history, cursor, total_rows, written>>
    /\ request_render

terminal_scroll_page_down ==
    /\ view_top_row < live_view_top_row(total_rows)
    /\ view_top_row' = Smaller(view_top_row + MAX_ROWS, live_view_top_row(total_rows))
    /\ UNCHANGED <<history, cursor, total_rows, written>>
    /\ request_render

terminal_begin_batch ==
    /\ render_batch_depth < MAX_BATCH_DEPTH
    /\ render_batch_depth' = render_batch_depth + 1
    /\ UNCHANGED <<history, cursor, total_rows, view_top_row, render_pending, vga, written>>

terminal_end_batch ==
    /\ render_batch_depth > 0
    /\ render_batch_depth' = render_batch_depth - 1
    /\ IF render_batch_depth = 1 /\ render_pending
       THEN /\ render_pending' = FALSE
            /\ vga' = View(screen_history, total_rows, view_top_row)
       ELSE UNCHANGED <<render_pending, vga>>
    /\ UNCHANGED <<history, cursor, total_rows, view_top_row, written>>

Next ==
    \/ terminal_put_char
    \/ terminal_clear
    \/ \E row \in HistoryRows, col \in Cols : terminal_set_cursor_absolute(row, col)
    \/ terminal_move_cursor_left \/ terminal_move_cursor_right
    \/ \E row \in ScreenRows, col \in Cols : terminal_set_cursor_offset(row, col)
    \/ terminal_scroll_page_up \/ terminal_scroll_page_down
    \/ terminal_begin_batch \/ terminal_end_batch

Spec == Init /\ [][Next]_vars

-----------------------------------------------------------------------------
(* Properties.                                                             *)

Characters == Glyphs \cup {Space}

(* Every variable keeps its type: the cursor stays inside the history and  *)
(* its columns, and a call never reads or writes a row or a column that is *)
(* not there.                                                              *)
TypeOK ==
    /\ screen_history \in [HistoryRows -> [Cols -> Characters]]
    /\ line_lengths \in [HistoryRows -> 0 .. MAX_COLS]
    /\ line_wrapped \in [HistoryRows -> BOOLEAN]
    /\ cursor_row \in HistoryRows
    /\ cursor_col \in Cols
    /\ total_rows \in 1 .. SCROLLBACK_ROWS
    /\ view_top_row \in HistoryRows
    /\ render_batch_depth \in 0 .. MAX_BATCH_DEPTH
    /\ render_pending \in BOOLEAN
    /\ vga \in [ScreenRows -> [Cols -> Characters]]
    /\ text \in Seq(Glyphs \cup {Newline})
    /\ moved \in BOOLEAN

(* The cursor is in a row in use, the view never starts below its live     *)
(* position, and a row filled to its last column is one that wraps, which  *)
(* keeps EndOfRow inside the row (terminal_put_char, shift_history_up,     *)
(* ensure_history_room, terminal_set_cursor_offset).                       *)
RowsInUse ==
    /\ cursor_row < total_rows
    /\ view_top_row <= live_view_top_row(total_rows)
    /\ \A row \in HistoryRows : line_lengths[row] = MAX_COLS => line_wrapped[row]
    /\ \A row \in HistoryRows : row >= total_rows => screen_history[row] = BlankRow

(* Outside a batch the screen shows the view, whatever call came last: no  *)
(* call forgets to draw, and none leaves a drawing pending.                *)
ScreenIsCurrent ==
    render_batch_depth = 0 =>
        /\ ~render_pending
        /\ vga = View(screen_history, total_rows, view_top_row)

(* The history loses nothing: read back row by row, joining the rows that  *)
(* wrapped, it gives the text that was written less what was erased, from  *)
(* the first row it still holds (put_char's wrapping and erasing,          *)
(* shift_history_up).                                                      *)
ReadsBack ==
    ~moved =>
        text = FlattenSeq([r \in 1 .. cursor_row |-> RowText(r - 1)])
               \o [i \in 1 .. cursor_col |-> screen_history[cursor_row][i - 1]]
=============================================================================
