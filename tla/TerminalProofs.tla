---------------------------- MODULE TerminalProofs ----------------------------
(* The terminal keeps its cursor, its rows and its screen in order, and loses  *)
(* nothing that was written, for every size of screen and history and every    *)
(* sequence of calls.                                                          *)
EXTENDS Terminal, Induction, SequenceTheorems, TLAPS

USE DEF history, cursor, batch, written

Rows == [HistoryRows -> [Cols -> Characters]]

(* The history, the cursor and the view of it.                                 *)
Shape ==
    /\ screen_history \in Rows
    /\ line_lengths \in [HistoryRows -> 0 .. MAX_COLS]
    /\ line_wrapped \in [HistoryRows -> BOOLEAN]
    /\ cursor_row \in HistoryRows
    /\ cursor_col \in Cols
    /\ total_rows \in 1 .. SCROLLBACK_ROWS
    /\ view_top_row \in HistoryRows
    /\ text \in Seq(Glyphs \cup {Newline})
    /\ moved \in BOOLEAN
    /\ RowsInUse

(* What the screen shows is the view unless a batch still has it to draw.      *)
Drawing ==
    /\ render_batch_depth \in 0 .. MAX_BATCH_DEPTH
    /\ render_pending \in BOOLEAN
    /\ vga \in [ScreenRows -> [Cols -> Characters]]
    /\ render_batch_depth = 0 => ~render_pending
    /\ ~render_pending => vga = View(screen_history, total_rows, view_top_row)

IInv == Shape /\ Drawing

-----------------------------------------------------------------------------

LEMMA SizesAre ==
  /\ MAX_ROWS \in Nat /\ MAX_ROWS > 0 /\ MAX_COLS \in Nat /\ MAX_COLS > 0
  /\ SCROLLBACK_ROWS \in Nat /\ SCROLLBACK_ROWS > MAX_ROWS
BY ScreenAssumption

(* The live view of a number of rows.                                          *)
LEMMA LiveTop ==
  ASSUME NEW total \in 1 .. SCROLLBACK_ROWS
  PROVE  /\ live_view_top_row(total) \in HistoryRows /\ live_view_top_row(total) \in Nat
         /\ live_view_top_row(total) < total
         /\ live_view_top_row(total) + MAX_ROWS <= SCROLLBACK_ROWS
         /\ \A more \in 1 .. SCROLLBACK_ROWS :
                total <= more => live_view_top_row(total) <= live_view_top_row(more)
BY SizesAre DEF live_view_top_row, Larger, HistoryRows

(* The next row, and the rows in use when the cursor goes there.               *)
LEMMA NextRow ==
  ASSUME NEW row \in HistoryRows, NEW total \in 1 .. SCROLLBACK_ROWS, row < total,
         NEW next, next = Smaller(row + 1, SCROLLBACK_ROWS - 1),
         NEW more, more = Larger(total, next + 1)
  PROVE  /\ next = IF row + 1 = SCROLLBACK_ROWS THEN row ELSE row + 1
         /\ next \in HistoryRows /\ next < more /\ more \in 1 .. SCROLLBACK_ROWS
         /\ more = IF row + 1 = total /\ total # SCROLLBACK_ROWS THEN total + 1 ELSE total
         /\ total <= more
<1>1. row \in Nat /\ row < SCROLLBACK_ROWS /\ total \in Nat /\ total <= SCROLLBACK_ROWS
  BY SizesAre DEF HistoryRows
<1>2. next = IF row + 1 = SCROLLBACK_ROWS THEN row ELSE row + 1
  BY <1>1, SizesAre DEF Smaller
<1>3. more = IF row + 1 = total /\ total # SCROLLBACK_ROWS THEN total + 1 ELSE total
  BY <1>1, <1>2, SizesAre DEF Larger
<1> QED
  BY <1>1, <1>2, <1>3, SizesAre DEF HistoryRows

LEMMA BlankIs == BlankRow \in [Cols -> Characters]
BY DEF BlankRow, Characters

LEMMA ViewType ==
  ASSUME NEW rows \in Rows, NEW total \in 1 .. SCROLLBACK_ROWS, NEW top \in HistoryRows
  PROVE  View(rows, total, top) \in [ScreenRows -> [Cols -> Characters]]
<1> SUFFICES ASSUME NEW r \in ScreenRows
             PROVE  (IF top + r < total THEN rows[top + r] ELSE BlankRow) \in [Cols -> Characters]
  BY DEF View
<1>1. top + r < total => top + r \in HistoryRows
  BY SizesAre DEF ScreenRows, HistoryRows
<1> QED
  BY <1>1, BlankIs DEF Rows

(* Drawing the view, or putting it off in a batch.                             *)
LEMMA Draws ==
  ASSUME Drawing, Shape', request_render
  PROVE  Drawing'
<1>1. View(screen_history', total_rows', view_top_row') \in [ScreenRows -> [Cols -> Characters]]
  BY ViewType DEF Shape
<1>2. CASE render_batch_depth > 0
  BY <1>2 DEF Drawing, request_render
<1>3. CASE ~(render_batch_depth > 0)
  <2>1. render_batch_depth = 0
    BY <1>3, BoundsAssumption DEF Drawing
  <2> QED
    BY <1>1, <1>3, <2>1 DEF Drawing, request_render
<1> QED
  BY <1>2, <1>3

(* One column of the history after going to the next row.                      *)
LEMMA AdvanceIs ==
  ASSUME NEW D, NEW f \in [HistoryRows -> D], NEW blank \in D, cursor_row \in HistoryRows
  PROVE  Advance(f, blank) \in [HistoryRows -> D]
<1>1. CASE cursor_row + 1 = SCROLLBACK_ROWS
  <2>1. \A row \in HistoryRows : row # SCROLLBACK_ROWS - 1 => row + 1 \in HistoryRows
    BY SizesAre DEF HistoryRows
  <2> QED
    BY <1>1, <2>1 DEF Advance, Up
<1>2. CASE cursor_row + 1 # SCROLLBACK_ROWS
  BY <1>2 DEF Advance
<1> QED
  BY <1>1, <1>2

(* The same of all three columns, and of the rows in use.                      *)
LEMMA AdvanceKeeps ==
  ASSUME NEW rows \in Rows, NEW lengths \in [HistoryRows -> 0 .. MAX_COLS],
         NEW wraps \in [HistoryRows -> BOOLEAN],
         \A row \in HistoryRows : lengths[row] = MAX_COLS => wraps[row],
         \A row \in HistoryRows : row >= total_rows => rows[row] = BlankRow,
         cursor_row \in HistoryRows, total_rows \in 1 .. SCROLLBACK_ROWS, cursor_row < total_rows,
         screen_history' = Advance(rows, BlankRow), line_lengths' = Advance(lengths, 0),
         line_wrapped' = Advance(wraps, FALSE), AdvanceCursor, sync_view_to_bottom
  PROVE  /\ screen_history' \in Rows
         /\ line_lengths' \in [HistoryRows -> 0 .. MAX_COLS]
         /\ line_wrapped' \in [HistoryRows -> BOOLEAN]
         /\ cursor_row' \in HistoryRows /\ cursor_col' \in Cols
         /\ total_rows' \in 1 .. SCROLLBACK_ROWS /\ view_top_row' \in HistoryRows
         /\ RowsInUse'
<1>1. /\ screen_history' \in Rows
      /\ line_lengths' \in [HistoryRows -> 0 .. MAX_COLS]
      /\ line_wrapped' \in [HistoryRows -> BOOLEAN]
  <2>1. screen_history' \in Rows
    BY BlankIs, AdvanceIs DEF Rows
  <2>2. 0 \in 0 .. MAX_COLS
    BY SizesAre
  <2>3. line_lengths' \in [HistoryRows -> 0 .. MAX_COLS]
    BY <2>2, AdvanceIs
  <2>4. line_wrapped' \in [HistoryRows -> BOOLEAN]
    BY AdvanceIs
  <2> QED
    BY <2>1, <2>3, <2>4
<1>2. /\ cursor_row' = Smaller(cursor_row + 1, SCROLLBACK_ROWS - 1) /\ cursor_col' = 0
      /\ total_rows' = Larger(total_rows, cursor_row' + 1)
  BY DEF AdvanceCursor
<1>3. /\ total_rows' = IF cursor_row + 1 = total_rows /\ total_rows # SCROLLBACK_ROWS
                       THEN total_rows + 1 ELSE total_rows
      /\ cursor_row' \in HistoryRows /\ cursor_row' < total_rows'
      /\ total_rows' \in 1 .. SCROLLBACK_ROWS /\ total_rows <= total_rows'
  BY <1>2, NextRow
<1>5. cursor_col' \in Cols
  BY <1>2, SizesAre DEF Cols
<1>6. view_top_row' \in HistoryRows /\ view_top_row' <= live_view_top_row(total_rows')
  <2>1. view_top_row' = live_view_top_row(total_rows')
    BY DEF sync_view_to_bottom
  <2> QED
    BY <1>3, <2>1, LiveTop
<1>7. ASSUME NEW row \in HistoryRows, line_lengths'[row] = MAX_COLS
      PROVE  line_wrapped'[row]
  <2>0. 0 \in 0 .. MAX_COLS
    BY SizesAre
  <2>1. line_lengths'[row] = IF cursor_row + 1 = SCROLLBACK_ROWS
                             THEN IF row = SCROLLBACK_ROWS - 1 THEN 0 ELSE lengths[row + 1]
                             ELSE IF row = cursor_row + 1 THEN 0 ELSE lengths[row]
    <3>1. Advance(lengths, 0)[row] =
          IF cursor_row + 1 = SCROLLBACK_ROWS
          THEN IF row = SCROLLBACK_ROWS - 1 THEN 0 ELSE lengths[row + 1]
          ELSE IF row = cursor_row + 1 THEN 0 ELSE lengths[row]
      BY <2>0, SizesAre DEF Advance, Up, HistoryRows
    <3> QED
      BY <3>1
  <2>2. line_wrapped'[row] = IF cursor_row + 1 = SCROLLBACK_ROWS
                             THEN IF row = SCROLLBACK_ROWS - 1 THEN FALSE ELSE wraps[row + 1]
                             ELSE IF row = cursor_row + 1 THEN FALSE ELSE wraps[row]
    <3>1. Advance(wraps, FALSE)[row] =
          IF cursor_row + 1 = SCROLLBACK_ROWS
          THEN IF row = SCROLLBACK_ROWS - 1 THEN FALSE ELSE wraps[row + 1]
          ELSE IF row = cursor_row + 1 THEN FALSE ELSE wraps[row]
      BY SizesAre DEF Advance, Up, HistoryRows
    <3> QED
      BY <3>1
  <2>3. row # SCROLLBACK_ROWS - 1 => row + 1 \in HistoryRows
    BY SizesAre DEF HistoryRows
  <2>4. MAX_COLS # 0
    BY SizesAre
  <2> QED
    BY <1>7, <2>1, <2>2, <2>3, <2>4
<1>8. ASSUME NEW row \in HistoryRows, row >= total_rows'
      PROVE  screen_history'[row] = BlankRow
  <2>1. screen_history'[row] = IF cursor_row + 1 = SCROLLBACK_ROWS
                               THEN IF row = SCROLLBACK_ROWS - 1 THEN BlankRow ELSE rows[row + 1]
                               ELSE IF row = cursor_row + 1 THEN BlankRow ELSE rows[row]
    <3>1. Advance(rows, BlankRow)[row] =
          IF cursor_row + 1 = SCROLLBACK_ROWS
          THEN IF row = SCROLLBACK_ROWS - 1 THEN BlankRow ELSE rows[row + 1]
          ELSE IF row = cursor_row + 1 THEN BlankRow ELSE rows[row]
      BY SizesAre DEF Advance, Up, Rows, HistoryRows
    <3> QED
      BY <3>1
  <2>2. row >= total_rows
    BY <1>3, <1>8, SizesAre DEF HistoryRows
  <2>3. cursor_row + 1 # SCROLLBACK_ROWS
    <3>1. row \in Nat /\ row < SCROLLBACK_ROWS /\ cursor_row \in Nat
      BY SizesAre DEF HistoryRows
    <3> QED
      BY <2>2, <3>1, SizesAre
  <2> QED
    BY <2>1, <2>2, <2>3
<1> QED
  BY <1>1, <1>3, <1>5, <1>6, <1>7, <1>8 DEF RowsInUse

(* The text stays a text.                                                      *)
LEMMA WriteType ==
  ASSUME Shape, NEW c \in Glyphs \cup {Newline}, Write(c)
  PROVE  text' \in Seq(Glyphs \cup {Newline})
<1>1. Append(text, c) \in Seq(Glyphs \cup {Newline}) /\ Len(Append(text, c)) = Len(text) + 1
  BY DEF Shape
<1>2. Len(RowText(0)) \in Nat
  <2> DEFINE chars == [i \in 1 .. line_lengths[0] |-> screen_history[0][i - 1]]
             last == IF line_wrapped[0] THEN <<>> ELSE <<Newline>>
  <2>1. 0 \in HistoryRows /\ line_lengths[0] \in Nat
    BY SizesAre DEF Shape, HistoryRows
  <2>2. \E S : chars \in Seq(S) /\ last \in Seq(S)
    <3> DEFINE S == {chars[i] : i \in 1 .. line_lengths[0]} \cup {Newline}
    <3>1. chars \in [1 .. line_lengths[0] -> S]
      OBVIOUS
    <3>2. last \in Seq(S)
      <4>1. Newline \in S
        OBVIOUS
      <4> HIDE DEF S
      <4>2. <<>> \in Seq(S) /\ <<Newline>> \in Seq(S)
        BY <4>1
      <4> QED
        BY <4>2
    <3> HIDE DEF chars, last, S
    <3>3. chars \in Seq(S)
      BY <2>1, <3>1
    <3> QED
      BY <3>2, <3>3
  <2> HIDE DEF chars, last
  <2>3. Len(chars \o last) \in Nat
    BY <2>2
  <2> QED
    BY <2>3 DEF RowText, chars, last
<1>3. Len(text) \in Nat
  BY DEF Shape
<1>4. SubSeq(Append(text, c), Len(RowText(0)) + 1, Len(text) + 1) \in Seq(Glyphs \cup {Newline})
  <2> DEFINE t == Append(text, c)
             m == Len(RowText(0))
  <2>1. t \in Seq(Glyphs \cup {Newline}) /\ m \in Nat /\ Len(t) = Len(text) + 1
    BY <1>1, <1>2
  <2> HIDE DEF t, m
  <2>2. SubSeq(t, m + 1, Len(t)) \in Seq(Glyphs \cup {Newline})
    BY <2>1
  <2> QED
    BY <2>1, <2>2 DEF t, m
<1> QED
  BY <1>1, <1>4 DEF Write, Shape

-----------------------------------------------------------------------------
(* The calls                                                                   *)

LEMMA CursorFacts ==
  ASSUME Shape
  PROVE  /\ cursor_row \in Nat /\ cursor_row < SCROLLBACK_ROWS /\ cursor_row < total_rows
         /\ cursor_col \in Nat /\ cursor_col < MAX_COLS
         /\ total_rows \in Nat /\ total_rows >= 1 /\ total_rows <= SCROLLBACK_ROWS
         /\ view_top_row \in Nat /\ view_top_row <= live_view_top_row(total_rows)
         /\ live_view_top_row(total_rows) \in Nat
         /\ live_view_top_row(total_rows) < total_rows
BY SizesAre DEF Shape, RowsInUse, HistoryRows, Cols, live_view_top_row, Larger

LEMMA EndOfRowIn ==
  ASSUME Shape, NEW row \in HistoryRows
  PROVE  EndOfRow(row) \in Cols
<1>1. line_lengths[row] \in 0 .. MAX_COLS /\ (line_lengths[row] = MAX_COLS => line_wrapped[row])
  BY DEF Shape, RowsInUse
<1> QED
  BY <1>1, SizesAre DEF EndOfRow, Cols

LEMMA NewlineStep ==
  ASSUME Shape, put_newline
  PROVE  Shape'
<1> DEFINE lengths == [line_lengths EXCEPT ![cursor_row] = cursor_col]
           wraps == [line_wrapped EXCEPT ![cursor_row] = FALSE]
<1>1. lengths \in [HistoryRows -> 0 .. MAX_COLS] /\ wraps \in [HistoryRows -> BOOLEAN]
  BY SizesAre DEF Shape, Cols
<1>2. \A row \in HistoryRows : lengths[row] = MAX_COLS => wraps[row]
  BY CursorFacts, SizesAre DEF Shape, RowsInUse
<1>3. text' \in Seq(Glyphs \cup {Newline})
  BY WriteType DEF put_newline
<1>4. \A row \in HistoryRows : row >= total_rows => screen_history[row] = BlankRow
  BY DEF Shape, RowsInUse
<1>5. /\ screen_history' = Advance(screen_history, BlankRow) /\ line_lengths' = Advance(lengths, 0)
      /\ line_wrapped' = Advance(wraps, FALSE) /\ AdvanceCursor /\ sync_view_to_bottom
      /\ moved' = moved
  BY DEF put_newline
<1>6. /\ screen_history \in Rows /\ cursor_row \in HistoryRows /\ moved \in BOOLEAN
      /\ total_rows \in 1 .. SCROLLBACK_ROWS /\ cursor_row < total_rows
  BY DEF Shape, RowsInUse
<1> HIDE DEF lengths, wraps
<1> QED
  BY <1>1, <1>2, <1>3, <1>4, <1>5, <1>6, AdvanceKeeps DEF Shape

LEMMA CharacterStored ==
  ASSUME Shape, NEW c \in Characters
  PROVE  /\ [screen_history EXCEPT ![cursor_row][cursor_col] = c] \in Rows
         /\ \A row \in HistoryRows : row >= total_rows =>
                [screen_history EXCEPT ![cursor_row][cursor_col] = c][row] = BlankRow
<1>1. /\ screen_history \in Rows /\ cursor_row \in HistoryRows /\ cursor_col \in Cols
      /\ \A row \in HistoryRows : row >= total_rows => screen_history[row] = BlankRow
  BY DEF Shape, RowsInUse
<1>2. \A row \in HistoryRows : row >= total_rows => row # cursor_row
  BY CursorFacts DEF HistoryRows
<1> QED
  BY <1>1, <1>2 DEF Rows

LEMMA LastGlyphStep ==
  ASSUME Shape, NEW c \in Glyphs, put_last_glyph(c)
  PROVE  Shape'
<1> DEFINE rows == [screen_history EXCEPT ![cursor_row][cursor_col] = c]
           lengths == [line_lengths EXCEPT ![cursor_row] = cursor_col + 1]
           wraps == [line_wrapped EXCEPT ![cursor_row] = TRUE]
<1>1. lengths \in [HistoryRows -> 0 .. MAX_COLS] /\ wraps \in [HistoryRows -> BOOLEAN]
  <2>1. cursor_col + 1 \in 0 .. MAX_COLS
    BY CursorFacts, SizesAre
  <2> QED
    BY <2>1 DEF Shape
<1>2. \A row \in HistoryRows : lengths[row] = MAX_COLS => wraps[row]
  BY DEF Shape, RowsInUse
<1>3. text' \in Seq(Glyphs \cup {Newline})
  BY WriteType DEF put_last_glyph
<1>4. rows \in Rows /\ \A row \in HistoryRows : row >= total_rows => rows[row] = BlankRow
  <2>1. c \in Characters
    BY DEF Characters
  <2> QED
    BY <2>1, CharacterStored
<1>5. /\ screen_history' = Advance(rows, BlankRow) /\ line_lengths' = Advance(lengths, 0)
      /\ line_wrapped' = Advance(wraps, FALSE) /\ AdvanceCursor /\ sync_view_to_bottom
      /\ moved' = moved
  BY DEF put_last_glyph
<1>6. /\ cursor_row \in HistoryRows /\ moved \in BOOLEAN
      /\ total_rows \in 1 .. SCROLLBACK_ROWS /\ cursor_row < total_rows
  BY DEF Shape, RowsInUse
<1> HIDE DEF rows, lengths, wraps
<1> QED
  BY <1>1, <1>2, <1>3, <1>4, <1>5, <1>6, AdvanceKeeps DEF Shape

(* The view at the bottom of the rows in use.                                  *)
LEMMA ViewAtBottom ==
  ASSUME total_rows' \in 1 .. SCROLLBACK_ROWS, sync_view_to_bottom
  PROVE  view_top_row' \in HistoryRows /\ view_top_row' <= live_view_top_row(total_rows')
<1>1. view_top_row' = live_view_top_row(total_rows')
  BY DEF sync_view_to_bottom
<1> QED
  BY <1>1, LiveTop

LEMMA GlyphStep ==
  ASSUME Shape, NEW c \in Glyphs, put_glyph(c)
  PROVE  Shape'
<1>1. /\ screen_history' = [screen_history EXCEPT ![cursor_row][cursor_col] = c]
      /\ line_lengths' = [line_lengths EXCEPT ![cursor_row] = cursor_col + 1]
      /\ line_wrapped' = [line_wrapped EXCEPT ![cursor_row] = FALSE]
      /\ cursor_col' = cursor_col + 1 /\ cursor_col + 1 < MAX_COLS
      /\ UNCHANGED <<cursor_row, total_rows, moved>> /\ sync_view_to_bottom
  BY DEF put_glyph
<1>2. screen_history' \in Rows
      /\ \A row \in HistoryRows : row >= total_rows => screen_history'[row] = BlankRow
  <2>1. c \in Characters
    BY DEF Characters
  <2> QED
    BY <1>1, <2>1, CharacterStored
<1>3. cursor_col' \in Cols /\ cursor_col + 1 \in 0 .. MAX_COLS
  BY <1>1, CursorFacts, SizesAre DEF Cols
<1>4. line_lengths' \in [HistoryRows -> 0 .. MAX_COLS] /\ line_wrapped' \in [HistoryRows -> BOOLEAN]
  BY <1>1, <1>3 DEF Shape
<1>5. \A row \in HistoryRows : line_lengths'[row] = MAX_COLS => line_wrapped'[row]
  <2>1. cursor_col + 1 # MAX_COLS
    BY <1>1, CursorFacts, SizesAre
  <2> QED
    BY <1>1, <2>1 DEF Shape, RowsInUse
<1>6. text' \in Seq(Glyphs \cup {Newline})
  BY WriteType DEF put_glyph
<1>7. view_top_row' \in HistoryRows /\ view_top_row' <= live_view_top_row(total_rows')
  BY <1>1, ViewAtBottom DEF Shape
<1> QED
  BY <1>1, <1>2, <1>3, <1>4, <1>5, <1>6, <1>7 DEF Shape, RowsInUse

LEMMA BackspaceStep ==
  ASSUME Shape, put_backspace
  PROVE  Shape'
<1>1. PICK row, col :
        /\ row = IF cursor_col > 0 THEN cursor_row ELSE cursor_row - 1
        /\ col = IF cursor_col > 0 THEN cursor_col - 1 ELSE EndOfRow(cursor_row - 1)
  OBVIOUS
<1>2. /\ cursor_row > 0 \/ cursor_col > 0
      /\ cursor_row' = row /\ cursor_col' = col
      /\ line_lengths' = [line_lengths EXCEPT ![row] = col]
      /\ line_wrapped' = [line_wrapped EXCEPT ![row] = IF col = MAX_COLS - 1 THEN FALSE ELSE @]
      /\ screen_history' = [screen_history EXCEPT ![row][col] = Space]
      /\ text' = IF text = <<>> THEN text ELSE Front(text)
      /\ UNCHANGED <<total_rows, moved>> /\ sync_view_to_bottom
  BY <1>1 DEF put_backspace
<1>3. row \in HistoryRows /\ col \in Cols /\ row < total_rows
  <2>1. CASE cursor_col > 0
    BY <1>1, <2>1, CursorFacts, SizesAre DEF HistoryRows, Cols
  <2>2. CASE ~(cursor_col > 0)
    <3>1. cursor_row - 1 \in HistoryRows /\ cursor_row - 1 < total_rows
      <4>1. cursor_row > 0
        BY <1>2, <2>2
      <4> QED
        BY <4>1, CursorFacts, SizesAre DEF HistoryRows
    <3>2. EndOfRow(cursor_row - 1) \in Cols
      BY <3>1, EndOfRowIn
    <3> QED
      BY <1>1, <2>2, <3>1, <3>2
  <2> QED
    BY <2>1, <2>2
<1>4. col \in 0 .. MAX_COLS /\ col # MAX_COLS
  BY <1>3, SizesAre DEF Cols
<1>5. /\ line_lengths' \in [HistoryRows -> 0 .. MAX_COLS] /\ line_wrapped' \in [HistoryRows -> BOOLEAN]
      /\ \A r \in HistoryRows : line_lengths'[r] = MAX_COLS => line_wrapped'[r]
  BY <1>2, <1>3, <1>4 DEF Shape, RowsInUse
<1>6. /\ screen_history' \in Rows
      /\ \A r \in HistoryRows : r >= total_rows => screen_history'[r] = BlankRow
  <2>1. Space \in Characters
    BY DEF Characters
  <2>2. /\ screen_history \in Rows
        /\ \A r \in HistoryRows : r >= total_rows => screen_history[r] = BlankRow
    BY DEF Shape, RowsInUse
  <2>3. \A r \in HistoryRows : r >= total_rows => r # row
    BY <1>3, CursorFacts DEF HistoryRows
  <2> QED
    BY <1>2, <1>3, <2>1, <2>2, <2>3 DEF Rows
<1>7. text' \in Seq(Glyphs \cup {Newline})
  <2>1. text \in Seq(Glyphs \cup {Newline})
    BY DEF Shape
  <2>2. text # <<>> => Front(text) \in Seq(Glyphs \cup {Newline})
    BY <2>1 DEF Front
  <2> QED
    BY <1>2, <2>1, <2>2
<1>8. view_top_row' \in HistoryRows /\ view_top_row' <= live_view_top_row(total_rows')
  BY <1>2, ViewAtBottom DEF Shape
<1> QED
  BY <1>2, <1>3, <1>5, <1>6, <1>7, <1>8 DEF Shape, RowsInUse

LEMMA ClearStep ==
  ASSUME terminal_clear
  PROVE  Shape'
<1>1. /\ screen_history' = [row \in HistoryRows |-> BlankRow]
      /\ line_lengths' = [row \in HistoryRows |-> 0]
      /\ line_wrapped' = [row \in HistoryRows |-> FALSE]
      /\ cursor_row' = 0 /\ cursor_col' = 0 /\ total_rows' = 1 /\ view_top_row' = 0
      /\ text' = <<>> /\ moved' = FALSE
  BY DEF terminal_clear
<1>2. /\ 0 \in HistoryRows /\ 0 \in Cols /\ 1 \in 1 .. SCROLLBACK_ROWS /\ 0 \in 0 .. MAX_COLS
      /\ 0 # MAX_COLS /\ 0 < 1
  BY SizesAre DEF HistoryRows, Cols
<1>3. 0 <= live_view_top_row(1)
  BY SizesAre DEF live_view_top_row, Larger
<1>4. screen_history' \in Rows /\ \A row \in HistoryRows : screen_history'[row] = BlankRow
  BY <1>1, BlankIs DEF Rows
<1>5. /\ line_lengths' \in [HistoryRows -> 0 .. MAX_COLS]
      /\ \A row \in HistoryRows : line_lengths'[row] # MAX_COLS
  BY <1>1, <1>2
<1> QED
  BY <1>1, <1>2, <1>3, <1>4, <1>5 DEF Shape, RowsInUse

LEMMA MoveStep ==
  ASSUME Shape, NEW row \in HistoryRows, NEW col \in Cols, row < total_rows, MoveTo(row, col)
  PROVE  Shape'
<1>1. /\ cursor_row' = row /\ cursor_col' = col /\ view_top_row' = VisibleTop(row)
      /\ moved' = TRUE /\ text' = <<>>
      /\ UNCHANGED <<screen_history, line_lengths, line_wrapped, total_rows>>
  BY DEF MoveTo, Move
<1>2. VisibleTop(row) \in Nat /\ VisibleTop(row) <= live_view_top_row(total_rows)
  BY CursorFacts, SizesAre DEF VisibleTop, live_view_top_row, Larger, HistoryRows
<1>3. VisibleTop(row) \in HistoryRows
  BY <1>2, CursorFacts, SizesAre DEF HistoryRows
<1> QED
  BY <1>1, <1>2, <1>3 DEF Shape, RowsInUse

LEMMA OffsetStep ==
  ASSUME Shape, NEW row \in ScreenRows, NEW col \in Cols, terminal_set_cursor_offset(row, col)
  PROVE  Shape'
<1>1. /\ cursor_row' = view_top_row + row /\ cursor_col' = col
      /\ total_rows' = Larger(total_rows, view_top_row + row + 1)
      /\ moved' = TRUE /\ text' = <<>>
      /\ UNCHANGED <<screen_history, line_lengths, line_wrapped, view_top_row>>
  BY DEF terminal_set_cursor_offset, Move
<1>2. PICK place, more : place = view_top_row + row /\ more = Larger(total_rows, place + 1)
  OBVIOUS
<1>3. /\ place \in HistoryRows /\ place < more /\ more \in 1 .. SCROLLBACK_ROWS
      /\ total_rows <= more /\ total_rows \in 1 .. SCROLLBACK_ROWS
  <2>1. live_view_top_row(total_rows) + MAX_ROWS <= SCROLLBACK_ROWS /\ total_rows \in 1 .. SCROLLBACK_ROWS
    BY LiveTop DEF Shape
  <2>2. place \in Nat /\ place + 1 <= SCROLLBACK_ROWS
    BY <1>2, <2>1, CursorFacts, SizesAre DEF ScreenRows
  <2> QED
    BY <1>2, <2>1, <2>2, CursorFacts, SizesAre DEF Larger, HistoryRows
<1>a. live_view_top_row(total_rows) <= live_view_top_row(more)
  BY <1>3, LiveTop
<1>b. view_top_row <= live_view_top_row(more)
  <2>1. view_top_row \in Nat /\ view_top_row <= live_view_top_row(total_rows)
    BY CursorFacts
  <2>2. live_view_top_row(total_rows) \in Nat /\ live_view_top_row(more) \in Nat
    BY <1>3, LiveTop
  <2> QED
    BY <1>a, <2>1, <2>2
<1>c. cursor_row' = place /\ total_rows' = more
  BY <1>1, <1>2
<1>4. view_top_row' <= live_view_top_row(total_rows')
  BY <1>1, <1>b, <1>c
<1>5. \A r \in HistoryRows : r >= total_rows' => screen_history'[r] = BlankRow
  <2>1. \A r \in HistoryRows : r >= total_rows' => r >= total_rows
    BY <1>3, <1>c, SizesAre DEF HistoryRows
  <2> QED
    BY <1>1, <2>1 DEF Shape, RowsInUse
<1> QED
  BY <1>1, <1>3, <1>4, <1>5, <1>c DEF Shape, RowsInUse

LEMMA ScrollStep ==
  ASSUME Shape, terminal_scroll_page_up \/ terminal_scroll_page_down
  PROVE  Shape'
<1>1. UNCHANGED <<history, cursor, total_rows, written>>
  BY DEF terminal_scroll_page_up, terminal_scroll_page_down
<1>2. view_top_row' \in Nat /\ view_top_row' <= live_view_top_row(total_rows)
  BY CursorFacts, SizesAre
  DEF terminal_scroll_page_up, terminal_scroll_page_down, Larger, Smaller
<1>3. view_top_row' \in HistoryRows
  BY <1>2, CursorFacts, SizesAre DEF HistoryRows
<1> QED
  BY <1>1, <1>2, <1>3 DEF Shape, RowsInUse

(* Every call ends by drawing or leaving it to the batch, batches aside.       *)
LEMMA CallStep ==
  ASSUME Shape, Next, ~terminal_begin_batch, ~terminal_end_batch
  PROVE  Shape' /\ request_render
<1>1. CASE put_newline
  BY <1>1, NewlineStep DEF put_newline
<1>2. CASE \E c \in Glyphs : put_glyph(c)
  BY <1>2, GlyphStep DEF put_glyph
<1>3. CASE \E c \in Glyphs : put_last_glyph(c)
  BY <1>3, LastGlyphStep DEF put_last_glyph
<1>4. CASE put_backspace_nowhere
  <2>1. UNCHANGED <<history, cursor, total_rows, written>> /\ sync_view_to_bottom /\ request_render
    BY <1>4 DEF put_backspace_nowhere
  <2>2. view_top_row' \in HistoryRows /\ view_top_row' <= live_view_top_row(total_rows')
    BY <2>1, ViewAtBottom DEF Shape
  <2> QED
    BY <2>1, <2>2 DEF Shape, RowsInUse
<1>5. CASE put_backspace
  BY <1>5, BackspaceStep DEF put_backspace
<1>6. CASE terminal_clear
  BY <1>6, ClearStep DEF terminal_clear
<1>7. CASE \E row \in HistoryRows, col \in Cols : terminal_set_cursor_absolute(row, col)
  <2>1. PICK row \in HistoryRows, col \in Cols : row < total_rows /\ MoveTo(row, col)
    BY <1>7 DEF terminal_set_cursor_absolute, MoveTo
  <2> QED
    BY <2>1, MoveStep DEF MoveTo
<1>8. CASE terminal_move_cursor_left
  <2>1. \E row \in HistoryRows, col \in Cols : row < total_rows /\ MoveTo(row, col)
    <3>1. CASE cursor_col > 0 /\ MoveTo(cursor_row, cursor_col - 1)
      <4>1. cursor_col - 1 \in Cols /\ cursor_row \in HistoryRows /\ cursor_row < total_rows
        BY <3>1, CursorFacts, SizesAre DEF Cols, HistoryRows
      <4> QED
        BY <3>1, <4>1
    <3>2. CASE cursor_row > 0 /\ MoveTo(cursor_row - 1, EndOfRow(cursor_row - 1))
      <4>1. cursor_row - 1 \in HistoryRows /\ cursor_row - 1 < total_rows
        BY <3>2, CursorFacts, SizesAre DEF HistoryRows
      <4> QED
        BY <3>2, <4>1, EndOfRowIn
    <3> QED
      BY <1>8, <3>1, <3>2 DEF terminal_move_cursor_left
  <2> QED
    BY <2>1, MoveStep DEF MoveTo
<1>9. CASE terminal_move_cursor_right
  <2>1. \E row \in HistoryRows, col \in Cols : row < total_rows /\ MoveTo(row, col)
    <3> DEFINE inRow == IF line_wrapped[cursor_row] THEN cursor_col < MAX_COLS - 1
                        ELSE cursor_col < line_lengths[cursor_row]
    <3>1. CASE inRow /\ MoveTo(cursor_row, cursor_col + 1)
      <4>1. /\ cursor_row \in HistoryRows /\ line_lengths[cursor_row] \in 0 .. MAX_COLS
            /\ line_lengths[cursor_row] = MAX_COLS => line_wrapped[cursor_row]
        BY DEF Shape, RowsInUse
      <4>2. cursor_col + 1 \in Cols /\ cursor_row < total_rows
        BY <3>1, <4>1, CursorFacts, SizesAre DEF Cols
      <4> QED
        BY <3>1, <4>1, <4>2
    <3>2. CASE cursor_row + 1 < total_rows /\ MoveTo(cursor_row + 1, 0)
      <4>1. cursor_row + 1 \in HistoryRows /\ 0 \in Cols
        BY <3>2, CursorFacts, SizesAre DEF HistoryRows, Cols
      <4> QED
        BY <3>2, <4>1
    <3> QED
      BY <1>9, <3>1, <3>2 DEF terminal_move_cursor_right
  <2> QED
    BY <2>1, MoveStep DEF MoveTo
<1>10. CASE \E row \in ScreenRows, col \in Cols : terminal_set_cursor_offset(row, col)
  BY <1>10, OffsetStep DEF terminal_set_cursor_offset
<1>11. CASE terminal_scroll_page_up \/ terminal_scroll_page_down
  BY <1>11, ScrollStep DEF terminal_scroll_page_up, terminal_scroll_page_down
<1> QED
  BY <1>1, <1>2, <1>3, <1>4, <1>5, <1>6, <1>7, <1>8, <1>9, <1>10, <1>11
  DEF Next, terminal_put_char

LEMMA BatchStep ==
  ASSUME IInv, terminal_begin_batch \/ terminal_end_batch
  PROVE  IInv'
<1>1. UNCHANGED <<history, cursor, total_rows, view_top_row, written>>
  BY DEF terminal_begin_batch, terminal_end_batch
<1>2. Shape'
  BY <1>1 DEF IInv, Shape, RowsInUse
<1>3. View(screen_history, total_rows, view_top_row) \in [ScreenRows -> [Cols -> Characters]]
  BY ViewType DEF IInv, Shape
<1>4. CASE terminal_begin_batch
  BY <1>1, <1>2, <1>4, BoundsAssumption DEF IInv, Drawing, terminal_begin_batch
<1>5. CASE terminal_end_batch
  <2>1. render_batch_depth' \in 0 .. MAX_BATCH_DEPTH
        /\ (render_batch_depth' = 0 => render_batch_depth = 1)
    BY <1>5, BoundsAssumption DEF IInv, Drawing, terminal_end_batch
  <2> QED
    BY <1>1, <1>2, <1>3, <1>5, <2>1 DEF IInv, Drawing, terminal_end_batch
<1> QED
  BY <1>4, <1>5

LEMMA Start ==
  ASSUME Init
  PROVE  IInv
<1>1. /\ 0 \in HistoryRows /\ 0 \in Cols /\ 1 \in 1 .. SCROLLBACK_ROWS /\ 0 \in 0 .. MAX_COLS
      /\ 0 # MAX_COLS /\ 0 < 1 /\ 0 \in 0 .. MAX_BATCH_DEPTH
  BY SizesAre, BoundsAssumption DEF HistoryRows, Cols
<1>2. 0 <= live_view_top_row(1)
  BY SizesAre DEF live_view_top_row, Larger
<1>3. screen_history \in Rows /\ \A row \in HistoryRows : screen_history[row] = BlankRow
  BY BlankIs DEF Init, Rows
<1>4. Shape
  BY <1>1, <1>2, <1>3 DEF Init, Shape, RowsInUse
<1>5. View(screen_history, 1, 0) = [r \in ScreenRows |-> BlankRow]
  <2>1. \A r \in ScreenRows : 0 + r < 1 => 0 + r \in HistoryRows
    BY SizesAre DEF ScreenRows, HistoryRows
  <2> QED
    BY <1>3, <2>1 DEF View
<1>6. Drawing
  BY <1>1, <1>5, BlankIs DEF Init, Drawing
<1> QED
  BY <1>4, <1>6 DEF IInv

LEMMA Invariance == Spec => []IInv
<1>1. IInv /\ [Next]_vars => IInv'
  <2> SUFFICES ASSUME IInv, [Next]_vars PROVE IInv'
    OBVIOUS
  <2>1. CASE UNCHANGED vars
    BY <2>1 DEF vars, IInv, Shape, RowsInUse, Drawing
  <2>2. CASE Next
    BY <2>2, CallStep, BatchStep, Draws DEF IInv
  <2> QED
    BY <2>1, <2>2
<1> QED
  BY Start, <1>1, PTL DEF Spec

-----------------------------------------------------------------------------
(* Joining sequences: what FlattenSeq gives of a row more or less.             *)

(* Concatenation under a name, for the provers.                                *)
Joined(s, t) == s \o t

LEMMA JoinedAssociative ==
    ASSUME NEW C, NEW s \in Seq(C), NEW t \in Seq(C), NEW u \in Seq(C)
    PROVE  Joined(Joined(s, t), u) = Joined(s, Joined(t, u))
BY ConcatAssociative DEF Joined

(* f runs through the flattening of the sequence R of sequences over C.        *)
Flattening(f, R, C) ==
    /\ f \in [0 .. Len(R) -> Seq(C)]
    /\ f[0] = <<>>
    /\ \A i \in 1 .. Len(R) : f[i] = f[i - 1] \o R[i]

LEMMA FlattenRuns ==
    ASSUME NEW C, NEW R \in Seq(Seq(C))
    PROVE  \E f : Flattening(f, R, C) /\ FlattenSeq(R) = f[Len(R)]
<1> DEFINE N == Len(R)
           T == Seq(C)
           step == [n \in Nat |-> [s \in T |-> IF n \in 1 .. N THEN s \o R[n] ELSE s]]
<1>1. N \in Nat /\ N = Len(R) /\ \A n \in 1 .. N : R[n] \in T
  OBVIOUS
<1>2. \A s, t \in T : s \o t \in T
  BY ConcatProperties
<1>3. <<>> \in T
  OBVIOUS
<1> HIDE DEF N
<1>4. /\ step \in [Nat -> [T -> T]]
      /\ \A n \in 1 .. N : \A s \in T : step[n][s] = s \o R[n]
  <2> HIDE DEF T
  <2>1. \A n \in Nat, s \in T : (IF n \in 1 .. N THEN s \o R[n] ELSE s) \in T
    BY <1>1, <1>2
  <2>2. \A n \in 1 .. N : n \in Nat
    BY <1>1
  <2> QED
    BY <2>1, <2>2
<1> HIDE DEF step, T
<1>5. PICK f \in [0 .. N -> T] : Follows(f, N, <<>>, step)
  BY <1>1, <1>3, <1>4, RecursionExists
<1>6. /\ f[0] = <<>>
      /\ \A i \in 1 .. N : f[i - 1] \in T /\ f[i] = f[i - 1] \o R[i]
  <2>1. \A i \in 0 .. N : f[i] = IF i = 0 THEN <<>> ELSE step[i][f[i - 1]]
    BY <1>5, Zenon DEF Follows
  <2>2. \A i \in 1 .. N : i \in 0 .. N /\ i # 0 /\ i - 1 \in 0 .. N
    BY <1>1
  <2>3. 0 \in 0 .. N
    BY <1>1
  <2> QED
    BY <1>4, <1>5, <2>1, <2>2, <2>3
<1>7. Flattening(f, R, C)
  BY <1>1, <1>5, <1>6 DEF Flattening, T
<1>8. CASE N = 0
  <2>1. R = <<>>
    BY <1>1, <1>8, EmptySeq
  <2> QED
    BY <1>1, <1>6, <1>7, <1>8, <2>1 DEF FlattenSeq
<1>9. CASE N # 0
  <2> DEFINE flatten[i \in 1 .. Len(R)] == IF i = 1 THEN R[i] ELSE flatten[i - 1] \o R[i]
             g == [i \in 1 .. Len(R) |-> f[i]]
  <2>1. FlattenSeq(R) = flatten[Len(R)]
    <3>1. ~(Len(R) = 0)
      BY <1>1, <1>9
    <3> QED
      BY <3>1, Zenon DEF FlattenSeq
  <2>2. \A i \in 1 .. Len(R) : g[i] = IF i = 1 THEN R[i] ELSE g[i - 1] \o R[i]
    <3> SUFFICES ASSUME NEW i \in 1 .. N
                 PROVE  f[i] = IF i = 1 THEN R[i] ELSE f[i - 1] \o R[i]
      BY <1>1
    <3>1. R[i] \in Seq(C) /\ f[i] = f[i - 1] \o R[i]
      BY <1>1, <1>6 DEF T
    <3>2. CASE i = 1
      <4>1. f[i] = <<>> \o R[i]
        <5>1. i - 1 = 0
          BY <3>2
        <5> QED
          BY <1>6, <3>1, <5>1
      <4> QED
        BY <3>1, <3>2, <4>1, ConcatEmptySeq
    <3>3. CASE i # 1
      BY <3>1, <3>3
    <3> QED
      BY <3>2, <3>3
  <2>3. g = [i \in 1 .. Len(R) |-> IF i = 1 THEN R[i] ELSE g[i - 1] \o R[i]]
    <3>1. g = [i \in 1 .. Len(R) |-> g[i]]
      OBVIOUS
    <3> HIDE DEF g
    <3> QED
      BY <2>2, <3>1
  <2> HIDE DEF g
  <2>4. flatten = [i \in 1 .. Len(R) |-> IF i = 1 THEN R[i] ELSE flatten[i - 1] \o R[i]]
    BY <2>3, Zenon
  <2> HIDE DEF flatten
  <2>5. \A i \in 1 .. N : flatten[i] = IF i = 1 THEN R[i] ELSE flatten[i - 1] \o R[i]
    BY <1>1, <2>4
  <2> DEFINE S == {n \in 0 .. N : n # 0 => flatten[n] = f[n]}
  <2>6. 0 \in S
    BY <1>1
  <2>7. ASSUME NEW n \in 0 .. N - 1, n \in S
        PROVE  n + 1 \in S
    <3>1. n + 1 \in 1 .. N /\ (n + 1) - 1 = n /\ n + 1 \in 0 .. N
      BY <1>1
    <3>2. f[n + 1] = f[n] \o R[n + 1] /\ R[n + 1] \in Seq(C)
      BY <1>1, <1>6, <3>1 DEF T
    <3>3. CASE n = 0
      <4>1. f[n + 1] = <<>> \o R[n + 1] /\ flatten[n + 1] = R[n + 1]
        <5>1. n + 1 = 1
          BY <3>3
        <5> QED
          BY <1>6, <2>5, <3>1, <3>2, <3>3, <5>1
      <4> QED
        BY <3>1, <3>2, <4>1, ConcatEmptySeq
    <3>4. CASE n # 0
      <4>1. flatten[n + 1] = flatten[n] \o R[n + 1]
        <5>1. n + 1 # 1
          BY <1>1, <3>4
        <5> QED
          BY <2>5, <3>1, <5>1
      <4> QED
        BY <2>7, <3>1, <3>2, <3>4, <4>1
    <3> QED
      BY <3>3, <3>4
  <2> HIDE DEF S
  <2>8. 0 .. N \subseteq S
    BY <1>1, <2>6, <2>7, InductionUpTo
  <2>9. flatten[N] = f[N]
    <3>1. N \in 0 .. N
      BY <1>1
    <3> QED
      BY <1>9, <2>8, <3>1 DEF S
  <2> QED
    BY <1>1, <1>7, <2>1, <2>9
<1> QED
  BY <1>8, <1>9

LEMMA FlattenType ==
    ASSUME NEW C, NEW R \in Seq(Seq(C))
    PROVE  FlattenSeq(R) \in Seq(C)
<1>1. PICK f : Flattening(f, R, C) /\ FlattenSeq(R) = f[Len(R)]
  BY FlattenRuns
<1>2. Len(R) \in 0 .. Len(R)
  OBVIOUS
<1> QED
  BY <1>1, <1>2 DEF Flattening

(* One sequence more is at the end.                                            *)
LEMMA FlattenAppend ==
    ASSUME NEW C, NEW R \in Seq(Seq(C)), NEW t \in Seq(C)
    PROVE  FlattenSeq(Append(R, t)) = FlattenSeq(R) \o t
<1> DEFINE N == Len(R)
           Q == Append(R, t)
<1>1. /\ Q \in Seq(Seq(C)) /\ Len(Q) = N + 1 /\ Q[N + 1] = t /\ N \in Nat /\ N = Len(R)
      /\ \A i \in 1 .. N : Q[i] = R[i]
  BY AppendProperties
<1> HIDE DEF Q, N
<1>2. PICK f : Flattening(f, R, C) /\ FlattenSeq(R) = f[Len(R)]
  BY FlattenRuns
<1>3. PICK g : Flattening(g, Q, C) /\ FlattenSeq(Q) = g[Len(Q)]
  BY <1>1, FlattenRuns
<1>4. /\ f[0] = <<>> /\ \A i \in 1 .. N : f[i] = f[i - 1] \o R[i]
      /\ g[0] = <<>> /\ \A i \in 1 .. N + 1 : g[i] = g[i - 1] \o Q[i]
  BY <1>1, <1>2, <1>3 DEF Flattening
<1> DEFINE S == {n \in 0 .. N : f[n] = g[n]}
<1>5. 0 \in S
  BY <1>1, <1>4
<1>6. ASSUME NEW n \in 0 .. N - 1, n \in S
      PROVE  n + 1 \in S
  <2>1. n + 1 \in 1 .. N /\ n + 1 \in 1 .. N + 1 /\ (n + 1) - 1 = n /\ n + 1 \in 0 .. N
    BY <1>1
  <2>2. f[n + 1] = f[n] \o R[n + 1] /\ g[n + 1] = g[n] \o Q[n + 1] /\ Q[n + 1] = R[n + 1]
    BY <1>1, <1>4, <2>1
  <2> QED
    BY <1>6, <2>1, <2>2
<1> HIDE DEF S
<1>7. 0 .. N \subseteq S
  BY <1>1, <1>5, <1>6, InductionUpTo
<1>8. f[N] = g[N]
  <2>1. N \in 0 .. N
    BY <1>1
  <2> QED
    BY <1>7, <2>1 DEF S
<1>9. g[N + 1] = g[N] \o t
  <2>1. N + 1 \in 1 .. N + 1 /\ (N + 1) - 1 = N
    BY <1>1
  <2> QED
    BY <1>1, <1>4, <2>1
<1> QED
  BY <1>1, <1>2, <1>3, <1>8, <1>9 DEF Q

(* The first sequence is at the front.                                         *)
LEMMA FlattenFirst ==
    ASSUME NEW C, NEW R \in Seq(Seq(C)), R # <<>>
    PROVE  FlattenSeq(R) = R[1] \o FlattenSeq(Tail(R))
<1> DEFINE N == Len(R) - 1
           Q == Tail(R)
<1>1. /\ Q \in Seq(Seq(C)) /\ Len(Q) = N /\ N \in Nat /\ Len(R) = N + 1
      /\ \A i \in 1 .. N : Q[i] = R[i + 1]
      /\ R[1] \in Seq(C) /\ \A i \in 1 .. N : Q[i] \in Seq(C)
  BY HeadTailProperties
<1> HIDE DEF Q, N
<1>2. PICK f : Flattening(f, R, C) /\ FlattenSeq(R) = f[Len(R)]
  BY FlattenRuns
<1>3. PICK g : Flattening(g, Q, C) /\ FlattenSeq(Q) = g[Len(Q)]
  BY <1>1, FlattenRuns
<1>4. /\ f[0] = <<>> /\ \A i \in 1 .. N + 1 : f[i] = f[i - 1] \o R[i]
      /\ g[0] = <<>> /\ \A i \in 1 .. N : g[i] = g[i - 1] \o Q[i]
      /\ \A i \in 0 .. N : g[i] \in Seq(C)
  BY <1>1, <1>2, <1>3 DEF Flattening
<1> DEFINE S == {n \in 0 .. N : f[n + 1] = R[1] \o g[n]}
<1>5. 0 \in S
  <2>1. 1 \in 1 .. N + 1 /\ 1 - 1 = 0 /\ 0 + 1 = 1 /\ 0 \in 0 .. N
    BY <1>1
  <2>2. f[1] = <<>> \o R[1]
    BY <1>4, <2>1
  <2>3. <<>> \o R[1] = R[1] /\ R[1] \o <<>> = R[1]
    BY <1>1, ConcatEmptySeq
  <2> QED
    BY <1>4, <2>1, <2>2, <2>3
<1>6. ASSUME NEW n \in 0 .. N - 1, n \in S
      PROVE  n + 1 \in S
  <2>1. /\ n + 1 \in 1 .. N /\ (n + 1) + 1 \in 1 .. N + 1 /\ ((n + 1) + 1) - 1 = n + 1
        /\ (n + 1) - 1 = n /\ n + 1 \in 0 .. N /\ n \in 0 .. N
    BY <1>1
  <2>2. /\ f[(n + 1) + 1] = (R[1] \o g[n]) \o R[(n + 1) + 1]
        /\ g[n + 1] = g[n] \o Q[n + 1] /\ Q[n + 1] = R[(n + 1) + 1]
    BY <1>1, <1>4, <1>6, <2>1
  <2>3. (R[1] \o g[n]) \o Q[n + 1] = R[1] \o (g[n] \o Q[n + 1])
    <3>1. R[1] \in Seq(C) /\ g[n] \in Seq(C) /\ Q[n + 1] \in Seq(C)
      BY <1>1, <1>4, <2>1
    <3>2. Joined(Joined(R[1], g[n]), Q[n + 1]) = Joined(R[1], Joined(g[n], Q[n + 1]))
      BY <3>1, JoinedAssociative
    <3> QED
      BY <3>2 DEF Joined
  <2> QED
    BY <2>1, <2>2, <2>3
<1> HIDE DEF S
<1>7. 0 .. N \subseteq S
  BY <1>1, <1>5, <1>6, InductionUpTo
<1>8. f[N + 1] = R[1] \o g[N]
  <2>1. N \in 0 .. N
    BY <1>1
  <2> QED
    BY <1>7, <2>1 DEF S
<1> QED
  BY <1>1, <1>2, <1>3, <1>8 DEF Q

-----------------------------------------------------------------------------
(* Reading the history back: the rows the cursor has left and the row it is in *)
(* up to it hold the text that was written.                                    *)

TextChars == Characters \cup {Newline}

\* The text of a row that holds len of the cells.
TextOf(cells, len, wrapped) ==
    [i \in 1 .. len |-> cells[i - 1]] \o (IF wrapped THEN <<>> ELSE <<Newline>>)

\* The rows the cursor has left, and the row it is in up to it.
Done == [r \in 1 .. cursor_row |-> RowText(r - 1)]
Line == [i \in 1 .. cursor_col |-> screen_history[cursor_row][i - 1]]

\* A row that the writing has left by wrapping is full.
WrappedRowsFull ==
    \A r \in HistoryRows : r < cursor_row /\ line_wrapped[r] => line_lengths[r] = MAX_COLS

Reading == ReadsBack /\ (~moved => WrappedRowsFull)

LEMMA RowTextIs ==
    ASSUME NEW r
    PROVE  RowText(r) = TextOf(screen_history[r], line_lengths[r], line_wrapped[r])
BY DEF RowText, TextOf

LEMMA ReadsBackIs == ReadsBack <=> (~moved => text = FlattenSeq(Done) \o Line)
BY Zenon DEF ReadsBack, Done, Line

LEMMA CellsText ==
    ASSUME NEW cells \in [Cols -> Characters], NEW len \in 0 .. MAX_COLS
    PROVE  /\ [i \in 1 .. len |-> cells[i - 1]] \in Seq(TextChars)
           /\ Len([i \in 1 .. len |-> cells[i - 1]]) = len
<1>1. len \in Nat /\ \A i \in 1 .. len : i - 1 \in Cols
  BY SizesAre DEF Cols
<1>2. \A i \in 1 .. len : cells[i - 1] \in TextChars
  BY <1>1 DEF TextChars
<1> QED
  BY <1>1, <1>2

LEMMA TextOfType ==
    ASSUME NEW cells \in [Cols -> Characters], NEW len \in 0 .. MAX_COLS, NEW wrapped \in BOOLEAN
    PROVE  /\ TextOf(cells, len, wrapped) \in Seq(TextChars)
           /\ Len(TextOf(cells, len, wrapped)) = IF wrapped THEN len ELSE len + 1
<1> DEFINE s == [i \in 1 .. len |-> cells[i - 1]]
           t == IF wrapped THEN <<>> ELSE <<Newline>>
<1>1. s \in Seq(TextChars) /\ Len(s) = len /\ len \in Nat
  BY CellsText, SizesAre
<1>2. t \in Seq(TextChars) /\ Len(t) = IF wrapped THEN 0 ELSE 1
  <2>1. Newline \in TextChars
    BY DEF TextChars
  <2>2. <<>> \in Seq(TextChars) /\ <<Newline>> \in Seq(TextChars)
    BY <2>1
  <2>3. CASE wrapped
    BY <2>2, <2>3
  <2>4. CASE ~wrapped
    BY <2>2, <2>4
  <2> QED
    BY <2>3, <2>4
<1>3. TextOf(cells, len, wrapped) = s \o t
  BY Zenon DEF TextOf
<1> HIDE DEF s, t
<1>4. s \o t \in Seq(TextChars) /\ Len(s \o t) = Len(s) + Len(t)
  BY <1>1, <1>2, ConcatProperties
<1> QED
  BY <1>1, <1>2, <1>3, <1>4

LEMMA RowsText ==
    ASSUME Shape
    PROVE  /\ Done \in Seq(Seq(TextChars)) /\ Len(Done) = cursor_row
           /\ Line \in Seq(TextChars) /\ Len(Line) = cursor_col
           /\ \A r \in HistoryRows : RowText(r) \in Seq(TextChars)
<1>1. \A r \in HistoryRows : RowText(r) \in Seq(TextChars)
  <2> SUFFICES ASSUME NEW r \in HistoryRows PROVE RowText(r) \in Seq(TextChars)
    OBVIOUS
  <2>1. /\ screen_history[r] \in [Cols -> Characters] /\ line_lengths[r] \in 0 .. MAX_COLS
        /\ line_wrapped[r] \in BOOLEAN
    BY DEF Shape, Rows
  <2> QED
    BY <2>1, RowTextIs, TextOfType
<1>2. cursor_row \in Nat /\ \A r \in 1 .. cursor_row : r - 1 \in HistoryRows
  BY CursorFacts, SizesAre DEF HistoryRows
<1>3. \A r \in 1 .. cursor_row : RowText(r - 1) \in Seq(TextChars)
  BY <1>1, <1>2
<1>4. Done \in Seq(Seq(TextChars)) /\ Len(Done) = cursor_row
  BY <1>2, <1>3 DEF Done
<1>5. screen_history[cursor_row] \in [Cols -> Characters] /\ cursor_col \in 0 .. MAX_COLS
  BY CursorFacts, SizesAre DEF Shape, Rows
<1>6. Line \in Seq(TextChars) /\ Len(Line) = cursor_col
  BY <1>5, CellsText DEF Line
<1> QED
  BY <1>1, <1>4, <1>6

(* A text with one more row, or with its first row cut off.                    *)
LEMMA OneRowMore ==
    ASSUME NEW R \in Seq(Seq(TextChars)), NEW l \in Seq(TextChars), NEW c \in TextChars,
           NEW t, t = Joined(FlattenSeq(R), l)
    PROVE  /\ FlattenSeq(Append(R, Append(l, c))) = Append(t, c)
           /\ t \in Seq(TextChars)
<1>0. t = FlattenSeq(R) \o l
  BY DEF Joined
<1>1. Append(l, c) \in Seq(TextChars) /\ Append(l, c) = l \o <<c>> /\ <<c>> \in Seq(TextChars)
  BY AppendProperties, AppendIsConcat
<1>2. FlattenSeq(R) \in Seq(TextChars)
  BY FlattenType
<1>3. t \in Seq(TextChars)
  BY <1>0, <1>2, ConcatProperties
<1>4. FlattenSeq(Append(R, Append(l, c))) = FlattenSeq(R) \o Append(l, c)
  BY <1>1, FlattenAppend
<1>5. Append(t, c) = t \o <<c>>
  BY <1>3, AppendIsConcat
<1>6. Joined(Joined(FlattenSeq(R), l), <<c>>) = Joined(FlattenSeq(R), Joined(l, <<c>>))
  <2>1. FlattenSeq(R) \in Seq(TextChars) /\ l \in Seq(TextChars) /\ <<c>> \in Seq(TextChars)
    BY <1>1, <1>2
  <2> DEFINE k == <<c>>
             f == FlattenSeq(R)
  <2> HIDE DEF k, f
  <2>2. f \in Seq(TextChars) /\ l \in Seq(TextChars) /\ k \in Seq(TextChars)
    BY <2>1 DEF f, k
  <2>3. Joined(Joined(f, l), k) = Joined(f, Joined(l, k))
    BY <2>2, JoinedAssociative
  <2> QED
    BY <2>3, Zenon DEF f, k
<1>7. Joined(t, <<c>>) = Joined(FlattenSeq(R), Append(l, c))
  BY <1>0, <1>1, <1>6 DEF Joined
<1> QED
  BY <1>3, <1>4, <1>5, <1>7 DEF Joined

LEMMA FirstRowCut ==
    ASSUME NEW R \in Seq(Seq(TextChars)), R # <<>>, NEW t, t = FlattenSeq(R)
    PROVE  /\ SubSeq(t, Len(R[1]) + 1, Len(t)) = FlattenSeq(Tail(R))
<1>1. t = R[1] \o FlattenSeq(Tail(R))
  BY FlattenFirst
<1>2. Tail(R) \in Seq(Seq(TextChars)) /\ R[1] \in Seq(TextChars)
  BY HeadTailProperties
<1>3. FlattenSeq(Tail(R)) \in Seq(TextChars)
  BY <1>2, FlattenType
<1> DEFINE a == R[1]
           b == FlattenSeq(Tail(R))
<1> HIDE DEF a, b
<1>4. a \in Seq(TextChars) /\ b \in Seq(TextChars) /\ t = a \o b
  BY <1>1, <1>2, <1>3 DEF a, b
<1>5. /\ t \in Seq(TextChars) /\ Len(t) = Len(a) + Len(b) /\ Len(a) \in Nat /\ Len(b) \in Nat
      /\ \A i \in 1 .. Len(b) : t[Len(a) + i] = b[i]
  BY <1>4, ConcatProperties
<1>6. SubSeq(t, Len(a) + 1, Len(t)) = b
  <2>1. \A i \in Len(a) + 1 .. Len(t) : t[i] \in TextChars
    BY <1>5
  <2>2. /\ SubSeq(t, Len(a) + 1, Len(t)) \in Seq(TextChars)
        /\ Len(SubSeq(t, Len(a) + 1, Len(t))) = Len(b)
        /\ \A i \in 1 .. Len(b) : SubSeq(t, Len(a) + 1, Len(t))[i] = t[Len(a) + i]
    BY <1>5
  <2> DEFINE s == SubSeq(t, Len(a) + 1, Len(t))
  <2> HIDE DEF s
  <2>3. s \in Seq(TextChars) /\ Len(s) = Len(b) /\ \A i \in 1 .. Len(s) : s[i] = b[i]
    BY <1>5, <2>2 DEF s
  <2> QED
    BY <1>4, <2>3, SeqEqual DEF s
<1> QED
  BY <1>6 DEF a, b

TextIsRead == text = FlattenSeq(Done) \o Line

LEMMA ReadsBackIsNext == ReadsBack' <=> (~moved' => TextIsRead')
BY Zenon DEF ReadsBack, Done, Line, TextIsRead

LEMMA RowTextIsNext ==
    ASSUME NEW r
    PROVE  RowText(r)' = TextOf(screen_history'[r], line_lengths'[r], line_wrapped'[r])
BY DEF RowText, TextOf

Cells(cells, len) == [i \in 1 .. len |-> cells[i - 1]]

LEMMA CellsAppend ==
    ASSUME NEW cells \in [Cols -> Characters], NEW len \in Cols, NEW c \in Characters
    PROVE  Cells([cells EXCEPT ![len] = c], len + 1) = Append(Cells(cells, len), c)
<1> DEFINE s == Cells(cells, len)
           more == [cells EXCEPT ![len] = c]
           t == Cells(more, len + 1)
<1>1. /\ len \in Nat /\ len \in 0 .. MAX_COLS /\ len + 1 \in 0 .. MAX_COLS
      /\ \A i \in 1 .. len : i - 1 \in Cols /\ i - 1 # len
  BY SizesAre DEF Cols
<1>2. more \in [Cols -> Characters] /\ \A j \in Cols : more[j] = IF j = len THEN c ELSE cells[j]
  OBVIOUS
<1>3. /\ s \in Seq(TextChars) /\ Len(s) = len /\ \A i \in 1 .. len : s[i] = cells[i - 1]
      /\ t \in Seq(TextChars) /\ Len(t) = len + 1 /\ \A i \in 1 .. len + 1 : t[i] = more[i - 1]
  <2> HIDE DEF more
  <2>1. s \in Seq(TextChars) /\ Len(s) = len
    BY <1>1, CellsText DEF Cells
  <2>2. t \in Seq(TextChars) /\ Len(t) = len + 1
    BY <1>1, <1>2, CellsText DEF Cells
  <2> QED
    BY <2>1, <2>2 DEF Cells
<1> HIDE DEF s, t, more
<1>4. \A i \in 1 .. len + 1 : t[i] = Append(s, c)[i]
  <2> TAKE i \in 1 .. len + 1
  <2>1. CASE i = len + 1
    BY <1>1, <1>2, <1>3, <2>1
  <2>2. CASE i # len + 1
    BY <1>1, <1>2, <1>3, <2>2
  <2> QED
    BY <2>1, <2>2
<1>5. Append(s, c) \in Seq(TextChars) /\ Len(Append(s, c)) = len + 1
  BY <1>3 DEF TextChars
<1>6. t = Append(s, c)
  BY <1>1, <1>3, <1>4, <1>5, SeqEqual
<1> QED
  BY <1>6 DEF s, t, more

LEMMA CellsFront ==
    ASSUME NEW cells \in [Cols -> Characters], NEW len \in 1 .. MAX_COLS, NEW c \in Characters
    PROVE  /\ Cells([cells EXCEPT ![len - 1] = c], len - 1) = Front(Cells(cells, len))
           /\ Cells(cells, len) # <<>>
<1> DEFINE s == Cells(cells, len)
           less == [cells EXCEPT ![len - 1] = c]
           t == Cells(less, len - 1)
<1>1. /\ len \in Nat /\ len \in 0 .. MAX_COLS /\ len - 1 \in 0 .. MAX_COLS /\ len - 1 \in Nat
      /\ \A i \in 1 .. len - 1 : i - 1 \in Cols /\ i - 1 # len - 1
  BY SizesAre DEF Cols
<1>2. less \in [Cols -> Characters] /\ \A j \in Cols : j # len - 1 => less[j] = cells[j]
  OBVIOUS
<1>3. /\ s \in Seq(TextChars) /\ Len(s) = len /\ \A i \in 1 .. len : s[i] = cells[i - 1]
      /\ t \in Seq(TextChars) /\ Len(t) = len - 1 /\ \A i \in 1 .. len - 1 : t[i] = less[i - 1]
  <2> HIDE DEF less
  <2>1. s \in Seq(TextChars) /\ Len(s) = len
    BY <1>1, CellsText DEF Cells
  <2>2. t \in Seq(TextChars) /\ Len(t) = len - 1
    BY <1>1, <1>2, CellsText DEF Cells
  <2> QED
    BY <2>1, <2>2 DEF Cells
<1> HIDE DEF s, t, less
<1>4. /\ Front(s) \in Seq(TextChars) /\ Len(Front(s)) = len - 1
      /\ \A i \in 1 .. len - 1 : Front(s)[i] = s[i]
  BY <1>1, <1>3 DEF Front
<1>5. \A i \in 1 .. len - 1 : t[i] = Front(s)[i]
  BY <1>1, <1>2, <1>3, <1>4
<1>6. t = Front(s)
  BY <1>1, <1>3, <1>4, <1>5, SeqEqual
<1>7. s # <<>>
  BY <1>1, <1>3
<1> QED
  BY <1>6, <1>7 DEF s, t, less

LEMMA FrontIs ==
    ASSUME NEW S, NEW s \in Seq(S), Len(s) > 0
    PROVE  /\ Front(s) \in Seq(S) /\ Len(Front(s)) = Len(s) - 1
           /\ \A i \in 1 .. Len(s) - 1 : Front(s)[i] = s[i]
<1>1. s \in Seq(S) /\ Len(s) \in Nat /\ Len(s) - 1 <= Len(s)
  BY LenProperties
<1>2. \A i \in 1 .. Len(s) : s[i] \in S
  BY ElementOfSeq
<1> DEFINE n == Len(s) - 1
           k == SubSeq(s, 1, n)
<1>3. n \in Nat /\ n <= Len(s) /\ \A i \in 1 .. n : s[i] \in S
  BY <1>1, <1>2
<1> HIDE DEF n
<1>4. k \in Seq(S) /\ Len(k) = n /\ \A i \in 1 .. n : k[i] = s[i]
  <2>1. /\ k \in Seq(S) /\ Len(k) = IF 1 <= n THEN n - 1 + 1 ELSE 0
        /\ \A i \in 1 .. n - 1 + 1 : k[i] = s[1 + i - 1]
    BY <1>3, SubSeqProperties
  <2> HIDE DEF k
  <2>2. n - 1 + 1 = n /\ \A i \in 1 .. n : 1 + i - 1 = i
    BY <1>3
  <2> QED
    BY <1>3, <2>1, <2>2
<1>5. Front(s) = k
  BY DEF Front, n
<1> QED
  BY <1>4, <1>5 DEF n

LEMMA FrontJoined ==
    ASSUME NEW S, NEW a \in Seq(S), NEW b \in Seq(S), b # <<>>
    PROVE  Front(a \o b) = a \o Front(b) /\ a \o b # <<>>
<1>1. /\ Len(a) \in Nat /\ Len(b) \in Nat /\ Len(b) > 0
      /\ a \o b \in Seq(S) /\ Len(a \o b) = Len(a) + Len(b)
      /\ \A i \in 1 .. Len(a) + Len(b) : (a \o b)[i] = IF i <= Len(a) THEN a[i] ELSE b[i - Len(a)]
  <2>1. Len(b) # 0
    BY EmptySeq
  <2> QED
    BY <2>1, ConcatProperties
<1>2. /\ Front(b) \in Seq(S) /\ Len(Front(b)) = Len(b) - 1
      /\ \A i \in 1 .. Len(b) - 1 : Front(b)[i] = b[i]
  BY <1>1, FrontIs
<1> DEFINE w == a \o b
           k == Front(b)
<1>3. /\ Front(w) \in Seq(S) /\ Len(Front(w)) = Len(a) + Len(b) - 1
      /\ \A i \in 1 .. Len(a) + Len(b) - 1 : Front(w)[i] = w[i]
  <2> HIDE DEF w
  <2>1. w \in Seq(S) /\ Len(w) = Len(a) + Len(b) /\ Len(w) > 0
    BY <1>1 DEF w
  <2> QED
    BY <1>1, <2>1 DEF Front
<1>4. k \in Seq(S) /\ Len(k) = Len(b) - 1 /\ \A i \in 1 .. Len(b) - 1 : k[i] = b[i]
  BY <1>2
<1> HIDE DEF k
<1>5. /\ a \o k \in Seq(S) /\ Len(a \o k) = Len(a) + Len(b) - 1
      /\ \A i \in 1 .. Len(a) + Len(b) - 1 : (a \o k)[i] = IF i <= Len(a) THEN a[i] ELSE k[i - Len(a)]
  <2>1. a \in Seq(S) /\ k \in Seq(S) /\ Len(a) + Len(k) = Len(a) + Len(b) - 1
    BY <1>1, <1>4
  <2> QED
    BY <2>1, ConcatProperties
<1>6. \A i \in 1 .. Len(a) + Len(b) - 1 : Front(w)[i] = (a \o k)[i]
  <2> TAKE i \in 1 .. Len(a) + Len(b) - 1
  <2>0. i \in 1 .. Len(a) + Len(b)
    BY <1>1
  <2>1. Front(w)[i] = w[i] /\ w[i] = IF i <= Len(a) THEN a[i] ELSE b[i - Len(a)]
    BY <1>1, <1>3, <2>0
  <2>2. ~(i <= Len(a)) => i - Len(a) \in 1 .. Len(b) - 1
    BY <1>1
  <2> QED
    BY <1>4, <1>5, <2>1, <2>2
<1> DEFINE x == Front(w)
           y == a \o k
<1>7. x = y
  <2>1. x \in Seq(S) /\ y \in Seq(S) /\ Len(x) = Len(y) /\ \A i \in 1 .. Len(x) : x[i] = y[i]
    BY <1>3, <1>5, <1>6
  <2> HIDE DEF x, y
  <2> QED
    BY <2>1, SeqEqual
<1> QED
  BY <1>1, <1>7, EmptySeq DEF k

(* The cursor goes to the next row, and leaves c at the end of its own.        *)
RowLeft(rows, lengths, wraps, c) ==
    /\ rows \in Rows
    /\ lengths \in [HistoryRows -> 0 .. MAX_COLS] /\ wraps \in [HistoryRows -> BOOLEAN]
    /\ screen_history' = Advance(rows, BlankRow) /\ line_lengths' = Advance(lengths, 0)
    /\ line_wrapped' = Advance(wraps, FALSE) /\ AdvanceCursor
    /\ \A r \in HistoryRows : r # cursor_row =>
           rows[r] = screen_history[r] /\ lengths[r] = line_lengths[r]
           /\ wraps[r] = line_wrapped[r]
    /\ TextOf(rows[cursor_row], lengths[cursor_row], wraps[cursor_row]) = Append(Line, c)

(* The rows the cursor leaves behind it.                                       *)
LEMMA RowEnds ==
    ASSUME Shape, Shape', NEW rows, NEW lengths, NEW wraps, NEW c \in TextChars,
           RowLeft(rows, lengths, wraps, c),
           NEW E, E = Append(Done, Append(Line, c))
    PROVE  /\ Line' = <<>>
           /\ Done' = IF cursor_row + 1 = SCROLLBACK_ROWS THEN Tail(E) ELSE E
<1>0. /\ rows \in Rows
      /\ lengths \in [HistoryRows -> 0 .. MAX_COLS] /\ wraps \in [HistoryRows -> BOOLEAN]
      /\ screen_history' = Advance(rows, BlankRow) /\ line_lengths' = Advance(lengths, 0)
      /\ line_wrapped' = Advance(wraps, FALSE) /\ AdvanceCursor
      /\ \A r \in HistoryRows : r # cursor_row =>
             rows[r] = screen_history[r] /\ lengths[r] = line_lengths[r]
             /\ wraps[r] = line_wrapped[r]
      /\ TextOf(rows[cursor_row], lengths[cursor_row], wraps[cursor_row]) = Append(Line, c)
  BY Zenon DEF RowLeft
<1>1. /\ cursor_row \in Nat /\ cursor_row < SCROLLBACK_ROWS
      /\ cursor_col' = 0
      /\ cursor_row' = IF cursor_row + 1 = SCROLLBACK_ROWS THEN cursor_row ELSE cursor_row + 1
      /\ SCROLLBACK_ROWS \in Nat
  <2>1. cursor_row \in Nat /\ cursor_row < SCROLLBACK_ROWS /\ SCROLLBACK_ROWS \in Nat
    BY CursorFacts, SizesAre
  <2>2. cursor_col' = 0 /\ cursor_row' = Smaller(cursor_row + 1, SCROLLBACK_ROWS - 1)
    BY <1>0 DEF AdvanceCursor
  <2> QED
    BY <2>1, <2>2 DEF Smaller
<1>2. /\ Done \in Seq(Seq(TextChars)) /\ Len(Done) = cursor_row
      /\ Append(Line, c) \in Seq(TextChars)
      /\ \A r \in 1 .. cursor_row : Done[r] = RowText(r - 1)
  <2>1. Done \in Seq(Seq(TextChars)) /\ Len(Done) = cursor_row /\ Line \in Seq(TextChars)
    BY RowsText
  <2>2. Append(Line, c) \in Seq(TextChars)
    BY <2>1, AppendProperties
  <2> QED
    BY <2>1, <2>2 DEF Done
<1>3. /\ E \in Seq(Seq(TextChars)) /\ Len(E) = cursor_row + 1
      /\ \A r \in 1 .. cursor_row : E[r] = RowText(r - 1)
      /\ E[cursor_row + 1] = Append(Line, c)
  BY <1>1, <1>2, AppendProperties
<1> DEFINE texts(r) == TextOf(rows[r], lengths[r], wraps[r])
<1>4. \A r \in 0 .. cursor_row : texts(r) = E[r + 1]
  <2> TAKE r \in 0 .. cursor_row
  <2>1. CASE r = cursor_row
    BY <1>0, <1>3, <2>1
  <2>2. CASE r # cursor_row
    <3>1. r \in HistoryRows /\ r + 1 \in 1 .. cursor_row /\ (r + 1) - 1 = r
      BY <1>1, <2>2 DEF HistoryRows
    <3>2. texts(r) = RowText(r)
      BY <1>0, <2>2, <3>1, RowTextIs
    <3> QED
      BY <1>3, <3>1, <3>2
  <2> QED
    BY <2>1, <2>2
<1>5. Line' = <<>>
  <2>1. Line' \in Seq(TextChars) /\ Len(Line') = 0
    <3>1. /\ cursor_row' \in HistoryRows /\ screen_history' \in [HistoryRows -> [Cols -> Characters]]
          /\ 0 \in 0 .. MAX_COLS
      BY SizesAre DEF Shape, Rows
    <3>2. screen_history'[cursor_row'] \in [Cols -> Characters]
      BY <3>1
    <3>3. Line' = [i \in 1 .. 0 |-> screen_history'[cursor_row'][i - 1]]
      BY <1>1 DEF Line
    <3> QED
      BY <3>1, <3>2, <3>3, CellsText
  <2> QED
    BY <2>1, EmptySeq
<1>6. Done' = [r \in 1 .. cursor_row' |-> RowText(r - 1)']
  BY DEF Done
<1>7. CASE cursor_row + 1 = SCROLLBACK_ROWS
  <2>1. \A r \in 1 .. cursor_row : RowText(r - 1)' = E[r + 1]
    <3> TAKE r \in 1 .. cursor_row
    <3>1. r - 1 \in HistoryRows /\ r - 1 # SCROLLBACK_ROWS - 1 /\ (r - 1) + 1 = r /\ r \in 0 .. cursor_row
      BY <1>1, <1>7 DEF HistoryRows
    <3>2. /\ screen_history'[r - 1] = rows[r] /\ line_lengths'[r - 1] = lengths[r]
          /\ line_wrapped'[r - 1] = wraps[r]
      BY <1>0, <1>7, <3>1 DEF Advance, Up
    <3>3. RowText(r - 1)' = TextOf(screen_history'[r - 1], line_lengths'[r - 1], line_wrapped'[r - 1])
      BY <3>1, RowTextIsNext
    <3> QED
      BY <1>4, <3>1, <3>2, <3>3
  <2>2. Tail(E) = [r \in 1 .. cursor_row |-> E[r + 1]]
    <3>1. /\ Tail(E) \in Seq(Seq(TextChars)) /\ Len(Tail(E)) = cursor_row
          /\ \A r \in 1 .. cursor_row : Tail(E)[r] = E[r + 1]
      BY <1>1, <1>3, HeadTailProperties
    <3> DEFINE t == Tail(E)
    <3>2. t = [r \in 1 .. cursor_row |-> t[r]]
      <4>1. t \in Seq(Seq(TextChars)) /\ Len(t) = cursor_row
        BY <3>1
      <4> HIDE DEF t
      <4> QED
        BY <4>1
    <3> QED
      BY <3>1, <3>2
  <2> QED
    BY <1>1, <1>5, <1>6, <1>7, <2>1, <2>2
<1>8. CASE cursor_row + 1 # SCROLLBACK_ROWS
  <2>1. \A r \in 1 .. cursor_row + 1 : RowText(r - 1)' = E[r]
    <3> TAKE r \in 1 .. cursor_row + 1
    <3>1. r - 1 \in HistoryRows /\ r - 1 # cursor_row + 1 /\ (r - 1) + 1 = r /\ r - 1 \in 0 .. cursor_row
      BY <1>1 DEF HistoryRows
    <3>2. /\ screen_history'[r - 1] = rows[r - 1] /\ line_lengths'[r - 1] = lengths[r - 1]
          /\ line_wrapped'[r - 1] = wraps[r - 1]
      BY <1>0, <1>8, <3>1 DEF Advance, Rows
    <3>3. RowText(r - 1)' = TextOf(screen_history'[r - 1], line_lengths'[r - 1], line_wrapped'[r - 1])
      BY <3>1, RowTextIsNext
    <3> QED
      BY <1>4, <3>1, <3>2, <3>3
  <2>2. E = [r \in 1 .. cursor_row + 1 |-> E[r]]
    <3>1. PICK t, n : t = E /\ n = cursor_row + 1
      OBVIOUS
    <3>2. t \in Seq(Seq(TextChars)) /\ Len(t) = n
      BY <1>3, <3>1
    <3>3. t = [r \in 1 .. n |-> t[r]]
      BY <3>2
    <3> QED
      BY <3>1, <3>3
  <2> QED
    BY <1>1, <1>5, <1>6, <1>8, <2>1, <2>2
<1> QED
  BY <1>5, <1>7, <1>8

(* What is written then is still read back.                                    *)
LEMMA RowEndsText ==
    ASSUME Shape, ~moved, moved' = moved, TextIsRead, NEW c \in TextChars, Write(c),
           c = Newline \/ cursor_col + 1 >= MAX_COLS,
           NEW E, E = Append(Done, Append(Line, c)), Line' = <<>>,
           Done' = IF cursor_row + 1 = SCROLLBACK_ROWS THEN Tail(E) ELSE E
    PROVE  ReadsBack'
<1>1. /\ Done \in Seq(Seq(TextChars)) /\ Len(Done) = cursor_row /\ Line \in Seq(TextChars)
      /\ \A r \in 1 .. cursor_row : Done[r] = RowText(r - 1)
  <2>1. Done \in Seq(Seq(TextChars)) /\ Len(Done) = cursor_row /\ Line \in Seq(TextChars)
    BY RowsText
  <2> QED
    BY <2>1 DEF Done
<1>2. FlattenSeq(E) = Append(text, c) /\ text \in Seq(TextChars)
  <2>1. PICK R, l, t : R = Done /\ l = Line /\ t = text
    OBVIOUS
  <2>2. R \in Seq(Seq(TextChars)) /\ l \in Seq(TextChars) /\ c \in TextChars /\ t = Joined(FlattenSeq(R), l)
    BY <1>1, <2>1 DEF TextIsRead, Joined
  <2>3. FlattenSeq(Append(R, Append(l, c))) = Append(t, c) /\ t \in Seq(TextChars)
    BY <2>2, OneRowMore
  <2> QED
    BY <2>1, <2>3
<1>3. /\ E \in Seq(Seq(TextChars)) /\ Len(E) = cursor_row + 1
      /\ \A r \in 1 .. cursor_row : E[r] = RowText(r - 1)
  <2>1. Append(Line, c) \in Seq(TextChars)
    BY <1>1, AppendProperties
  <2> QED
    BY <1>1, <2>1, CursorFacts, AppendProperties
<1>4. text' = FlattenSeq(Done')
  <2>1. CASE cursor_row + 1 = SCROLLBACK_ROWS
    <3>1. text' = SubSeq(Append(text, c), Len(RowText(0)) + 1, Len(text) + 1)
      BY <2>1 DEF Write
    <3>2. E # <<>> /\ E[1] = RowText(0)
      <4>1. cursor_row \in Nat /\ cursor_row >= 1
        BY <2>1, CursorFacts, SizesAre
      <4>2. 1 \in 1 .. cursor_row /\ 1 - 1 = 0 /\ Len(E) # 0
        BY <1>3, <4>1
      <4> QED
        BY <1>3, <4>2, EmptySeq
    <3>3. Len(Append(text, c)) = Len(text) + 1
      BY <1>2, AppendProperties
    <3>4. SubSeq(Append(text, c), Len(E[1]) + 1, Len(Append(text, c))) = FlattenSeq(Tail(E))
      BY <1>2, <1>3, <3>2, FirstRowCut
    <3> QED
      BY <2>1, <3>1, <3>2, <3>3, <3>4
  <2>2. CASE cursor_row + 1 # SCROLLBACK_ROWS
    <3>1. text' = Append(text, c)
      BY <2>2 DEF Write
    <3> QED
      BY <1>2, <2>2, <3>1
  <2> QED
    BY <2>1, <2>2
<1>5. FlattenSeq(Done') \in Seq(TextChars)
  <2>1. CASE cursor_row + 1 = SCROLLBACK_ROWS
    <3>1. E # <<>>
      BY <1>3, CursorFacts, EmptySeq
    <3>2. Tail(E) \in Seq(Seq(TextChars))
      BY <1>3, <3>1, HeadTailProperties
    <3>3. FlattenSeq(Tail(E)) \in Seq(TextChars)
      BY <3>2, FlattenType
    <3> QED
      BY <2>1, <3>3
  <2>2. CASE cursor_row + 1 # SCROLLBACK_ROWS
    <3>1. FlattenSeq(E) \in Seq(TextChars)
      BY <1>3, FlattenType
    <3> QED
      BY <2>2, <3>1
  <2> QED
    BY <2>1, <2>2
<1>6. TextIsRead'
  <2>1. FlattenSeq(Done') = FlattenSeq(Done') \o Line'
    BY <1>5, ConcatEmptySeq
  <2> QED
    BY <1>4, <2>1 DEF TextIsRead
<1> QED
  BY <1>6, ReadsBackIsNext

LEMMA WrapsStayFull ==
    ASSUME Shape, NEW lengths, NEW wraps,
           lengths \in [HistoryRows -> 0 .. MAX_COLS], wraps \in [HistoryRows -> BOOLEAN],
           line_lengths' = Advance(lengths, 0), line_wrapped' = Advance(wraps, FALSE), AdvanceCursor,
           \A r \in HistoryRows : r <= cursor_row /\ wraps[r] => lengths[r] = MAX_COLS
    PROVE  WrappedRowsFull'
<1>1. /\ cursor_row \in Nat /\ cursor_row < SCROLLBACK_ROWS /\ SCROLLBACK_ROWS \in Nat
      /\ cursor_row' = IF cursor_row + 1 = SCROLLBACK_ROWS THEN cursor_row ELSE cursor_row + 1
  <2>1. cursor_row \in Nat /\ cursor_row < SCROLLBACK_ROWS /\ SCROLLBACK_ROWS \in Nat
    BY CursorFacts, SizesAre
  <2>2. cursor_row' = Smaller(cursor_row + 1, SCROLLBACK_ROWS - 1)
    BY DEF AdvanceCursor
  <2> QED
    BY <2>1, <2>2 DEF Smaller
<1> SUFFICES ASSUME NEW r \in HistoryRows, r < cursor_row', line_wrapped'[r]
             PROVE  line_lengths'[r] = MAX_COLS
  BY DEF WrappedRowsFull
<1>2. CASE cursor_row + 1 = SCROLLBACK_ROWS
  <2>1. r + 1 \in HistoryRows /\ r # SCROLLBACK_ROWS - 1 /\ r + 1 <= cursor_row
    BY <1>1, <1>2 DEF HistoryRows
  <2>2. line_lengths'[r] = lengths[r + 1] /\ line_wrapped'[r] = wraps[r + 1]
    BY <1>2, <2>1 DEF Advance, Up
  <2> QED
    BY <2>1, <2>2
<1>3. CASE cursor_row + 1 # SCROLLBACK_ROWS
  <2>1. r # cursor_row + 1 /\ r <= cursor_row
    BY <1>1, <1>3 DEF HistoryRows
  <2>2. line_lengths'[r] = lengths[r] /\ line_wrapped'[r] = wraps[r]
    BY <1>3, <2>1 DEF Advance
  <2> QED
    BY <2>1, <2>2
<1> QED
  BY <1>2, <1>3

(* What Reading says when the cursor was only moved by writing.                *)
LEMMA ReadingIs ==
    ASSUME Reading, ~moved
    PROVE  TextIsRead /\ WrappedRowsFull
BY ReadsBackIs DEF Reading, TextIsRead

LEMMA NewlineReads ==
    ASSUME Shape, Shape', Reading, put_newline
    PROVE  Reading'
<1> DEFINE lengths == [line_lengths EXCEPT ![cursor_row] = cursor_col]
           wraps == [line_wrapped EXCEPT ![cursor_row] = FALSE]
<1>1. moved' = moved /\ moved \in BOOLEAN
  BY DEF put_newline, Shape
<1>2. CASE moved
  BY <1>1, <1>2, ReadsBackIsNext DEF Reading
<1>3. CASE ~moved
  <2>0. lengths \in [HistoryRows -> 0 .. MAX_COLS] /\ wraps \in [HistoryRows -> BOOLEAN]
    BY SizesAre DEF Shape, Cols
  <2>1. /\ screen_history' = Advance(screen_history, BlankRow) /\ line_lengths' = Advance(lengths, 0)
        /\ line_wrapped' = Advance(wraps, FALSE) /\ AdvanceCursor /\ Write(Newline)
    BY DEF put_newline
  <2>2. /\ screen_history \in Rows /\ cursor_row \in HistoryRows
        /\ screen_history[cursor_row] \in [Cols -> Characters]
        /\ lengths[cursor_row] = cursor_col /\ ~wraps[cursor_row]
        /\ \A r \in HistoryRows : r # cursor_row =>
               lengths[r] = line_lengths[r] /\ wraps[r] = line_wrapped[r]
    BY DEF Shape, Rows
  <2>3. TextIsRead /\ WrappedRowsFull
    BY <1>3, ReadingIs
  <2>4. Newline \in TextChars /\ Line \in Seq(TextChars)
    BY RowsText DEF TextChars
  <2>5. TextOf(screen_history[cursor_row], lengths[cursor_row], wraps[cursor_row])
        = Append(Line, Newline)
    <3>1. TextOf(screen_history[cursor_row], cursor_col, FALSE) = Line \o <<Newline>>
      BY DEF TextOf, Line
    <3>2. Append(Line, Newline) = Line \o <<Newline>>
      BY <2>4, AppendIsConcat
    <3>3. wraps[cursor_row] = FALSE
      BY <2>0, <2>2
    <3> QED
      BY <2>2, <3>1, <3>2, <3>3
  <2>6. \A r \in HistoryRows : r <= cursor_row /\ wraps[r] => lengths[r] = MAX_COLS
    <3> TAKE r \in HistoryRows
    <3> HAVE r <= cursor_row /\ wraps[r]
    <3>1. r # cursor_row
      BY <2>2
    <3>2. r < cursor_row
      BY <3>1, CursorFacts DEF HistoryRows
    <3> QED
      BY <2>2, <2>3, <3>1, <3>2 DEF WrappedRowsFull
  <2> HIDE DEF lengths, wraps
  <2>7. WrappedRowsFull'
    BY <2>0, <2>1, <2>6, WrapsStayFull
  <2>8. PICK E : E = Append(Done, Append(Line, Newline))
    OBVIOUS
  <2>9. Line' = <<>> /\ Done' = IF cursor_row + 1 = SCROLLBACK_ROWS THEN Tail(E) ELSE E
    <3>1. RowLeft(screen_history, lengths, wraps, Newline)
      BY <2>0, <2>1, <2>2, <2>5 DEF RowLeft
    <3> QED
      BY <2>4, <2>8, <3>1, RowEnds
  <2>10. ReadsBack'
    BY <1>1, <1>3, <2>1, <2>3, <2>4, <2>8, <2>9, RowEndsText
  <2> QED
    BY <2>7, <2>10 DEF Reading
<1> QED
  BY <1>2, <1>3

LEMMA LastGlyphReads ==
    ASSUME Shape, Shape', Reading, NEW c \in Glyphs, put_last_glyph(c)
    PROVE  Reading'
<1> DEFINE rows == [screen_history EXCEPT ![cursor_row][cursor_col] = c]
           lengths == [line_lengths EXCEPT ![cursor_row] = cursor_col + 1]
           wraps == [line_wrapped EXCEPT ![cursor_row] = TRUE]
<1>1. moved' = moved /\ moved \in BOOLEAN
  BY DEF put_last_glyph, Shape
<1>2. CASE moved
  BY <1>1, <1>2, ReadsBackIsNext DEF Reading
<1>3. CASE ~moved
  <2>a. /\ cursor_col \in Nat /\ cursor_col \in Cols /\ cursor_col + 1 = MAX_COLS
        /\ cursor_col + 1 \in 0 .. MAX_COLS /\ cursor_col + 1 >= MAX_COLS
    BY CursorFacts, SizesAre DEF put_last_glyph, Cols
  <2>0. lengths \in [HistoryRows -> 0 .. MAX_COLS] /\ wraps \in [HistoryRows -> BOOLEAN]
    BY <2>a DEF Shape
  <2>1. /\ screen_history' = Advance(rows, BlankRow) /\ line_lengths' = Advance(lengths, 0)
        /\ line_wrapped' = Advance(wraps, FALSE) /\ AdvanceCursor /\ Write(c)
    BY DEF put_last_glyph
  <2>b. c \in Characters /\ c \in TextChars
    BY DEF Characters, TextChars
  <2>c. rows \in Rows
    BY <2>b, CharacterStored
  <2>2. /\ cursor_row \in HistoryRows /\ screen_history[cursor_row] \in [Cols -> Characters]
        /\ lengths[cursor_row] = cursor_col + 1 /\ wraps[cursor_row] = TRUE
        /\ rows[cursor_row] = [screen_history[cursor_row] EXCEPT ![cursor_col] = c]
        /\ \A r \in HistoryRows : r # cursor_row =>
               /\ rows[r] = screen_history[r]
               /\ lengths[r] = line_lengths[r] /\ wraps[r] = line_wrapped[r]
    BY DEF Shape, Rows
  <2>3. TextIsRead /\ WrappedRowsFull
    BY <1>3, ReadingIs
  <2>4. Line \in Seq(TextChars)
    BY RowsText
  <2>5. TextOf(rows[cursor_row], lengths[cursor_row], wraps[cursor_row]) = Append(Line, c)
    <3>1. Cells(rows[cursor_row], cursor_col + 1) = Append(Cells(screen_history[cursor_row], cursor_col), c)
      <4>1. PICK cells, len : cells = screen_history[cursor_row] /\ len = cursor_col
        OBVIOUS
      <4>2. cells \in [Cols -> Characters] /\ len \in Cols /\ c \in Characters
        BY <2>2, <2>a, <2>b, <4>1
      <4>3. Cells([cells EXCEPT ![len] = c], len + 1) = Append(Cells(cells, len), c)
        BY <4>2, CellsAppend
      <4>4. rows[cursor_row] = [cells EXCEPT ![len] = c]
        BY <2>2, <4>1
      <4> HIDE DEF rows
      <4> QED
        BY <4>1, <4>3, <4>4
    <3>2. Line = Cells(screen_history[cursor_row], cursor_col)
      BY DEF Line, Cells
    <3>3. TextOf(rows[cursor_row], cursor_col + 1, TRUE) = Cells(rows[cursor_row], cursor_col + 1) \o <<>>
      BY Zenon DEF TextOf, Cells
    <3>4. Append(Line, c) \in Seq(TextChars)
      BY <2>4, <2>b, AppendProperties
    <3>5. Append(Line, c) \o <<>> = Append(Line, c)
      BY <3>4, ConcatEmptySeq
    <3> QED
      BY <2>2, <3>1, <3>2, <3>3, <3>5
  <2>6. \A r \in HistoryRows : r <= cursor_row /\ wraps[r] => lengths[r] = MAX_COLS
    <3> TAKE r \in HistoryRows
    <3> HAVE r <= cursor_row /\ wraps[r]
    <3>1. CASE r = cursor_row
      BY <2>2, <2>a, <3>1
    <3>2. CASE r # cursor_row
      <4>1. r < cursor_row
        BY <3>2, CursorFacts DEF HistoryRows
      <4> QED
        BY <2>2, <2>3, <3>2, <4>1 DEF WrappedRowsFull
    <3> QED
      BY <3>1, <3>2
  <2> HIDE DEF rows, lengths, wraps
  <2>7. WrappedRowsFull'
    BY <2>0, <2>1, <2>6, WrapsStayFull
  <2>8. PICK E : E = Append(Done, Append(Line, c))
    OBVIOUS
  <2>9. Line' = <<>> /\ Done' = IF cursor_row + 1 = SCROLLBACK_ROWS THEN Tail(E) ELSE E
    <3>1. RowLeft(rows, lengths, wraps, c)
      BY <2>0, <2>1, <2>2, <2>5, <2>c DEF RowLeft
    <3> QED
      BY <2>8, <2>b, <3>1, RowEnds
  <2>10. ReadsBack'
    BY <1>1, <1>3, <2>1, <2>3, <2>8, <2>9, <2>a, <2>b, RowEndsText
  <2> QED
    BY <2>7, <2>10 DEF Reading
<1> QED
  BY <1>2, <1>3

(* The rows above the cursor when they are left alone.                         *)
LEMMA RowsKept ==
    ASSUME Shape, cursor_row' \in 0 .. cursor_row,
           \A r \in HistoryRows : r < cursor_row' =>
               /\ screen_history'[r] = screen_history[r] /\ line_lengths'[r] = line_lengths[r]
               /\ line_wrapped'[r] = line_wrapped[r]
    PROVE  /\ Done' = [r \in 1 .. cursor_row' |-> RowText(r - 1)]
           /\ WrappedRowsFull => WrappedRowsFull'
<1>1. /\ cursor_row \in Nat /\ cursor_row < SCROLLBACK_ROWS /\ SCROLLBACK_ROWS \in Nat
      /\ cursor_row' \in Nat /\ cursor_row' <= cursor_row
  <2>1. cursor_row \in Nat /\ cursor_row < SCROLLBACK_ROWS /\ SCROLLBACK_ROWS \in Nat
    BY CursorFacts, SizesAre
  <2> QED
    BY <2>1
<1>2. \A r \in 1 .. cursor_row' : RowText(r - 1)' = RowText(r - 1)
  <2> TAKE r \in 1 .. cursor_row'
  <2>1. r - 1 \in HistoryRows /\ r - 1 < cursor_row'
    BY <1>1 DEF HistoryRows
  <2>2. /\ screen_history'[r - 1] = screen_history[r - 1] /\ line_lengths'[r - 1] = line_lengths[r - 1]
        /\ line_wrapped'[r - 1] = line_wrapped[r - 1]
    BY <2>1
  <2>3. /\ RowText(r - 1)' = TextOf(screen_history'[r - 1], line_lengths'[r - 1], line_wrapped'[r - 1])
        /\ RowText(r - 1) = TextOf(screen_history[r - 1], line_lengths[r - 1], line_wrapped[r - 1])
    BY RowTextIs, RowTextIsNext
  <2> QED
    BY <2>2, <2>3
<1>3. Done' = [r \in 1 .. cursor_row' |-> RowText(r - 1)']
  BY DEF Done
<1>4. Done' = [r \in 1 .. cursor_row' |-> RowText(r - 1)]
  BY <1>2, <1>3
<1>5. ASSUME WrappedRowsFull
      PROVE  WrappedRowsFull'
  <2> SUFFICES ASSUME NEW r \in HistoryRows, r < cursor_row', line_wrapped'[r]
               PROVE  line_lengths'[r] = MAX_COLS
    BY DEF WrappedRowsFull
  <2>1. r < cursor_row /\ line_wrapped[r]
    BY <1>1 DEF HistoryRows
  <2>2. line_lengths[r] = MAX_COLS
    BY <1>5, <2>1 DEF WrappedRowsFull
  <2> QED
    BY <2>2
<1> QED
  BY <1>4, <1>5

LEMMA AppendJoined ==
    ASSUME NEW S, NEW a \in Seq(S), NEW b \in Seq(S), NEW c \in S
    PROVE  Append(Joined(a, b), c) = Joined(a, Append(b, c))
<1> DEFINE k == <<c>>
<1>1. k \in Seq(S) /\ Append(b, c) = b \o k
  BY AppendIsConcat
<1>2. a \o b \in Seq(S)
  BY ConcatProperties
<1> DEFINE ab == a \o b
<1>3. Append(ab, c) = ab \o k
  <2> HIDE DEF ab
  <2>1. ab \in Seq(S)
    BY <1>2 DEF ab
  <2> QED
    BY <2>1, AppendIsConcat
<1> HIDE DEF k
<1>4. Joined(Joined(a, b), k) = Joined(a, Joined(b, k))
  <2>1. a \in Seq(S) /\ b \in Seq(S) /\ k \in Seq(S)
    BY <1>1
  <2> QED
    BY <2>1, JoinedAssociative
<1> QED
  BY <1>1, <1>3, <1>4 DEF Joined

LEMMA GlyphReads ==
    ASSUME Shape, Reading, NEW c \in Glyphs, put_glyph(c)
    PROVE  Reading'
<1>1. moved' = moved /\ moved \in BOOLEAN
  BY DEF put_glyph, Shape
<1>2. CASE moved
  BY <1>1, <1>2, ReadsBackIsNext DEF Reading
<1>3. CASE ~moved
  <2>1. /\ screen_history' = [screen_history EXCEPT ![cursor_row][cursor_col] = c]
        /\ line_lengths' = [line_lengths EXCEPT ![cursor_row] = cursor_col + 1]
        /\ line_wrapped' = [line_wrapped EXCEPT ![cursor_row] = FALSE]
        /\ cursor_col' = cursor_col + 1 /\ cursor_col + 1 < MAX_COLS
        /\ cursor_row' = cursor_row /\ Write(c)
    BY DEF put_glyph
  <2>2. TextIsRead /\ WrappedRowsFull
    BY <1>3, ReadingIs
  <2>3. c \in Characters /\ c \in TextChars /\ c # Newline
    BY GlyphsAssumption DEF Characters, TextChars
  <2>4. /\ cursor_row \in HistoryRows /\ cursor_row \in Nat /\ cursor_col \in Cols /\ cursor_col \in Nat
        /\ screen_history[cursor_row] \in [Cols -> Characters]
        /\ screen_history'[cursor_row] = [screen_history[cursor_row] EXCEPT ![cursor_col] = c]
        /\ \A r \in HistoryRows : r < cursor_row =>
               /\ screen_history'[r] = screen_history[r] /\ line_lengths'[r] = line_lengths[r]
               /\ line_wrapped'[r] = line_wrapped[r]
    <3>1. cursor_row \in Nat /\ cursor_col \in Nat
      BY CursorFacts
    <3>2. \A r \in HistoryRows : r < cursor_row => r # cursor_row
      BY <3>1 DEF HistoryRows
    <3> QED
      BY <2>1, <3>1, <3>2 DEF Shape, Rows
  <2>5. Done' = [r \in 1 .. cursor_row |-> RowText(r - 1)] /\ WrappedRowsFull'
    <3>1. cursor_row' \in 0 .. cursor_row
      BY <2>1, <2>4
    <3> QED
      BY <2>1, <2>2, <2>4, <3>1, RowsKept
  <2>6. Done' = Done
    BY <2>5 DEF Done
  <2>7. Line' = Append(Line, c)
    <3>1. PICK cells, len : cells = screen_history[cursor_row] /\ len = cursor_col
      OBVIOUS
    <3>2. cells \in [Cols -> Characters] /\ len \in Cols /\ c \in Characters
      BY <2>3, <2>4, <3>1
    <3>3. Cells([cells EXCEPT ![len] = c], len + 1) = Append(Cells(cells, len), c)
      BY <3>2, CellsAppend
    <3>4. Line = Cells(cells, len)
      BY <3>1 DEF Line, Cells
    <3>5. Line' = Cells([cells EXCEPT ![len] = c], len + 1)
      <4>1. Line' = Cells(screen_history'[cursor_row'], cursor_col')
        BY DEF Line, Cells
      <4> QED
        BY <2>1, <2>4, <3>1, <4>1
    <3> QED
      BY <3>3, <3>4, <3>5
  <2>8. text' = Append(text, c)
    <3>1. ~(c = Newline \/ cursor_col + 1 >= MAX_COLS)
      BY <2>1, <2>3, <2>4, SizesAre
    <3> QED
      BY <1>3, <2>1, <3>1 DEF Write
  <2>9. Append(text, c) = FlattenSeq(Done) \o Append(Line, c)
    <3>1. PICK a, b : a = FlattenSeq(Done) /\ b = Line
      OBVIOUS
    <3>2. a \in Seq(TextChars) /\ b \in Seq(TextChars) /\ c \in TextChars
      BY <2>3, <3>1, RowsText, FlattenType
    <3>3. Append(Joined(a, b), c) = Joined(a, Append(b, c))
      BY <3>2, AppendJoined
    <3> QED
      BY <2>2, <3>1, <3>3 DEF TextIsRead, Joined
  <2>10. TextIsRead'
    BY <2>6, <2>7, <2>8, <2>9 DEF TextIsRead
  <2> QED
    BY <2>5, <2>10, ReadsBackIsNext DEF Reading
<1> QED
  BY <1>2, <1>3

LEMMA FrontAppend ==
    ASSUME NEW S, NEW s \in Seq(S), NEW c \in S
    PROVE  Front(Append(s, c)) = s /\ Append(s, c) # <<>>
<1> DEFINE t == Append(s, c)
<1>1. /\ t \in Seq(S) /\ Len(t) = Len(s) + 1 /\ Len(s) \in Nat
      /\ \A i \in 1 .. Len(s) : t[i] = s[i]
  BY AppendProperties, LenProperties
<1> HIDE DEF t
<1>2. Len(t) > 0 /\ Len(t) - 1 = Len(s)
  BY <1>1
<1>3. Front(t) \in Seq(S) /\ Len(Front(t)) = Len(s) /\ \A i \in 1 .. Len(s) : Front(t)[i] = t[i]
  BY <1>1, <1>2, FrontIs
<1> DEFINE f == Front(t)
<1>4. f \in Seq(S) /\ s \in Seq(S) /\ Len(f) = Len(s) /\ \A i \in 1 .. Len(f) : f[i] = s[i]
  BY <1>1, <1>3
<1>5. f = s
  <2> HIDE DEF f
  <2> QED
    BY <1>4, SeqEqual
<1> QED
  BY <1>1, <1>5, EmptySeq DEF t

(* Erasing the end of a row the cursor comes back to.                          *)
LEMMA RowErased ==
    ASSUME NEW cells \in [Cols -> Characters], NEW len \in 0 .. MAX_COLS, NEW wrapped \in BOOLEAN,
           NEW c \in Characters, wrapped => len = MAX_COLS, ~wrapped => len \in Cols,
           NEW col, col = IF wrapped THEN MAX_COLS - 1 ELSE len
    PROVE  /\ Cells([cells EXCEPT ![col] = c], col) = Front(TextOf(cells, len, wrapped))
           /\ TextOf(cells, len, wrapped) # <<>>
<1>1. Cells(cells, len) \in Seq(TextChars)
  BY CellsText DEF Cells
<1>2. TextOf(cells, len, wrapped) = Cells(cells, len) \o (IF wrapped THEN <<>> ELSE <<Newline>>)
  BY Zenon DEF TextOf, Cells
<1>3. CASE wrapped
  <2>1. len \in 1 .. MAX_COLS /\ col = len - 1
    BY <1>3, SizesAre
  <2>2. /\ Cells([cells EXCEPT ![len - 1] = c], len - 1) = Front(Cells(cells, len))
        /\ Cells(cells, len) # <<>>
    BY <2>1, CellsFront
  <2>3. TextOf(cells, len, wrapped) = Cells(cells, len)
    BY <1>1, <1>2, <1>3, ConcatEmptySeq
  <2> QED
    BY <2>1, <2>2, <2>3
<1>4. CASE ~wrapped
  <2>1. col = len /\ len \in Cols
    BY <1>4
  <2>2. Newline \in TextChars
    BY DEF TextChars
  <2>3. TextOf(cells, len, wrapped) = Append(Cells(cells, len), Newline)
    BY <1>1, <1>2, <1>4, <2>2, AppendIsConcat
  <2>4. /\ Front(Append(Cells(cells, len), Newline)) = Cells(cells, len)
        /\ Append(Cells(cells, len), Newline) # <<>>
    BY <1>1, <2>2, FrontAppend
  <2>5. Cells([cells EXCEPT ![len] = c], len) = Cells(cells, len)
    <3>1. \A i \in 1 .. len : [cells EXCEPT ![len] = c][i - 1] = cells[i - 1]
      <4>1. len \in Nat /\ \A i \in 1 .. len : i - 1 \in Cols /\ i - 1 # len
        BY SizesAre DEF Cols
      <4> QED
        BY <4>1
    <3> QED
      BY <3>1 DEF Cells
  <2> QED
    BY <2>1, <2>3, <2>4, <2>5
<1> QED
  BY <1>3, <1>4

(* A text that loses its last character.                                       *)
LEMMA TextShorter ==
    ASSUME NEW a \in Seq(TextChars), NEW b \in Seq(TextChars), b # <<>>,
           NEW t, t = Joined(a, b)
    PROVE  /\ t # <<>> /\ Front(t) = Joined(a, Front(b))
BY FrontJoined DEF Joined

LEMMA BackspaceReads ==
    ASSUME Shape, Reading, put_backspace
    PROVE  Reading'
<1>1. moved' = moved /\ moved \in BOOLEAN
  BY DEF put_backspace, Shape
<1>2. CASE moved
  BY <1>1, <1>2, ReadsBackIsNext DEF Reading
<1>3. CASE ~moved
  <2>1. PICK row, col :
          /\ row = IF cursor_col > 0 THEN cursor_row ELSE cursor_row - 1
          /\ col = IF cursor_col > 0 THEN cursor_col - 1 ELSE EndOfRow(cursor_row - 1)
    OBVIOUS
  <2>2. /\ cursor_row > 0 \/ cursor_col > 0
        /\ cursor_row' = row /\ cursor_col' = col
        /\ line_lengths' = [line_lengths EXCEPT ![row] = col]
        /\ line_wrapped' = [line_wrapped EXCEPT ![row] = IF col = MAX_COLS - 1 THEN FALSE ELSE @]
        /\ screen_history' = [screen_history EXCEPT ![row][col] = Space]
        /\ text' = IF text = <<>> THEN text ELSE Front(text)
    BY <2>1 DEF put_backspace
  <2>3. TextIsRead /\ WrappedRowsFull
    BY <1>3, ReadingIs
  <2>4. /\ cursor_row \in Nat /\ cursor_col \in Nat /\ cursor_col < MAX_COLS
        /\ cursor_row < SCROLLBACK_ROWS /\ SCROLLBACK_ROWS \in Nat
    BY CursorFacts, SizesAre
  <2>5. row \in HistoryRows /\ row \in Nat /\ row \in 0 .. cursor_row
    BY <2>1, <2>2, <2>4 DEF HistoryRows
  <2>6. /\ screen_history[row] \in [Cols -> Characters]
        /\ screen_history'[row] = [screen_history[row] EXCEPT ![col] = Space]
        /\ \A r \in HistoryRows : r < row =>
               /\ screen_history'[r] = screen_history[r] /\ line_lengths'[r] = line_lengths[r]
               /\ line_wrapped'[r] = line_wrapped[r]
    <3>1. \A r \in HistoryRows : r < row => r # row
      BY <2>5 DEF HistoryRows
    <3> QED
      BY <2>2, <2>5, <3>1 DEF Shape, Rows
  <2>7. Done' = [r \in 1 .. row |-> RowText(r - 1)] /\ WrappedRowsFull'
    BY <2>2, <2>3, <2>5, <2>6, RowsKept
  <2>8. PICK cells : cells = screen_history[row]
    OBVIOUS
  <2>9. Line' = Cells([cells EXCEPT ![col] = Space], col)
    <3>1. Line' = Cells(screen_history'[cursor_row'], cursor_col')
      BY DEF Line, Cells
    <3> QED
      BY <2>2, <2>6, <2>8, <3>1
  <2>10. Space \in Characters /\ cells \in [Cols -> Characters]
    BY <2>6, <2>8 DEF Characters
  <2>11. \E a, b \in Seq(TextChars) : /\ b # <<>> /\ text = Joined(a, b)
                                    /\ a = FlattenSeq(Done') /\ Line' = Front(b)
    <3>1. CASE cursor_col > 0
      <4>1. row = cursor_row /\ col = cursor_col - 1 /\ cursor_col \in 1 .. MAX_COLS
        BY <2>1, <2>4, <3>1, SizesAre
      <4>2. Done' = Done
        BY <2>7, <4>1 DEF Done
      <4>3. Line = Cells(cells, cursor_col)
        BY <2>8, <4>1 DEF Line, Cells
      <4>4. PICK len : len = cursor_col
        OBVIOUS
      <4>5. /\ Cells([cells EXCEPT ![len - 1] = Space], len - 1) = Front(Cells(cells, len))
            /\ Cells(cells, len) # <<>>
        BY <2>10, <4>1, <4>4, CellsFront
      <4>6. Line' = Front(Line) /\ Line # <<>>
        BY <2>9, <4>1, <4>3, <4>4, <4>5
      <4>7. Line \in Seq(TextChars) /\ FlattenSeq(Done) \in Seq(TextChars)
        BY RowsText, FlattenType
      <4>8. text = Joined(FlattenSeq(Done), Line)
        BY <2>3 DEF TextIsRead, Joined
      <4> QED
        BY <4>2, <4>6, <4>7, <4>8
    <3>2. CASE ~(cursor_col > 0)
      <4>1. row = cursor_row - 1 /\ cursor_row > 0 /\ cursor_col = 0 /\ col = EndOfRow(row) /\ row < cursor_row
        BY <2>1, <2>2, <2>4, <3>2
      <4>2. PICK len, wrapped : len = line_lengths[row] /\ wrapped = line_wrapped[row]
        OBVIOUS
      <4>3. /\ len \in 0 .. MAX_COLS /\ wrapped \in BOOLEAN
            /\ wrapped => len = MAX_COLS
            /\ ~wrapped => len \in Cols
        <5>1. len \in 0 .. MAX_COLS /\ wrapped \in BOOLEAN /\ (len = MAX_COLS => wrapped)
          BY <2>5, <4>2 DEF Shape, RowsInUse
        <5>2. wrapped => len = MAX_COLS
          BY <2>3, <2>5, <4>1, <4>2 DEF WrappedRowsFull
        <5> QED
          BY <5>1, <5>2, SizesAre DEF Cols
      <4>4. col = IF wrapped THEN MAX_COLS - 1 ELSE len
        BY <4>1, <4>2 DEF EndOfRow
      <4>5. PICK b : b = TextOf(cells, len, wrapped)
        OBVIOUS
      <4>6. Cells([cells EXCEPT ![col] = Space], col) = Front(b) /\ b # <<>> /\ b \in Seq(TextChars)
        BY <2>10, <4>3, <4>4, <4>5, RowErased, TextOfType
      <4>7. RowText(row) = b
        BY <2>8, <4>2, <4>5, RowTextIs
      <4>8. /\ Done \in Seq(Seq(TextChars)) /\ Line = <<>>
            /\ Done' \in Seq(Seq(TextChars)) /\ Done = Append(Done', b)
        <5>1. Done \in Seq(Seq(TextChars)) /\ Line \in Seq(TextChars) /\ Len(Line) = 0
          BY <4>1, RowsText
        <5>2. \A r \in 1 .. row : RowText(r - 1) \in Seq(TextChars)
          <6>1. \A r \in 1 .. row : r - 1 \in HistoryRows
            BY <2>4, <2>5 DEF HistoryRows
          <6> QED
            BY <6>1, RowsText
        <5>3. PICK d : d = [r \in 1 .. row |-> RowText(r - 1)]
          OBVIOUS
        <5>4. d \in Seq(Seq(TextChars)) /\ Len(d) = row
          BY <2>5, <5>2, <5>3
        <5>5. Append(d, b) \in Seq(Seq(TextChars)) /\ Len(Append(d, b)) = row + 1
              /\ \A r \in 1 .. row + 1 : Append(d, b)[r] = IF r = row + 1 THEN b ELSE d[r]
          BY <4>6, <5>4, AppendProperties
        <5>6. PICK e : e = Append(d, b)
          OBVIOUS
        <5>7. row + 1 = cursor_row /\ (row + 1) - 1 = row
          BY <2>4, <4>1
        <5>8. \A r \in 1 .. row + 1 : e[r] = RowText(r - 1)
          <6> TAKE r \in 1 .. row + 1
          <6>1. CASE r = row + 1
            BY <4>7, <5>5, <5>6, <5>7, <6>1
          <6>2. CASE r # row + 1
            <7>1. r \in 1 .. row
              BY <2>5, <6>2
            <7> QED
              BY <5>3, <5>5, <5>6, <6>2, <7>1
          <6> QED
            BY <6>1, <6>2
        <5>9. e = [r \in 1 .. row + 1 |-> e[r]]
          <6>1. PICK n : n = row + 1
            OBVIOUS
          <6>2. e \in Seq(Seq(TextChars)) /\ Len(e) = n
            BY <5>5, <5>6, <6>1
          <6>3. e = [r \in 1 .. n |-> e[r]]
            BY <6>2
          <6> QED
            BY <6>1, <6>3
        <5>10. e = Done
          BY <5>7, <5>8, <5>9 DEF Done
        <5> QED
          BY <2>7, <5>1, <5>3, <5>4, <5>6, <5>10, EmptySeq
      <4>9. PICK d : d = Done'
        OBVIOUS
      <4>10. FlattenSeq(Append(d, b)) = FlattenSeq(d) \o b /\ FlattenSeq(d) \in Seq(TextChars)
        BY <4>6, <4>8, <4>9, FlattenAppend, FlattenType
      <4>11. text = FlattenSeq(Done)
        <5>1. FlattenSeq(Done) \in Seq(TextChars)
          BY <4>8, FlattenType
        <5>2. text = FlattenSeq(Done) \o <<>>
          BY <2>3, <4>8 DEF TextIsRead
        <5> QED
          BY <5>1, <5>2, ConcatEmptySeq
      <4>12. text = Joined(FlattenSeq(d), b)
        BY <4>8, <4>9, <4>10, <4>11 DEF Joined
      <4> QED
        BY <2>9, <4>6, <4>9, <4>10, <4>12
    <3> QED
      BY <3>1, <3>2
  <2>12. PICK a \in Seq(TextChars), b \in Seq(TextChars) :
            b # <<>> /\ text = Joined(a, b) /\ a = FlattenSeq(Done') /\ Line' = Front(b)
    BY <2>11
  <2>13. text # <<>> /\ Front(text) = Joined(a, Front(b))
    BY <2>12, TextShorter
  <2>14. TextIsRead'
    BY <2>2, <2>12, <2>13 DEF TextIsRead, Joined
  <2> QED
    BY <2>7, <2>14, ReadsBackIsNext DEF Reading
<1> QED
  BY <1>2, <1>3

LEMMA NothingRead ==
    ASSUME cursor_row = 0, cursor_col = 0, text = <<>>
    PROVE  TextIsRead /\ WrappedRowsFull
<1>1. Done = <<>>
  <2>1. Done \in Seq(Seq(TextChars)) /\ Len(Done) = 0
    BY DEF Done
  <2> QED
    BY <2>1, EmptySeq
<1>2. Line = <<>>
  <2>1. Line \in Seq(TextChars) /\ Len(Line) = 0
    BY DEF Line
  <2> QED
    BY <2>1, EmptySeq
<1>3. FlattenSeq(<<>>) = <<>>
  BY DEF FlattenSeq
<1>4. TextIsRead
  <2>1. <<>> \o <<>> = <<>>
    BY ConcatEmptySeq
  <2> QED
    BY <1>1, <1>2, <1>3, <2>1 DEF TextIsRead
<1>5. WrappedRowsFull
  BY SizesAre DEF WrappedRowsFull, HistoryRows
<1> QED
  BY <1>4, <1>5

LEMMA ClearReads ==
    ASSUME terminal_clear
    PROVE  Reading'
<1>1. (cursor_row = 0 /\ cursor_col = 0 /\ text = <<>>)' => (TextIsRead /\ WrappedRowsFull)'
  BY NothingRead, PTL
<1>2. (cursor_row = 0 /\ cursor_col = 0 /\ text = <<>>)'
  BY DEF terminal_clear
<1> QED
  BY <1>1, <1>2, ReadsBackIsNext DEF Reading

LEMMA OtherReads ==
    ASSUME Shape, Reading, Next, ~terminal_put_char \/ put_backspace_nowhere, ~terminal_clear
    PROVE  Reading'
<1>1. CASE moved'
  BY <1>1, ReadsBackIsNext DEF Reading
<1>2. CASE UNCHANGED <<history, cursor, written>>
  <2>1. Done' = Done /\ Line' = Line
    BY <1>2 DEF Done, Line, RowText
  <2>2. WrappedRowsFull' <=> WrappedRowsFull
    BY <1>2 DEF WrappedRowsFull
  <2>3. TextIsRead' <=> TextIsRead
    BY <1>2, <2>1 DEF TextIsRead
  <2>4. ReadsBack <=> (~moved => TextIsRead)
    BY ReadsBackIs DEF TextIsRead
  <2>5. moved' = moved
    BY <1>2
  <2> QED
    BY <2>2, <2>3, <2>4, <2>5, ReadsBackIsNext DEF Reading
<1>3. moved' \/ UNCHANGED <<history, cursor, written>>
  <2>1. CASE put_backspace_nowhere
    BY <2>1 DEF put_backspace_nowhere
  <2>2. CASE \E row \in HistoryRows, col \in Cols : terminal_set_cursor_absolute(row, col)
    BY <2>2 DEF terminal_set_cursor_absolute, Move
  <2>3. CASE terminal_move_cursor_left \/ terminal_move_cursor_right
    BY <2>3 DEF terminal_move_cursor_left, terminal_move_cursor_right, MoveTo, Move
  <2>4. CASE \E row \in ScreenRows, col \in Cols : terminal_set_cursor_offset(row, col)
    BY <2>4 DEF terminal_set_cursor_offset, Move
  <2>5. CASE terminal_scroll_page_up \/ terminal_scroll_page_down
    BY <2>5 DEF terminal_scroll_page_up, terminal_scroll_page_down
  <2>6. CASE terminal_begin_batch \/ terminal_end_batch
    BY <2>6 DEF terminal_begin_batch, terminal_end_batch
  <2> QED
    BY <2>1, <2>2, <2>3, <2>4, <2>5, <2>6 DEF Next
<1> QED
  BY <1>1, <1>2, <1>3

LEMMA ReadingStep ==
    ASSUME IInv, IInv', Reading, [Next]_vars
    PROVE  Reading'
<1>1. Shape /\ Shape'
  BY DEF IInv
<1>2. CASE Next
  <2>1. CASE put_newline
    BY <1>1, <2>1, NewlineReads
  <2>2. CASE \E c \in Glyphs : put_glyph(c)
    BY <1>1, <2>2, GlyphReads
  <2>3. CASE \E c \in Glyphs : put_last_glyph(c)
    BY <1>1, <2>3, LastGlyphReads
  <2>4. CASE put_backspace
    BY <1>1, <2>4, BackspaceReads
  <2>5. CASE terminal_clear
    BY <2>5, ClearReads
  <2>6. CASE (~terminal_put_char \/ put_backspace_nowhere) /\ ~terminal_clear
    BY <1>1, <1>2, <2>6, OtherReads
  <2> QED
    BY <2>1, <2>2, <2>3, <2>4, <2>5, <2>6 DEF terminal_put_char
<1>3. CASE UNCHANGED vars
  <2>1. Done' = Done /\ Line' = Line /\ moved' = moved /\ text' = text
    BY <1>3 DEF vars, Done, Line, RowText
  <2>2. WrappedRowsFull' <=> WrappedRowsFull
    BY <1>3 DEF vars, WrappedRowsFull
  <2>3. TextIsRead' <=> TextIsRead
    BY <2>1 DEF TextIsRead
  <2>4. ReadsBack <=> (~moved => TextIsRead)
    BY ReadsBackIs DEF TextIsRead
  <2> QED
    BY <2>1, <2>2, <2>3, <2>4, ReadsBackIsNext DEF Reading
<1> QED
  BY <1>2, <1>3

-----------------------------------------------------------------------------
(* The results                                                                 *)

(* The cursor stays in the history and its columns and the view in the         *)
(* history, so no call reads or writes a row or a column that is not there     *)
(* (terminal.c lines 20-34).                                                   *)
THEOREM TypeCorrect == Spec => []TypeOK
<1>1. IInv => TypeOK
  BY DEF IInv, Shape, Drawing, TypeOK, Rows
<1> QED
  BY Invariance, <1>1, PTL

(* The cursor is in a row in use, the view at or above its live position, full *)
(* rows wrap and rows not in use are blank (terminal_put_char,                 *)
(* shift_history_up, terminal_set_cursor_offset).                              *)
THEOREM RowsStayInUse == Spec => []RowsInUse
<1>1. IInv => RowsInUse
  BY DEF IInv, Shape
<1> QED
  BY Invariance, <1>1, PTL

(* Outside a batch the screen shows the view: no call forgets to draw, and no  *)
(* batch ends with a drawing still to do (request_render, terminal_end_batch). *)
THEOREM ScreenStaysCurrent == Spec => []ScreenIsCurrent
<1>1. IInv => ScreenIsCurrent
  BY DEF IInv, Drawing, ScreenIsCurrent
<1> QED
  BY Invariance, <1>1, PTL

(* What was written since the last clear can be read back from the history,    *)
(* up to the rows it has lost, whatever was written and erased                 *)
(* (terminal_put_char, advance_to_next_row, shift_history_up).                 *)
THEOREM WritingIsReadBack == Spec => []ReadsBack
<1>1. Init => Reading
  <2> SUFFICES ASSUME Init PROVE Reading
    OBVIOUS
  <2>1. TextIsRead /\ WrappedRowsFull
    BY NothingRead DEF Init
  <2> QED
    BY <2>1, ReadsBackIs DEF Reading, TextIsRead
<1>2. IInv /\ IInv' /\ Reading /\ [Next]_vars => Reading'
  BY ReadingStep
<1>3. Reading => ReadsBack
  BY DEF Reading
<1> QED
  BY Invariance, <1>1, <1>2, <1>3, PTL DEF Spec
=============================================================================
