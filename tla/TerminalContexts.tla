--------------------------- MODULE TerminalContexts ---------------------------
(***************************************************************************)
(* The terminal written to by the main loop (received UDP text, DHCP       *)
(* reports) and by the shell, which runs in the keyboard interrupt and so  *)
(* between any two statements of the main loop's terminal_put_char.        *)
(* Nothing turns interrupts off around terminal.c.                         *)
(*                                                                         *)
(* The shell's calls are those of Terminal; a character of the main loop   *)
(* is stored, counted, wrapped and given its row in a step each.  An       *)
(* interrupt that would write outside the history's array is left out.     *)
(***************************************************************************)
EXTENDS Terminal, FiniteSets

CONSTANTS
    NetGlyph, ShellGlyph,   \* two members of Glyphs
    MAX_NET, MAX_SHELL      \* bounds: characters written by the main loop, by the shell

VARIABLES
    main_pc,                \* where the main loop is in terminal_put_char
    net_written, shell_written

contexts == <<main_pc, net_written, shell_written>>

ContextsInit ==
    /\ Init
    /\ main_pc = "elsewhere"
    /\ net_written = 0 /\ shell_written = 0

MainStores ==
    /\ main_pc = "elsewhere"
    /\ net_written < MAX_NET
    /\ screen_history' = [screen_history EXCEPT ![cursor_row][cursor_col] = NetGlyph]
    /\ main_pc' = "count"
    /\ net_written' = net_written + 1
    /\ UNCHANGED <<line_lengths, line_wrapped, cursor, total_rows, view_top_row,
                   batch, vga, written, shell_written>>

MainCounts ==
    /\ main_pc = "count"
    /\ cursor_col' = cursor_col + 1
    /\ line_lengths' = [line_lengths EXCEPT ![cursor_row] = cursor_col + 1]
    /\ main_pc' = "wrap"
    /\ UNCHANGED <<screen_history, line_wrapped, cursor_row, total_rows, view_top_row,
                   batch, vga, written, net_written, shell_written>>

MainWraps ==
    /\ main_pc = "wrap"
    /\ line_wrapped' = [line_wrapped EXCEPT ![cursor_row] = cursor_col >= MAX_COLS]
    /\ IF cursor_col >= MAX_COLS
       THEN /\ cursor_col' = 0
            /\ cursor_row' = cursor_row + 1
            /\ main_pc' = "make_room"
       ELSE main_pc' = "draw" /\ UNCHANGED cursor
    /\ UNCHANGED <<screen_history, line_lengths, total_rows, view_top_row,
                   batch, vga, written, net_written, shell_written>>

\* ensure_history_room and clear_history_row, within the history's rows.
MainMakesRoom ==
    /\ main_pc = "make_room"
    /\ cursor_row \in HistoryRows
    /\ total_rows' = Larger(total_rows, cursor_row + 1)
    /\ screen_history' = [screen_history EXCEPT ![cursor_row] = BlankRow]
    /\ line_lengths' = [line_lengths EXCEPT ![cursor_row] = 0]
    /\ line_wrapped' = [line_wrapped EXCEPT ![cursor_row] = FALSE]
    /\ main_pc' = "draw"
    /\ UNCHANGED <<cursor, view_top_row, batch, vga, written, net_written, shell_written>>

MainDraws ==
    /\ main_pc = "draw"
    /\ main_pc' = "elsewhere"
    /\ UNCHANGED <<history, cursor, total_rows, written, net_written, shell_written>>
    /\ sync_view_to_bottom
    /\ request_render

\* The interrupt: the shell echoes or prints a character.
ShellWrites ==
    /\ shell_written < MAX_SHELL
    /\ shell_written' = shell_written + 1
    /\ cursor_row \in HistoryRows /\ cursor_col \in Cols
    /\ put_glyph(ShellGlyph) \/ put_last_glyph(ShellGlyph)
    /\ UNCHANGED <<main_pc, net_written>>

ContextsNext ==
    \/ MainStores \/ MainCounts \/ MainWraps \/ MainMakesRoom \/ MainDraws
    \/ ShellWrites

ContextsSpec == ContextsInit /\ [][ContextsNext]_<<vars, contexts>>

(* "The history is longer than the screen: Page Up/Down without losing     *)
(* shell output" (terminal.c line 8): while the history has room, every    *)
(* character the shell wrote is in it.                                     *)
ShellOutputKept ==
    Cardinality({p \in HistoryRows \X Cols : screen_history[p[1]][p[2]] = ShellGlyph})
        = shell_written
=============================================================================
