------------------------------- MODULE Console -------------------------------
(***************************************************************************)
(* The keyboard and what reads it: kernel/input/, kernel/shell/, and the   *)
(* programs that the shell runs, the editor among them.                    *)
(*                                                                         *)
(* The keyboard interrupt reads one byte and hands the event to the shell's*)
(* line.  Enter runs the command inside the interrupt, with interrupts off.*)
(* The editor, Lelya's read and `lelya` poll the controller themselves, so *)
(* every byte they take has also raised an interrupt.  The controller of   *)
(* interrupts remembers one of them until the command is over, when the    *)
(* handler reads the data port again, be there a new byte or not.          *)
(*                                                                         *)
(* The user and the keyboard controller are external: keys go down, repeat *)
(* and come up, and their bytes queue up in front of the data port, which  *)
(* shows the last byte read as long as there is no other.  Presses are     *)
(* numbered, and each byte carries the number of its press.  What is       *)
(* written to the terminal is left out but for the editor's picture.       *)
(***************************************************************************)
EXTENDS Keyboard, Editor, FiniteSets

CONSTANTS
    LINE_SIZE,          \* SHELL_INPUT_BUFFER_SIZE
    NUMBER_SIZE,        \* the buffer of input_read_int
    Files, Absent,      \* texts of the edited file to start from, and no file
    Lines,              \* what the shell's line may hold to start from
    MAX_PRESSES,        \* bound: presses of keys
    MAX_HELD,           \* bound: keys held at a time
    MAX_QUEUE           \* bound: bytes queued in front of the data port

ASSUME ConsoleAssumption == LINE_SIZE \in Nat \ {0} /\ NUMBER_SIZE \in Nat \ {0} /\ MAX_PRESSES \in Nat

\* fs_read_to_buffer fills the buffer but for a NUL, with what was saved up to one.
ASSUME TextsAssumption ==
    /\ \A text \in Files \ {Absent} : text \in Seq(Characters) /\ Len(text) < EDITOR_BUFFER_SIZE
    /\ \A text \in Lines : text \in Seq(KeyCharacters) /\ Len(text) < LINE_SIZE

VARIABLES
    held,               \* the keys the user holds: key -> number of the press
    presses,            \* how many there were
    fifo,               \* bytes in front of the data port
    last_byte,          \* what it shows when there are none
    irq,                \* an interrupt is waiting
    tables,             \* the driver's
    running,            \* the program that polls: "shell" when none
    line,               \* shell_input_buffer
    number,             \* the digits input_read_int has
    local_down,         \* the table of `lelya`
    ed,                 \* the editor
    file,               \* the file it edits
    acted,              \* history: presses some program acted on
    twice,              \* those acted on again
    lost,               \* those taken for repeats before anything acted on them
    forgotten,          \* presses read before the driver's table was cleared, or past it
    swallowed           \* keys whose release went past the driver, until the next

keyboard == <<held, presses>>
controller == <<fifo, last_byte, irq>>
history == <<acted, twice, lost, forgotten, swallowed>>
shell == <<running, line>>
editing == <<ed, file>>
vars == <<keyboard, controller, tables, shell, number, local_down, editing, history>>

NotHeld == 0
Held == {k \in Keys : held[k] # NotHeld}
NoEditor == editor_file_load(<<>>, FALSE)

Init ==
    /\ held = [k \in Keys |-> NotHeld] /\ presses = 0
    /\ fifo = <<>> /\ last_byte = Byte("one", TRUE, 0) /\ irq = FALSE
    /\ tables = keyboard_driver_reset_state
    /\ running = "shell" /\ line \in Lines
    /\ number = <<>> /\ local_down = {}
    /\ ed = NoEditor /\ file \in Files
    /\ acted = {} /\ twice = {} /\ lost = {} /\ forgotten = {} /\ swallowed = {}

-----------------------------------------------------------------------------
(* The user and the keyboard controller (external) *)

\* A byte that comes to the front raises the interrupt.
Queue(bytes) ==
    /\ Len(fifo) + Len(bytes) <= MAX_QUEUE
    /\ fifo' = fifo \o bytes
    /\ irq' = (irq \/ fifo = <<>>)
    /\ UNCHANGED <<last_byte, tables, shell, number, local_down, editing, history>>

\* `lelya` is for plain keys: it uses the code of an extended key as an index.
Press(key) ==
    /\ presses < MAX_PRESSES /\ key \notin Held /\ Cardinality(Held) < MAX_HELD
    /\ running = "lelya" => key \notin Extended
    /\ presses' = presses + 1
    /\ held' = [held EXCEPT ![key] = presses + 1]
    /\ Queue(Codes(key, FALSE, presses + 1))

Repeat(key) ==
    /\ key \in Held
    /\ running = "lelya" => key \notin Extended
    /\ Queue(Codes(key, FALSE, held[key]))
    /\ UNCHANGED keyboard

Release(key) ==
    /\ key \in Held
    /\ held' = [held EXCEPT ![key] = NotHeld]
    /\ Queue(Codes(key, TRUE, held[key]))
    /\ UNCHANGED presses

\* Reading takes n bytes; the one behind them comes to the front.
Reads(n) ==
    /\ fifo' = SubSeq(fifo, n + 1, Len(fifo))
    /\ last_byte' = IF n = 0 THEN last_byte ELSE fifo[n]

-----------------------------------------------------------------------------
(* What becomes of a press *)

\* The driver made result of a byte.  A shift that repeats is an event each time,
\* which changes nothing.
Answers(byte, result) ==
    IF result.event # NoEvent
    THEN /\ acted' = acted \cup {byte.press}
         /\ twice' = IF byte.key = "shift" THEN twice ELSE twice \cup ({byte.press} \cap acted)
         /\ UNCHANGED <<lost, forgotten, swallowed>>
    ELSE /\ LET unanswered == IF byte.up THEN {} ELSE {byte.press} \ acted
            IN  IF byte.key \in swallowed
                THEN forgotten' = forgotten \cup unanswered /\ UNCHANGED lost
                ELSE lost' = lost \cup unanswered /\ UNCHANGED forgotten
         /\ swallowed' = IF byte.up THEN swallowed \ {byte.key} ELSE swallowed
         /\ UNCHANGED <<acted, twice>>

\* An event after which the driver's table is cleared.
AnswersAndForgets(byte) ==
    /\ acted' = acted \cup {byte.press}
    /\ twice' = twice \cup ({byte.press} \cap acted)
    /\ forgotten' = forgotten \cup acted'
    /\ swallowed' = {}
    /\ tables' = keyboard_driver_reset_state
    /\ UNCHANGED lost

-----------------------------------------------------------------------------
(* The shell's line, in the keyboard interrupt *)

\* Enter: a command of which nothing polls the keyboard, and the ones that do.
\* A line that is empty or holds an escape is not one of those.
Spells == line # <<>> /\ "escape" \notin {line[i] : i \in DOMAIN line}

RunCommand(byte, result) ==
    /\ tables' = result.tables
    /\ Answers(byte, result)
    /\ line' = <<>>
    /\ UNCHANGED <<running, number, local_down, editing>>

RunEditor(byte) ==
    /\ Spells
    /\ AnswersAndForgets(byte)
    /\ running' = "edit"
    /\ \E readable \in IF file = Absent THEN {FALSE} ELSE BOOLEAN :
          ed' = editor_file_load(file, readable)
    /\ UNCHANGED <<line, number, local_down, file>>

RunReader(byte) ==
    /\ Spells
    /\ AnswersAndForgets(byte)
    /\ running' = "read"
    /\ number' = <<>>
    /\ UNCHANGED <<line, local_down, editing>>

\* Bound: no extended key is in the queue.
RunLelya(byte, result) ==
    /\ Spells /\ Prefix \notin {fifo[i] : i \in DOMAIN fifo}
    /\ tables' = result.tables
    /\ Answers(byte, result)
    /\ running' = "lelya"
    /\ local_down' = {}
    /\ UNCHANGED <<line, number, editing>>

\* Slip: no room left for the NUL.
Typed_full(character) ==
    CASE character = "bs" -> IF line = <<>> THEN line ELSE SubSeq(line, 1, Len(line) - 1)
      [] character = "none" -> line
      [] OTHER -> IF Len(line) < LINE_SIZE THEN Append(line, character) ELSE line
Typed(character) ==
    CASE character = "bs" -> IF line = <<>> THEN line ELSE SubSeq(line, 1, Len(line) - 1)
      [] character = "none" -> line
      [] OTHER -> IF Len(line) < LINE_SIZE - 1 THEN Append(line, character) ELSE line

\* Extended keys scroll the terminal or are ignored.
shell_input_handle_event(byte, result) ==
    \/ /\ result.event.character # "nl"
       /\ tables' = result.tables
       /\ Answers(byte, result)
       /\ line' = Typed(result.event.character)
       /\ UNCHANGED <<running, number, local_down, editing>>
    \/ /\ result.event.character = "nl"
       /\ \/ RunCommand(byte, result)
          \/ RunEditor(byte)
          \/ RunReader(byte)
          \/ RunLelya(byte, result)

\* The data port shows the last byte again when there is no other.
KeyboardInterrupt ==
    /\ running = "shell" /\ irq
    /\ irq' = (Len(fifo) > 1)
    /\ IF fifo = <<>> THEN UNCHANGED <<fifo, last_byte>> ELSE Reads(1)
    /\ LET byte == last_byte'
       IN  \/ /\ byte = Prefix
              /\ tables' = [tables EXCEPT !.extended_prefix = TRUE]
              /\ UNCHANGED <<shell, number, local_down, editing, history>>
           \/ /\ byte # Prefix
              /\ shell_input_handle_event(byte,
                     keyboard_driver_translate_scancode([tables EXCEPT !.extended_prefix = FALSE],
                                                        tables.extended_prefix, byte))
    /\ UNCHANGED keyboard

-----------------------------------------------------------------------------
(* Polling: keyboard_driver_read_scancode waits for the byte after a prefix *)

PolledExtended == Head(fifo) = Prefix
PolledByte == IF PolledExtended THEN fifo[2] ELSE fifo[1]
Polled == keyboard_driver_translate_scancode(tables, PolledExtended, PolledByte)

Polls(program) ==
    /\ running = program /\ fifo # <<>>
    /\ Reads(IF PolledExtended THEN 2 ELSE 1)
    /\ UNCHANGED <<keyboard, irq>>

\* Slip: what follows a prefix is thrown away.
Translates_skipping ==
    IF PolledExtended THEN UNCHANGED <<tables, history>>
    ELSE tables' = Polled.tables /\ Answers(PolledByte, Polled)
Translates ==
    /\ tables' = Polled.tables
    /\ Answers(PolledByte, Polled)

ProgramEnds == running' = "shell" /\ line' = <<>>

IsKey(key) == Polled.event.key = key /\ ~Polled.event.extended

EditorKey ==
    /\ Polls("edit") /\ ~IsKey("f2") /\ ~IsKey("esc")
    /\ Translates
    /\ ed' = IF Polled.event = NoEvent THEN ed ELSE editor_input_handle_event(ed, Polled.event)
    /\ UNCHANGED <<shell, number, local_down, file>>

\* fs_write fails for a file that was never created.
EditorSaves ==
    /\ Polls("edit") /\ IsKey("f2")
    /\ Translates
    /\ \/ file # Absent /\ file' = CString(ed.buffer) /\ ed' = [ed EXCEPT !.status = "File saved"]
       \/ file = Absent /\ UNCHANGED file /\ ed' = [ed EXCEPT !.status = "Save failed"]
    /\ UNCHANGED <<shell, number, local_down>>

EditorExits ==
    /\ Polls("edit") /\ IsKey("esc")
    /\ AnswersAndForgets(PolledByte)
    /\ ed' = NoEditor
    /\ ProgramEnds
    /\ UNCHANGED <<number, local_down, file>>

\* Digits only; the sign is left out.
Digits(event) ==
    IF event.character = "bs" /\ number # <<>> THEN SubSeq(number, 1, Len(number) - 1)
    ELSE IF event.character = "1" /\ Len(number) < NUMBER_SIZE - 1 THEN Append(number, "1")
    ELSE number

ReadKey ==
    /\ Polls("read") /\ ~IsKey("enter")
    /\ Translates
    /\ number' = Digits(Polled.event)
    /\ UNCHANGED <<shell, local_down, editing>>

\* The program reads another number or comes to its end.
ReadEnds ==
    /\ Polls("read") /\ IsKey("enter")
    /\ AnswersAndForgets(PolledByte)
    /\ number' = <<>>
    /\ ProgramEnds \/ UNCHANGED shell
    /\ UNCHANGED <<local_down, editing>>

\* shell_dump_scancodes keeps a table of its own; the driver sees none of this.
LelyaKeyUp ==
    /\ Polls("lelya") /\ PolledByte.up
    /\ local_down' = local_down \ {PolledByte.key}
    /\ swallowed' = swallowed \cup ({PolledByte.key} \cap (tables.down \cup tables.extended_down))
    /\ UNCHANGED <<tables, shell, number, editing, acted, twice, lost, forgotten>>

LelyaKeyDown ==
    /\ Polls("lelya") /\ ~PolledByte.up
    /\ local_down' = local_down \cup {PolledByte.key}
    /\ acted' = acted \cup {PolledByte.press}
    /\ forgotten' = forgotten \cup {PolledByte.press}
    /\ IF PolledByte.key = "esc" /\ PolledByte.key \notin local_down
       THEN ProgramEnds ELSE UNCHANGED shell
    /\ UNCHANGED <<tables, number, editing, twice, lost, swallowed>>

-----------------------------------------------------------------------------

User == \E key \in Keys : Press(key) \/ Repeat(key) \/ Release(key)
Computer == \/ KeyboardInterrupt
            \/ EditorKey \/ EditorSaves \/ EditorExits
            \/ ReadKey \/ ReadEnds
            \/ LelyaKeyUp \/ LelyaKeyDown

Next == User \/ Computer

\* The processor takes an interrupt that is waiting and a polling loop goes round.
FairSpec == Init /\ [][Next]_vars /\ WF_vars(Computer)

-----------------------------------------------------------------------------
(* Properties *)

\* The line and the number stay inside their buffers, the editor's text and
\* cursor inside its buffer, and every variable keeps its type (shell_input.c
\* line 38, input.c line 77, editor_buffer.c lines 4 and 19).
TypeOK ==
    /\ held \in [Keys -> 0 .. MAX_PRESSES] /\ presses \in 0 .. MAX_PRESSES
    /\ irq \in BOOLEAN /\ tables \in Tables
    /\ running \in {"shell", "edit", "read", "lelya"}
    /\ Len(line) < LINE_SIZE /\ Len(number) < NUMBER_SIZE
    /\ local_down \subseteq Keys /\ swallowed \subseteq Keys
    /\ ed.buffer \in [Cells -> Characters \cup {NUL}]
    /\ ed.len \in 0 .. EDITOR_BUFFER_SIZE - 1 /\ ed.cursor \in 0 .. ed.len
    /\ file = Absent \/ Len(file) < EDITOR_BUFFER_SIZE
    /\ acted \cup twice \cup lost \cup forgotten \subseteq 0 .. MAX_PRESSES

\* A press is acted on once however long the key repeats, by whichever program
\* reads it, unless the driver's table was cleared meanwhile or `lelya` read past
\* it (keyboard_driver.c lines 36-44 and 118-126).
ActedOnce == twice \subseteq forgotten

\* No press is taken for a repeat, unless `lelya` read the release before it
\* (keyboard_driver.c lines 91 and 119, shell_commands.c lines 58-79).
NoPressLost == lost = {}

\* Every press is answered in the end, with programs started and left in the
\* middle of it and an interrupt for each byte or for none.
EveryPressAnswered == []<>(1 .. presses \subseteq acted \cup forgotten \cup lost)

\* The buffer ends where the text does, so that saving, which looks for the
\* first NUL, saves the text (editor_buffer.c lines 8-10 and 23-25,
\* editor_file.c line 17).
TextEndsAtNul == CString(ed.buffer) = Text(ed)

\* As long as the editor says "File saved", the file is the text on the screen
\* (editor_input.c lines 16-23 and every line that sets the message anew).
SavedIsShown == ed.status = "File saved" => file = Text(ed)

\* The cursor is drawn on the character it stands in front of, as long as the
\* text did not move the terminal's rows up (editor_render.c lines 22-27 against
\* terminal.c lines 276-316).
CursorOnItsCharacter ==
    Drawn(ed, ed.len).moved = 0 =>
        LET drawn == Drawn(ed, ed.cursor)
        IN  editor_render(ed) = Place(drawn.row, drawn.col)

\* Up and down go one row, to the same column or to the end of a shorter row, and
\* down takes back an up that kept its column (editor_cursor.c lines 28-78).
RowOf(e) == editor_cursor_get_visual_position(e, e.cursor).row
ColOf(e) == editor_cursor_get_visual_position(e, e.cursor).col
VerticalMoves ==
    LET up == editor_cursor_move(ed, "up")
        down == editor_cursor_move(ed, "down")
        EndsItsRow(e) == e.cursor = ed.len \/ RowOf([e EXCEPT !.cursor = @ + 1]) > RowOf(e)
    IN  /\ IF RowOf(ed) > EDITOR_TEXT_START_ROW
           THEN RowOf(up) = RowOf(ed) - 1 /\ (ColOf(up) = ColOf(ed) \/ (ColOf(up) < ColOf(ed) /\ EndsItsRow(up)))
           ELSE up = ed
        /\ IF RowOf(ed) < RowOf([ed EXCEPT !.cursor = ed.len])
           THEN RowOf(down) = RowOf(ed) + 1 /\ (ColOf(down) = ColOf(ed) \/ (ColOf(down) < ColOf(ed) /\ EndsItsRow(down)))
           ELSE down = ed
        /\ ColOf(up) = ColOf(ed) /\ up # ed => editor_cursor_move(up, "down") = ed
=============================================================================
