------------------------------- MODULE Keyboard -------------------------------
(***************************************************************************)
(* The keyboard driver, kernel/input/keyboard_driver.c: from the bytes of  *)
(* the keyboard controller to events.                                      *)
(*                                                                         *)
(* A byte is the prefix 0xE0 or [key, up, press]: the code of a key, the   *)
(* bit that tells a release, and, which the driver cannot see, the press   *)
(* of the key it belongs to.  The code of an extended key without its      *)
(* prefix is the code of a key of the number pad, which has no character.  *)
(***************************************************************************)
EXTENDS Integers, Sequences

CONSTANTS
    Keys,               \* the keys of the keyboard
    Extended            \* those whose codes follow a prefix

ASSUME KeysAssumption ==
    Extended \subseteq Keys \ {"esc"} /\ "prefix" \notin Keys /\ "nothing" \notin Keys

Prefix == [key |-> "prefix", up |-> FALSE, press |-> 0]
Byte(key, up, press) == [key |-> key, up |-> up, press |-> press]

\* The bytes a key sends.
Codes(key, up, press) ==
    IF key \in Extended THEN <<Prefix, Byte(key, up, press)>> ELSE <<Byte(key, up, press)>>

\* The driver's tables; extended_prefix is set between two interrupts.
Tables == [down : SUBSET Keys, extended_down : SUBSET Keys, shift : BOOLEAN, extended_prefix : BOOLEAN]
keyboard_driver_reset_state ==
    [down |-> {}, extended_down |-> {}, shift |-> FALSE, extended_prefix |-> FALSE]

\* scancode_map and scancode_shift_map, and what is in them.
KeyCharacters == {"1", "!", "nl", "bs", "tab", "escape", "none"}
Character(key, shifted) ==
    CASE key = "one" -> IF shifted THEN "!" ELSE "1"
      [] key = "enter" -> "nl"
      [] key = "back" -> "bs"
      [] key = "tab" -> "tab"
      [] key = "esc" -> "escape"
      [] OTHER -> "none"

-----------------------------------------------------------------------------

NoEvent == [key |-> "nothing", character |-> "none", extended |-> FALSE]
Event(key, character, extended) == [key |-> key, character |-> character, extended |-> extended]

Returns(tables, event) == [tables |-> tables, event |-> event]

\* keyboard_driver_translate_scancode, one operator for each kind of code.
ExtendedCode(tables, byte) ==
    IF byte.up
    THEN Returns([tables EXCEPT !.extended_down = @ \ {byte.key}], NoEvent)
    ELSE IF byte.key \in tables.extended_down THEN Returns(tables, NoEvent)
    ELSE Returns([tables EXCEPT !.extended_down = @ \cup {byte.key}],
                 Event(byte.key, "none", TRUE))

ShiftCode(tables, byte) ==
    IF byte.up
    THEN Returns([tables EXCEPT !.down = @ \ {byte.key}, !.shift = FALSE], NoEvent)
    ELSE Returns([tables EXCEPT !.down = @ \cup {byte.key}, !.shift = TRUE],
                 Event(byte.key, "none", FALSE))

\* A key that is down is repeating.
\* Slips: repeats taken for presses; a release that leaves the key down.
PlainCode_repeating(tables, byte) ==
    IF byte.up THEN Returns([tables EXCEPT !.down = @ \ {byte.key}], NoEvent)
    ELSE Returns([tables EXCEPT !.down = @ \cup {byte.key}],
                 Event(byte.key, Character(byte.key, tables.shift), FALSE))
PlainCode_sticking(tables, byte) ==
    IF byte.up \/ byte.key \in tables.down THEN Returns(tables, NoEvent)
    ELSE Returns([tables EXCEPT !.down = @ \cup {byte.key}],
                 Event(byte.key, Character(byte.key, tables.shift), FALSE))
PlainCode(tables, byte) ==
    IF byte.up THEN Returns([tables EXCEPT !.down = @ \ {byte.key}], NoEvent)
    ELSE IF byte.key \in tables.down THEN Returns(tables, NoEvent)
    ELSE Returns([tables EXCEPT !.down = @ \cup {byte.key}],
                 Event(byte.key, Character(byte.key, tables.shift), FALSE))

keyboard_driver_translate_scancode(tables, extended, byte) ==
    IF extended THEN ExtendedCode(tables, byte)
    ELSE IF byte.key = "shift" THEN ShiftCode(tables, byte)
    ELSE PlainCode(tables, byte)
=============================================================================
