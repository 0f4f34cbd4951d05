------------------------------ MODULE MCConsole ------------------------------
(* Console with an editor of four characters on a screen of two columns.  *)
EXTENDS Console

MCKeys == {"one", "enter", "back", "tab", "esc", "f2", "shift", "up", "left"}
MCExtended == {"up", "left"}
MCFiles == {Absent, <<"1", "nl", "1">>, <<"1", "1", "1", "nl">>}
MCLines == {<<>>, <<"1">>}
=============================================================================
