-------------------------- MODULE MCTerminalContexts --------------------------
(* TerminalContexts with a small screen: see README.md for the bounds.     *)
EXTENDS TerminalContexts

CONSTANTS x, y

MCTwoGlyphs == {x, y}
=============================================================================
