------------------------------ MODULE MCTerminal ------------------------------
(* Terminal with a small screen: see README.md for the bounds.             *)
EXTENDS Terminal

CONSTANT x

MCGlyphs == {x}
=============================================================================
