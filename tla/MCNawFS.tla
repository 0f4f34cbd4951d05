------------------------------ MODULE MCNawFS ------------------------------
(* NawFS on a small disk: see README.md for the bounds.                    *)
EXTENDS NawFS, TLC

CONSTANTS a, b, c, t, u

MCTwoNames == {a, b}
MCThreeNames == {a, b, c}
MCIds == {t, u}
MCHelloText == Text(t, 1)

\* Two texts that differ in identity and length: a write that is cut short can be
\* told from the text before it, and can be longer or shorter than it.
MCTexts == {Text(t, 1), Text(u, 2)}
MCOneText == {Text(t, 1)}

\* a is the name of the file in a built image.
MCSymmetry == Permutations({b, c})
=============================================================================
