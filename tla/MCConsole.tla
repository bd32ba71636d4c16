----------------------------- MODULE MCConsole -----------------------------
(***************************************************************************)
(* A screen of three columns with a prompt of one, an input buffer of two  *)
(* bytes and messages of two characters: a line overruns the buffer and    *)
(* the row, a message crosses the right edge, and Backspace reaches the    *)
(* prompt and the left edge.                                               *)
(***************************************************************************)
EXTENDS Console, TLC

CONSTANTS m
TwoCharacters == <<m, m>>

\* Nothing tells one key on the line from another.
KeySymmetry == Permutations(Keys)
=============================================================================
