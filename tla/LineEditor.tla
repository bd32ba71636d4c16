----------------------------- MODULE LineEditor -----------------------------
(***************************************************************************)
(* What the shell promises of its input line: keys extend it at the end,   *)
(* Backspace takes the last one back, Enter hands it to a command and      *)
(* starts an empty one.  A command may give the CPU away; then the line is *)
(* emptied when the command returns, with the keys typed meanwhile.        *)
(***************************************************************************)
EXTENDS Naturals, Sequences

CONSTANTS Keys

VARIABLES
  line,      \* the keys typed
  command,   \* the line the last key handed to a command; <<>> after others
  away       \* commands that gave the CPU away and did not return yet

vars == <<line, command, away>>

Init == line = <<>> /\ command = <<>> /\ away = 0

Type(k) == line' = Append(line, k) /\ command' = <<>> /\ UNCHANGED away

Erase == line' = SubSeq(line, 1, Len(line) - 1) /\ command' = <<>> /\ UNCHANGED away

Submit == command' = line /\ line' = <<>> /\ UNCHANGED away

Depart == command' = line /\ away' = away + 1 /\ UNCHANGED line

Return == away > 0 /\ away' = away - 1 /\ line' = <<>> /\ UNCHANGED command

Next == Erase \/ Submit \/ Depart \/ Return \/ \E k \in Keys : Type(k)

Spec == Init /\ [][Next]_vars
=============================================================================
