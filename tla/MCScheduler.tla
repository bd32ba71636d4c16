---------------------------- MODULE MCScheduler ----------------------------
(***************************************************************************)
(* Scheduler for TLC.  The table has four entries: the idle task, the      *)
(* shell, and two that apple and banana can fill, one of which testkill    *)
(* can kill.                                                               *)
(***************************************************************************)
EXTENDS Scheduler, TLC

CONSTANTS s1, s2, s3

OneStackPerTask == {s1, s2, s3}
OneStackTooFew  == {s1, s2}
NullTask        == 99
TestKill        == {2}
QuietTail       == {"PAUSED"}
AnyTail         == {"PAUSED", "WAITING"}

StackSymmetry == Permutations(OneStackPerTask)
=============================================================================
