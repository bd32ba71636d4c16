---------------------------- MODULE MCInterrupts ----------------------------
\* Constants for checking Interrupts with TLC: the timer, the keyboard and
\* two lines of the second chip; exceptions with and without an error code.
EXTENDS Interrupts

DevicesSmall == {0, 1, 8, 12}
ExceptionsSmall == {6, 14}
TaskStateSmall == <<64, 178, 16, 192>>
=============================================================================
