------------------------------ MODULE Strings ------------------------------
(***************************************************************************)
(* string.c: what sprintf makes of a format and its arguments, and the     *)
(* numbers multiboot.c prints.                                             *)
(*                                                                         *)
(* A string is a sequence of characters, a character a TLA+ string.  Text  *)
(* that no scan looks into may stand as one character.  A format ends its  *)
(* conversions: behind a lone '%' at the end the C code reads past the     *)
(* terminator, which is not modelled.                                      *)
(***************************************************************************)
EXTENDS Integers, Sequences, SequencesExt

Digits == <<"0", "1", "2", "3", "4", "5", "6", "7", "8", "9", "a", "b", "c", "d", "e", "f">>
Decimal == {Digits[i] : i \in 1 .. 10}
DigitOf(c) == CHOOSE n \in 0 .. 9 : c = Digits[n + 1]

\* The lowest n digits of num in a base, the highest first.
Numeral(num, base, n) == [i \in 1 .. n |-> Digits[((num \div base ^ (n - i)) % base) + 1]]

\* Ten digits hold any 32-bit number.
int_to_str(num) ==
  LET n == CHOOSE n \in 1 .. 10 : /\ n = 10 \/ num < 10 ^ n
                                  /\ n = 1 \/ num >= 10 ^ (n - 1)
  IN  Numeral(num, 10, n)

int_to_hex_str(num) == Numeral(num, 16, 8)

\* multiboot.c has its own division, bit by bit; 30 of the 64 bits are kept.
Bits == 30

udivmod64(dividend, divisor) ==
  LET Step(qr, i) == LET r == 2 * qr[2] + ((dividend \div 2^i) % 2)
                     IN  IF r >= divisor THEN <<qr[1] + 2^i, r - divisor>> ELSE <<qr[1], r>>
  IN  FoldLeft(Step, <<0, 0>>, [k \in 1 .. Bits |-> Bits - k])

uint64_to_str(value, base) ==
  LET text[v \in 0 .. value] ==
        LET qr == udivmod64(v, base)
        IN  (IF qr[1] = 0 THEN <<>> ELSE text[qr[1]]) \o <<Digits[qr[2] + 1]>>
  IN  text[value]

\* fill_buffer in front of an argument.
Padded(width, text) ==
  IF width > Len(text) THEN [i \in 1 .. width - Len(text) |-> "0"] \o text ELSE text

Conversions == {"s", "d", "x", "c"}

Converted(c, arg) ==
  CASE c = "s" -> arg
    [] c = "d" -> int_to_str(arg)
    [] c = "x" -> int_to_hex_str(arg)
    [] c = "c" -> <<arg>>

\* sprintf's text from a place on: the next character of the format, the
\* arguments used, and the padding read so far if it is within a conversion.
\* An unknown conversion prints nothing and takes no argument.
Outside == -1

Places(format) == (1 .. Len(format) + 1) \X Nat \X (Nat \cup {Outside})

sprintf(format, args) ==
  LET text[at \in Places(format)] ==
        LET i == at[1]  used == at[2]  padding == at[3]
            inside == padding # Outside
            c == format[i]
        IN  IF i > Len(format) THEN <<>>
            ELSE CASE ~inside /\ c = "%" -> text[<<i + 1, used, 0>>]
                   [] ~inside /\ c # "%" -> <<c>> \o text[<<i + 1, used, Outside>>]
                   [] inside /\ c \in Decimal ->
                        text[<<i + 1, used, 10 * padding + DigitOf(c)>>]
                   [] inside /\ c \in Conversions ->
                        Padded(padding, Converted(c, args[used + 1]))
                          \o text[<<i + 1, used + 1, Outside>>]
                   [] inside /\ c \notin Decimal \cup Conversions ->
                        text[<<i + 1, used, Outside>>]
  IN  text[<<1, 0, Outside>>]
=============================================================================
