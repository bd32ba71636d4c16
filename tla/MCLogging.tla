----------------------------- MODULE MCLogging -----------------------------
(***************************************************************************)
(* kernel_main and one more task log messages with every conversion, with  *)
(* and without a width, at the edges of the number of digits, through a    *)
(* transmitter of two characters.                                          *)
(***************************************************************************)
EXTENDS Logging

\* multiboot_parse's own division agrees with the arithmetic, and its numbers
\* with what they stand for.
ASSUME UdivmodIsDivision ==
  /\ \A n \in 0 .. 300 \cup {65535, 65536, 1073741823}, base \in 1 .. 17 :
       udivmod64(n, base) = <<n \div base, n % base>>
  /\ uint64_to_str(0, 16) = <<"0">>
  /\ uint64_to_str(1048320, 16) = <<"f", "f", "f", "0", "0">>

OneTag == <<"main">>

Says(format, args, text) == [format |-> format, args |-> args, text |-> text]

Logged ==
  { Says(<<"t", "\n">>, <<>>, <<"t", "\n">>),
    Says(<<"%", "d">>, <<0>>, <<"0">>),
    Says(<<"%", "d", "%", "d">>, <<9, 10>>, <<"9", "1", "0">>),
    Says(<<"%", "1", "0", "d">>, <<2147483647>>,
         <<"2", "1", "4", "7", "4", "8", "3", "6", "4", "7">>),
    Says(<<"%", "3", "d", "K", "B">>, <<42>>, <<"0", "4", "2", "K", "B">>),
    Says(<<"0x", "%", "x">>, <<48879>>,
         <<"0x", "0", "0", "0", "0", "b", "e", "e", "f">>),
    Says(<<"%", "s", "%", "4", "s">>, << <<>>, <<"a", "b">> >>, <<"0", "0", "a", "b">>),
    Says(<<"%", "c", "%", "2", "c", "u", "%", "!">>, <<"y", "z">>,
         <<"y", "0", "z", "u">>) }

\* What the proofs suppose of the messages.
ASSUME FormatsStand
=============================================================================
