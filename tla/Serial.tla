------------------------------- MODULE Serial -------------------------------
(***************************************************************************)
(* serial.c: a 16550 UART and the calls the kernel makes of it.            *)
(*                                                                         *)
(* A port is a record.  Its transmitter holds up to FifoSize characters    *)
(* and reports itself ready when it holds none; in loopback mode they come *)
(* back to the receiver and never reach the line.                          *)
(***************************************************************************)
EXTENDS Naturals, Sequences

CONSTANTS FifoSize  \* characters the transmitter holds: 16

ASSUME SerialAssumption == FifoSize \in Nat \ {0}

\* Register offsets, and the bits of them that the driver sets.
UART_TX == 0
UART_DLM == 1
UART_IER == 1
UART_FCR == 2
UART_LCR == 3
UART_MCR == 4

UART_LCR_DLAB == 128
UART_MCR_LOOPBACK_MODE == 16

\* The byte of the loopback test.
TestByte == "0xAE"

\* The receiver holds nothing.
NoByte == ""

\* After reset; firmware may have left the divisor latch open.
Reset(dlab) ==
  [dlab |-> dlab, divisor |-> <<12, 0>>, format |-> 0, loop |-> FALSE, tx |-> <<>>, rx |-> NoByte]

\* io_port_out(port + reg, value)
Out(u, reg, value) ==
  CASE reg = UART_TX /\ u.dlab -> [u EXCEPT !.divisor[1] = value]
    [] reg = UART_DLM /\ u.dlab -> [u EXCEPT !.divisor[2] = value]
    [] reg = UART_TX /\ ~u.dlab ->
         IF Len(u.tx) < FifoSize THEN [u EXCEPT !.tx = Append(@, value)] ELSE u
    [] reg = UART_IER /\ ~u.dlab -> u
    [] reg = UART_FCR -> [u EXCEPT !.tx = <<>>, !.rx = NoByte]
    [] reg = UART_LCR ->
         [u EXCEPT !.dlab = value >= UART_LCR_DLAB, !.format = value % UART_LCR_DLAB]
    [] reg = UART_MCR -> [u EXCEPT !.loop = (value \div UART_MCR_LOOPBACK_MODE) % 2 = 1]

\* The transmitter is done with its oldest character.
Shifted(u) ==
  [u EXCEPT !.tx = Tail(@), !.rx = IF u.loop THEN Head(u.tx) ELSE @]

\* What a terminal at 38400 baud, 8 bits, no parity, one stop bit makes of it.
Seen(u) == IF u.divisor = <<3, 0>> /\ u.format = 3 THEN Head(u.tx) ELSE "garbled"

\* serial_init_port up to the read of the test byte.
serial_init_port ==
  << <<UART_IER, 0>>,
     <<UART_LCR, UART_LCR_DLAB>>,
     <<UART_TX, 3>>, <<UART_DLM, 0>>,  \* 38400 baud
     <<UART_LCR, 3>>,                  \* 8 bits, 1 stop bit, no parity
     <<UART_FCR, 199>>,                \* FIFO on and cleared
     <<UART_MCR, 11>>,
     <<UART_MCR, 14 + UART_MCR_LOOPBACK_MODE>>,
     <<UART_TX, TestByte>> >>

\* The read decides whether the port leaves loopback mode.
LoopbackTest(u) == IF u.rx # TestByte THEN u ELSE Out([u EXCEPT !.rx = NoByte], UART_MCR, 15)

\* Mutant: the transmitter is not waited for.
serial_is_transmit_empty_always(u) == TRUE

\* Mutant: the masked bit is compared with 1.
serial_is_transmit_empty_never(u) == (IF u.tx = <<>> THEN 32 ELSE 0) = 1

serial_is_transmit_empty(u) == (IF u.tx = <<>> THEN 32 ELSE 0) = 32
=============================================================================
