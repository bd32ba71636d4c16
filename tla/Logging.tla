------------------------------ MODULE Logging ------------------------------
(***************************************************************************)
(* printk: logging.c with string.c and serial.c, and the ports it uses.    *)
(*                                                                         *)
(* kernel_main logs a line before serial_init, which nothing sends, and    *)
(* programs the two ports; afterwards any task logs.  A task formats its   *)
(* message in buffers of its own, takes print_lock and shows the message   *)
(* on the screen or only on COM2, one character at a time, each when the   *)
(* transmitter is empty.  The transmitters empty at their own pace.        *)
(*                                                                         *)
(* The screen is one step here (module Console has its cells), interrupts  *)
(* that log are left out (module Scheduler has the lock they wait for).    *)
(***************************************************************************)
EXTENDS Strings, Serial

CONSTANTS
  Tasks,     \* who logs
  Main,      \* the task of kernel_main
  NoTask,    \* print_lock is free
  Tag,       \* LOG_TAG
  Messages,  \* records: a format, its arguments, and the text they stand for
  MaxCalls   \* bound on the calls of printk

ASSUME LoggingAssumption ==
  /\ Main \in Tasks /\ NoTask \notin Tasks
  /\ MaxCalls \in Nat
  /\ Tag \in Seq(STRING)
  /\ Messages # {} /\ \A m \in Messages : m.text \in Seq(STRING)
  \* _printk formats the message once more for the screen.
  /\ \A m \in Messages : "%" \notin ToSet(m.text)

LOG_TRACE == 0
LOG_DEBUG == 1
LOG_INFO == 2
Levels == {LOG_TRACE, LOG_DEBUG, LOG_INFO}

Ports == <<"COM1", "COM2">>

VARIABLES
  uart,                \* the ports
  serial_initialised,
  boot,                \* serial_init's place: the port and the step at it
  pc,                  \* where each task stands in _printk
  call,                \* its level and message
  line,                \* final_message from the character to send on
  vga_message,         \* the text for the screen
  print_lock,          \* its holder
  screen,              \* what the holder put on the screen
  calls,               \* calls of printk so far
  due                  \* history: per port, what the lines logged have yet to show

vars == <<uart, serial_initialised, boot, pc, call, line, vga_message, print_lock, screen,
          calls, due>>
serial == <<serial_initialised, boot>>
texts == <<call, line, vga_message>>

\* Nobody's call.
NoCall == [level |-> LOG_TRACE, message |-> CHOOSE m \in Messages : TRUE]

Init ==
  /\ uart \in [ToSet(Ports) -> {Reset(FALSE), Reset(TRUE)}]
  /\ serial_initialised = FALSE /\ boot = <<1, 1>>
  /\ pc = [t \in Tasks |-> "idle"]
  /\ call = [t \in Tasks |-> NoCall]
  /\ line = [t \in Tasks |-> <<>>]
  /\ vga_message = [t \in Tasks |-> <<>>]
  /\ print_lock = NoTask
  /\ screen = <<>>
  /\ calls = 0
  /\ due = [p \in ToSet(Ports) |-> <<>>]

\* What the messages are meant to say is what their formats stand for.
FormatsStand == \A m \in Messages : sprintf(m.format, m.args) = m.text

(***************************************************************************)
(* The ports.                                                              *)
(***************************************************************************)

\* A transmitter sends its oldest character.
Transmit(p) ==
  /\ uart[p].tx # <<>>
  /\ uart' = [uart EXCEPT ![p] = Shifted(@)]
  /\ due' = [due EXCEPT ![p] = IF ~uart[p].loop /\ @ # <<>> /\ Head(@) = Seen(uart[p])
                               THEN Tail(@) ELSE @]
  /\ UNCHANGED <<serial, pc, texts, print_lock, screen, calls>>

\* serial_init between the first two lines kernel_main logs.  It ignores
\* what serial_init_port answers.
serial_init ==
  /\ calls = 1 /\ pc[Main] = "idle" /\ ~serial_initialised
  /\ LET p == Ports[boot[1]]
         step == boot[2]
     IN  IF step <= Len(serial_init_port)
         THEN /\ uart' = [uart EXCEPT ![p] = Out(@, serial_init_port[step][1],
                                                    serial_init_port[step][2])]
              /\ boot' = <<boot[1], step + 1>>
              /\ UNCHANGED serial_initialised
         ELSE /\ uart' = [uart EXCEPT ![p] = LoopbackTest(@)]
              /\ boot' = <<boot[1] + 1, 1>>
              /\ serial_initialised' = (boot[1] = Len(Ports))
  /\ UNCHANGED <<pc, texts, print_lock, screen, calls, due>>

(***************************************************************************)
(* printk.                                                                 *)
(***************************************************************************)

\* "[0.000][%s] %s"; text between conversions stands as one character.
Stamp == "[0.000]["
Between == "] "
LineFormat == <<Stamp, "%", "s", Between, "%", "s">>

Go(t, to) == pc' = [pc EXCEPT ![t] = to]

\* printk and the formatting half of _printk.
printk(t, level, m) ==
  /\ pc[t] = "idle" /\ calls < MaxCalls
  /\ serial_initialised \/ (t = Main /\ calls = 0)
  /\ LET message == sprintf(m.format, m.args)
     IN  /\ line' = [line EXCEPT ![t] = sprintf(LineFormat, <<Tag, message>>)]
         /\ vga_message' = [vga_message EXCEPT ![t] = message]
  /\ call' = [call EXCEPT ![t] = [level |-> level, message |-> m]]
  /\ Go(t, "lock")
  /\ calls' = calls + 1
  /\ UNCHANGED <<uart, serial, print_lock, screen, due>>

PortOf(t) == IF call[t].level >= LOG_INFO THEN "COM1" ELSE "COM2"

\* Mutant: the old value of the flag is not looked at.
TestAndSetBlind == TRUE

\* atomic_flag_test_and_set found the flag clear.
TestAndSet == print_lock = NoTask

\* lock(&print_lock)
Lock(t) ==
  /\ pc[t] = "lock" /\ TestAndSet
  /\ print_lock' = t
  /\ Go(t, IF call[t].level >= LOG_INFO THEN "screen" ELSE "serial")
  /\ due' = IF ~serial_initialised THEN due
            ELSE [due EXCEPT ![PortOf(t)] = @ \o <<Stamp>> \o Tag \o <<Between>>
                                              \o call[t].message.text]
  /\ UNCHANGED <<uart, serial, texts, screen, calls>>

\* vga_printf takes the message for a format.
Screen(t) ==
  /\ pc[t] = "screen"
  /\ screen' = sprintf(vga_message[t], <<>>)
  /\ Go(t, "serial")
  /\ UNCHANGED <<uart, serial, texts, print_lock, calls, due>>

\* A turn of the loop; the wait for the transmitter is the guard.
serial_write_line(t) ==
  /\ pc[t] = "serial"
  /\ IF ~serial_initialised \/ line[t] = <<>>
     THEN Go(t, "unlock") /\ UNCHANGED <<uart, line>>
     ELSE /\ serial_is_transmit_empty(uart[PortOf(t)])
          /\ uart' = [uart EXCEPT ![PortOf(t)] = Out(@, UART_TX, Head(line[t]))]
          /\ line' = [line EXCEPT ![t] = Tail(@)]
          /\ UNCHANGED pc
  /\ UNCHANGED <<serial, call, vga_message, print_lock, screen, calls, due>>

\* unlock(&print_lock); the buffers are gone.
Unlock(t) ==
  /\ pc[t] = "unlock"
  /\ print_lock' = NoTask
  /\ Go(t, "idle")
  /\ call' = [call EXCEPT ![t] = NoCall]
  /\ line' = [line EXCEPT ![t] = <<>>]
  /\ vga_message' = [vga_message EXCEPT ![t] = <<>>]
  /\ screen' = <<>>
  /\ UNCHANGED <<uart, serial, calls, due>>

_printk(t) == Lock(t) \/ Screen(t) \/ serial_write_line(t) \/ Unlock(t)

Next ==
  \/ serial_init
  \/ \E p \in ToSet(Ports) : Transmit(p)
  \/ \E t \in Tasks :
       \/ \E level \in Levels, m \in Messages : printk(t, level, m)
       \/ _printk(t)

\* The UART never stops sending and a task in _printk keeps running.  The
\* calls are bounded, so that a task that spins on print_lock finds it free.
Fairness ==
  /\ \A p \in ToSet(Ports) : WF_vars(Transmit(p))
  /\ \A t \in Tasks : WF_vars(_printk(t))

Spec == Init /\ [][Next]_vars /\ Fairness

(***************************************************************************)
(* Properties.                                                             *)
(***************************************************************************)

\* Every variable has a value of its type; a transmitter never holds more
\* than one character of a line, because each waits for the one before it.
TypeOK ==
  /\ DOMAIN uart = ToSet(Ports) /\ \A p \in DOMAIN uart :
       /\ uart[p].dlab \in BOOLEAN /\ uart[p].loop \in BOOLEAN
       /\ Len(uart[p].tx) <= 1
  /\ serial_initialised \in BOOLEAN
  /\ boot \in (1 .. Len(Ports)) \X (1 .. Len(serial_init_port) + 1) \cup {<<Len(Ports) + 1, 1>>}
  /\ pc \in [Tasks -> {"idle", "lock", "screen", "serial", "unlock"}]
  /\ call \in [Tasks -> [level : Levels, message : Messages]]
  /\ print_lock \in Tasks \cup {NoTask}
  /\ calls \in 0 .. MaxCalls

\* What is left to send of the line of print_lock's holder to a port.
Rest(p) ==
  IF print_lock # NoTask /\ PortOf(print_lock) = p THEN line[print_lock] ELSE <<>>

\* The text on the screen is the text of the line on COM1, although it went
\* through sprintf twice (_printk, vga_printf).
ScreenShowsMessage ==
  \A t \in Tasks :
    pc[t] \in {"serial", "unlock"} /\ call[t].level = LOG_INFO
    => screen = call[t].message.text

\* What the lines logged still owe a terminal is what the transmitter holds
\* and what the holder of print_lock has yet to send: no character of a line
\* is lost, doubled, altered by the formatting or mixed with another task's
\* (_printk, sprintf, serial_write_line), and the screen says the same.  A
\* port whose loopback test failed shows nothing.
LinesArriveWhole ==
  /\ ScreenShowsMessage
  /\ \A p \in ToSet(Ports) :
       serial_initialised /\ ~uart[p].loop => due[p] = uart[p].tx \o Rest(p)

\* A call of printk returns, on a port that works and on one that is stuck in
\* loopback mode (serial_is_transmit_empty, serial_write_line).
PrintkReturns == \A t \in Tasks : pc[t] # "idle" ~> pc[t] = "idle"
=============================================================================
