------------------------------ MODULE Console ------------------------------
(***************************************************************************)
(* The shell's input line and the bottom row of the screen: keyboard.c,    *)
(* the editing half of shell.c, the cursor functions of vga.c, and the     *)
(* messages _printk sends to the same cursor.                              *)
(*                                                                         *)
(* A key press is handled inside the keyboard interrupt, with interrupts   *)
(* off, and is one action.  shell_init and _printk run in tasks and may be *)
(* interrupted: each access of theirs to the cursor, and each cell they    *)
(* write, is a step.  print_lock keeps the messages of tasks apart; the    *)
(* keyboard handler echoes without it.                                     *)
(*                                                                         *)
(* Rows above the bottom one and colours are left out.                     *)
(***************************************************************************)
EXTENDS Integers, Sequences, FiniteSets

CONSTANTS
  Keys,        \* characters a key press can put on the line
  NUL,         \* the end of a string, and the code of keys without meaning
  KEY_ENTER, KEY_BACKSPACE,
  BLANK,       \* an empty cell of the screen
  PROMPT,      \* a cell of the prompt
  Message,     \* what a task prints, without its newline
  VGA_WIDTH, VGA_HEIGHT,
  PROMPT_LEN,  \* cells of "shell> ": 7
  INPUT_SIZE,  \* bytes of input_buffer: 256
  MAX_STRING_LEN, \* where strlen gives up: 512
  MaxLine,     \* bound on the keys of one line
  MaxPending,  \* bound on the tasks created that have not printed yet
  MaxAway      \* bound on the tasks whose command gave the CPU away

ASSUME ConsoleAssumption ==
  /\ {VGA_WIDTH, VGA_HEIGHT, PROMPT_LEN, INPUT_SIZE, MAX_STRING_LEN} \subseteq Nat \ {0}
  /\ {MaxLine, MaxPending, MaxAway} \subseteq Nat
  /\ PROMPT_LEN <= VGA_WIDTH /\ INPUT_SIZE <= MAX_STRING_LEN
  /\ MaxLine < MAX_STRING_LEN
  /\ Message \in Seq({Message[i] : i \in DOMAIN Message})
  /\ NUL \notin Keys /\ {BLANK, PROMPT} \cap Keys = {} /\ BLANK # PROMPT
  /\ {KEY_ENTER, KEY_BACKSPACE} \cap (Keys \cup {NUL}) = {} /\ KEY_ENTER # KEY_BACKSPACE

VARIABLES
  input_buffer,  \* input_buffer and what lies behind it
  cursor_x, cursor_y,
  row,           \* the cells of the bottom row
  shell,         \* where shell_init stands
  print,         \* where the task that holds print_lock stands, or "idle"
  pos,           \* the character it prints
  reg,           \* a register of it: a cell to write, or cursor_x to store; else 0
  pending,       \* tasks created that have not printed yet
  away,          \* commands that gave the CPU away inside the handler
  command        \* the line the last key handed to a command; <<>> after others

vars == <<input_buffer, cursor_x, cursor_y, row, shell, print, pos, reg, pending, away,
          command>>
logger == <<print, pos, reg>>

\* Bytes behind the 256 of input_buffer belong to command_handlers, which is
\* not used.  strlen reads up to MAX_STRING_LEN, strcat writes one further.
Bytes == 0 .. MAX_STRING_LEN

Columns == 0 .. VGA_WIDTH - 1

TypeOK ==
  /\ input_buffer \in [Bytes -> Keys \cup {NUL}]
  /\ cursor_x \in Nat
  /\ cursor_y \in {VGA_HEIGHT - 2, VGA_HEIGHT - 1}
  /\ row \in [Columns -> Keys \cup {BLANK, PROMPT} \cup {Message[i] : i \in DOMAIN Message}]
  /\ shell \in {"register", "prompt", "set_x", "set_y", "loop"}
  /\ print \in {"idle", "test", "wrap", "clear", "fetch", "put", "load", "store",
                "newline", "unlock"}
  /\ pos \in 1 .. Len(Message) + 1
  /\ reg \in Int
  /\ pending \in 0 .. MaxPending
  /\ away \in 0 .. MaxAway
  /\ command \in Seq(Keys)

\* kernel_main left the cursor at the start of the last row but one.
Init ==
  /\ input_buffer = [i \in Bytes |-> NUL]
  /\ cursor_x = 0 /\ cursor_y = VGA_HEIGHT - 2
  /\ row = [i \in Columns |-> BLANK]
  /\ shell = "register"
  /\ print = "idle" /\ pos = 1 /\ reg = 0
  /\ pending = 0 /\ away = 0
  /\ command = <<>>

(***************************************************************************)
(* Strings and the screen.                                                 *)
(***************************************************************************)

strlen(s) ==
  IF \E i \in 0 .. MAX_STRING_LEN - 1 : s[i] = NUL
  THEN CHOOSE i \in 0 .. MAX_STRING_LEN - 1 : s[i] = NUL /\ \A j \in 0 .. i - 1 : s[j] # NUL
  ELSE -1

\* s[i] = c; the byte in front of the buffer is not modelled.
Stored(s, i, c) == IF i \in DOMAIN s THEN [s EXCEPT ![i] = c] ELSE s

\* Mutant: the terminator is left to whatever lies behind the line.
strcatUnterminated(s, k) == Stored(s, strlen(s), k)

\* strcat with the one-character string the handler makes of a key.
strcat(s, k) == Stored(Stored(s, strlen(s), k), strlen(s) + 1, NUL)

\* The text a command sees.
Line == [i \in 1 .. strlen(input_buffer) |-> input_buffer[i - 1]]

\* video_memory's index of a place on the screen, counted from the bottom row.
Cell(x, y) == (y - (VGA_HEIGHT - 1)) * VGA_WIDTH + x

\* vga_set_character: cells of other rows are not recorded.
Written(r, cell, c) == IF cell \in Columns THEN [r EXCEPT ![cell] = c] ELSE r

\* The bottom row after vga_scroll_up.
Cleared == [i \in Columns |-> BLANK]

PromptRow == [i \in Columns |-> IF i < PROMPT_LEN THEN PROMPT ELSE BLANK]

\* Mutant: one column too far.
AtRightEdgeTooLate == cursor_x = VGA_WIDTH + 1

AtRightEdge == cursor_x = VGA_WIDTH

(***************************************************************************)
(* The keyboard interrupt.                                                 *)
(***************************************************************************)

\* vga_print_char_at_cursor, uninterrupted.
Echo(k) ==
  /\ cursor_x' = IF AtRightEdge THEN 1 ELSE cursor_x + 1
  /\ row' = IF AtRightEdge THEN Written(Cleared, Cell(0, cursor_y), k)
                           ELSE Written(row, Cell(cursor_x, cursor_y), k)
  /\ UNCHANGED cursor_y

\* Mutant: the cursor moves left of the first column.
EraseEchoAtZero ==
  /\ cursor_x' = cursor_x - 1
  /\ row' = Written(row, Cell(cursor_x - 1, cursor_y), BLANK)
  /\ UNCHANGED cursor_y

\* vga_delete_char_at_cursor.
EraseEcho ==
  IF cursor_x = 0
  THEN UNCHANGED <<cursor_x, cursor_y, row>>
  ELSE /\ cursor_x' = cursor_x - 1
       /\ row' = Written(row, Cell(cursor_x - 1, cursor_y), BLANK)
       /\ UNCHANGED cursor_y

TypeKey(k) ==
  /\ strlen(input_buffer) < MaxLine
  /\ input_buffer' = strcat(input_buffer, k)
  /\ Echo(k)
  /\ command' = <<>>
  /\ UNCHANGED <<shell, logger, pending, away>>

Shortened(s) == LET t == Stored(s, strlen(s), NUL) IN Stored(t, strlen(t) - 1, NUL)

Backspace ==
  /\ input_buffer' = Shortened(input_buffer)
  /\ EraseEcho
  /\ command' = <<>>
  /\ UNCHANGED <<shell, logger, pending, away>>

\* shell_clear_input_buffer: only what belongs to the buffer is cleared.
ClearBuffer ==
  input_buffer' = [i \in Bytes |-> IF i < INPUT_SIZE THEN NUL ELSE input_buffer[i]]

\* shell_print_prompt; what a command printed on the row is overwritten.
PrintPrompt ==
  /\ row' = PromptRow
  /\ cursor_x' = PROMPT_LEN /\ cursor_y' = VGA_HEIGHT - 1

\* Enter.  A command may create a task that prints, unless a task is inside
\* _printk: task_create would wait for print_lock for ever (see Scheduler).
Enter ==
  /\ command' = Line
  /\ \/ UNCHANGED pending
     \/ print = "idle" /\ pending < MaxPending /\ pending' = pending + 1
  /\ ClearBuffer
  /\ PrintPrompt
  /\ UNCHANGED <<shell, logger, away>>

\* Enter on lol2: the handler is left in the middle of the command.
EnterYield ==
  /\ away < MaxAway
  /\ command' = Line
  /\ away' = away + 1
  /\ row' = Cleared /\ cursor_x' = 0
  /\ UNCHANGED <<input_buffer, cursor_y, shell, logger, pending>>

\* Its task is scheduled again, still inside the handler.
YieldReturns ==
  /\ away > 0
  /\ away' = away - 1
  /\ ClearBuffer
  /\ PrintPrompt
  /\ UNCHANGED <<shell, logger, pending, command>>

\* What driver_keyboard_translate_scan_code makes of scan codes.
Translated == Keys \cup {NUL, KEY_ENTER, KEY_BACKSPACE}

ShellKeyboardHandler(key) ==
  \/ key = KEY_ENTER /\ (Enter \/ EnterYield)
  \/ key = KEY_BACKSPACE /\ Backspace
  \/ key \in Keys /\ TypeKey(key)

\* The interrupt does nothing before shell_init has registered its handler.
KeyPress ==
  /\ shell # "register"
  /\ \E key \in Translated : ShellKeyboardHandler(key)

(***************************************************************************)
(* Code in tasks.                                                          *)
(***************************************************************************)

\* shell_init.  The row it scrolls away is still blank.
ShellStep ==
  \/ /\ shell = "register" /\ shell' = "prompt"
     /\ UNCHANGED <<row, cursor_x, cursor_y>>
  \/ /\ shell = "prompt" /\ shell' = "set_x"
     /\ row' = PromptRow
     /\ UNCHANGED <<cursor_x, cursor_y>>
  \/ /\ shell = "set_x" /\ shell' = "set_y"
     /\ cursor_x' = PROMPT_LEN
     /\ UNCHANGED <<row, cursor_y>>
  \/ /\ shell = "set_y" /\ shell' = "loop"
     /\ cursor_y' = VGA_HEIGHT - 1
     /\ UNCHANGED <<row, cursor_x>>

InitPrompt == ShellStep /\ UNCHANGED <<input_buffer, logger, pending, away, command>>

\* lock, the steps of vga_print_char_at_cursor for each character, unlock.
LogLock ==
  /\ print = "idle" /\ pending > 0
  /\ pending' = pending - 1
  /\ print' = "test"
  /\ UNCHANGED <<pos, reg, cursor_x, row>>

TestEdge ==
  /\ print = "test"
  /\ print' = IF pos > Len(Message) THEN "newline" ELSE IF AtRightEdge THEN "wrap" ELSE "fetch"
  /\ UNCHANGED <<pos, reg, cursor_x, row, pending>>

\* At the right edge and for the newline: column 0, then a scroll.
BreakLine ==
  /\ print \in {"wrap", "newline"}
  /\ cursor_x' = 0
  /\ print' = "clear" /\ reg' = 0
  /\ UNCHANGED <<pos, row, pending>>

\* The scroll clears the row cell by cell.
ClearCell ==
  /\ print = "clear"
  /\ row' = [row EXCEPT ![reg] = BLANK]
  /\ reg' = reg + 1
  /\ print' = IF reg + 1 < VGA_WIDTH THEN "clear"
              ELSE IF pos > Len(Message) THEN "unlock" ELSE "fetch"
  /\ UNCHANGED <<pos, cursor_x, pending>>

\* The arguments of vga_set_character, and the write.
FetchCell ==
  /\ print = "fetch"
  /\ reg' = Cell(cursor_x, cursor_y) /\ print' = "put"
  /\ UNCHANGED <<pos, cursor_x, row, pending>>

PutCharacter ==
  /\ print = "put"
  /\ row' = Written(row, reg, Message[pos])
  /\ print' = "load"
  /\ UNCHANGED <<pos, reg, cursor_x, pending>>

\* cursor_x++ is a load and a store.
LoadX ==
  /\ print = "load"
  /\ reg' = cursor_x /\ print' = "store"
  /\ UNCHANGED <<pos, cursor_x, row, pending>>

StoreX ==
  /\ print = "store"
  /\ cursor_x' = reg + 1
  /\ reg' = 0
  /\ pos' = pos + 1 /\ print' = "test"
  /\ UNCHANGED <<row, pending>>

LogUnlock ==
  /\ print = "unlock" /\ print' = "idle"
  /\ pos' = 1 /\ reg' = 0
  /\ UNCHANGED <<cursor_x, row, pending>>

PrintStep ==
  \/ LogLock \/ TestEdge \/ BreakLine \/ ClearCell \/ FetchCell
  \/ PutCharacter \/ LoadX \/ StoreX \/ LogUnlock

PrintMessage == PrintStep /\ UNCHANGED <<input_buffer, cursor_y, shell, away, command>>

Next == KeyPress \/ YieldReturns \/ InitPrompt \/ PrintMessage

Spec == Init /\ [][Next]_vars

(***************************************************************************)
(* Properties.                                                             *)
(***************************************************************************)

\* The zero-terminated bytes behave as an editable line: also when a line
\* longer than input_buffer left bytes behind that memset does not clear, on
\* Backspace with nothing to erase, and when lol2 comes back late.
Editor == INSTANCE LineEditor WITH line <- Line

LineEditorImplemented == Editor!Spec

\* The row shows what is left of the prompt, then the end of the line (all
\* of it while any of the prompt is left), then blanks from the cursor on.
ScreenShowsLine ==
  /\ cursor_y = VGA_HEIGHT - 1 /\ cursor_x <= VGA_WIDTH
  /\ \A i \in Columns : i >= cursor_x => row[i] = BLANK
  /\ \E p \in 0 .. PROMPT_LEN :
       LET shown == cursor_x - p
           hidden == Len(Line) - shown
       IN  /\ shown >= 0 /\ hidden >= 0
           /\ p > 0 => hidden = 0
           /\ \A i \in 0 .. p - 1 : row[i] = PROMPT
           /\ \A i \in 1 .. shown : row[p + i - 1] = Line[hidden + i]

\* No key takes a screen that shows the line to one that does not, over the
\* right edge, over the start of the row and into the prompt; and a command
\* that returns leaves one that does, whatever a task was printing meanwhile.
EchoMatchesLine ==
  [][(KeyPress /\ ScreenShowsLine) \/ Enter \/ YieldReturns => ScreenShowsLine']_vars

\* logging.c:25, "Take exclusive control of printing to video output": when a
\* message is complete, the cells in front of the cursor are its characters,
\* as far as they are on this row.
MessagesWhole ==
  print = "newline" =>
    \A i \in 1 .. Len(Message) :
      i <= cursor_x /\ Cell(cursor_x, cursor_y) - i \in Columns
        => row[Cell(cursor_x, cursor_y) - i] = Message[Len(Message) + 1 - i]
=============================================================================
