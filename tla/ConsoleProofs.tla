--------------------------- MODULE ConsoleProofs ---------------------------
(***************************************************************************)
(* Theorems about Console.  The invariant says that the bytes hold a       *)
(* terminated line within MaxLine, whatever lies behind its terminator,    *)
(* and that a task inside _printk is at a character of its message.        *)
(***************************************************************************)
EXTENDS Console, TLAPS

USE DEF Bytes

\* The line in s has n keys.
Terminated(s, n) == s[n] = NUL /\ \A j \in 0 .. n - 1 : s[j] # NUL

BufferInv == \E n \in 0 .. MaxLine : Terminated(input_buffer, n)

PrintInv ==
  /\ print \in {"wrap", "fetch", "put", "load", "store"} => pos <= Len(Message)
  /\ print \in {"idle", "unlock"} \/ pos >= 1
  /\ print = "store" => reg \in Nat

IInv == TypeOK /\ BufferInv /\ PrintInv

Strings == [Bytes -> Keys \cup {NUL}]

\* The length bounds every quantity the handlers compute from it.
LEMMA Constants ==
  /\ MAX_STRING_LEN \in Nat /\ MaxLine \in Nat /\ MaxLine < MAX_STRING_LEN
  /\ INPUT_SIZE \in Nat /\ INPUT_SIZE > 0 /\ VGA_WIDTH \in Nat /\ VGA_WIDTH > 0
  /\ VGA_HEIGHT \in Nat /\ PROMPT_LEN \in Nat
  /\ MaxPending \in Nat /\ MaxAway \in Nat /\ NUL \notin Keys
  /\ Len(Message) \in Nat /\ DOMAIN Message = 1 .. Len(Message)
BY ConsoleAssumption

\* strlen finds the first terminator.
LEMMA StrlenIs ==
  ASSUME NEW s, NEW n \in 0 .. MaxLine, Terminated(s, n)
  PROVE  strlen(s) = n
<1>1. n \in 0 .. MAX_STRING_LEN - 1
  BY Constants
<1>2. \E i \in 0 .. MAX_STRING_LEN - 1 : s[i] = NUL
  BY <1>1 DEF Terminated
<1> DEFINE First(i) == s[i] = NUL /\ \A j \in 0 .. i - 1 : s[j] # NUL
<1>3. First(n)
  BY DEF Terminated
<1>4. \A i \in 0 .. MAX_STRING_LEN - 1 : First(i) => i = n
  <2> SUFFICES ASSUME NEW i \in 0 .. MAX_STRING_LEN - 1, First(i) PROVE i = n
    OBVIOUS
  <2>1. ~(i < n)
    BY Constants, <1>3
  <2>2. ~(n < i)
    BY Constants, <1>1, <1>3
  <2> QED BY <2>1, <2>2, <1>1, Constants
<1>5. (CHOOSE i \in 0 .. MAX_STRING_LEN - 1 : First(i)) = n
  BY <1>1, <1>3, <1>4
<1> QED BY <1>2, <1>5 DEF strlen

\* A terminated string of keys is a line.
LEMMA LineIs ==
  ASSUME TypeOK, NEW n \in 0 .. MaxLine, Terminated(input_buffer, n)
  PROVE  /\ Line = [i \in 1 .. n |-> input_buffer[i - 1]]
         /\ Line \in Seq(Keys) /\ Len(Line) = n
<1>1. strlen(input_buffer) = n
  BY StrlenIs
<1>2. Line = [i \in 1 .. n |-> input_buffer[i - 1]]
  BY <1>1 DEF Line
<1>3. \A i \in 1 .. n : input_buffer[i - 1] \in Keys
  BY Constants DEF TypeOK, Terminated
<1> QED BY <1>2, <1>3

\* A key is appended, the rest of the line stays, and what lies behind it is
\* cut off by a new terminator.
LEMMA StrcatTerminates ==
  ASSUME NEW s \in Strings, NEW n \in 0 .. MaxLine, n < MaxLine, Terminated(s, n), NEW k \in Keys
  PROVE  /\ strcat(s, k) \in Strings
         /\ Terminated(strcat(s, k), n + 1)
         /\ strcat(s, k)[n] = k
         /\ \A j \in 0 .. n - 1 : strcat(s, k)[j] = s[j]
<1>1. strlen(s) = n
  BY StrlenIs
<1>2. n \in Bytes /\ n + 1 \in Bytes
  BY Constants
<1>3. strcat(s, k) = [[s EXCEPT ![n] = k] EXCEPT ![n + 1] = NUL]
  BY <1>1, <1>2 DEF strcat, Stored, Strings
<1> QED BY <1>2, <1>3, Constants DEF Strings, Terminated

\* Erasing takes the last key, or nothing from an empty line.
LEMMA ShortenedTerminates ==
  ASSUME NEW s \in Strings, NEW n \in 0 .. MaxLine, Terminated(s, n)
  PROVE  /\ Shortened(s) \in Strings
         /\ n = 0 => Shortened(s) = s
         /\ n > 0 => /\ Terminated(Shortened(s), n - 1)
                     /\ \A j \in 0 .. n - 2 : Shortened(s)[j] = s[j]
<1>1. strlen(s) = n
  BY StrlenIs
<1>2. n \in Bytes
  BY Constants
<1>3. Stored(s, n, NUL) = s
  BY <1>2 DEF Stored, Terminated, Strings
<1>4. Shortened(s) = Stored(s, n - 1, NUL)
  BY <1>1, <1>3 DEF Shortened
<1>5. CASE n = 0
  BY <1>4, <1>5 DEF Stored, Strings
<1>6. CASE n > 0
  <2>1. n - 1 \in Bytes
    BY <1>6, Constants
  <2>2. Shortened(s) = [s EXCEPT ![n - 1] = NUL]
    BY <1>4, <2>1 DEF Stored, Strings
  <2> QED BY <1>6, <2>1, <2>2, Constants DEF Strings, Terminated
<1> QED BY <1>5, <1>6

(***************************************************************************)
(* The invariant.  A key press changes the buffer, the cursor and the row  *)
(* together; a task inside _printk only the cursor and the row.            *)
(***************************************************************************)

\* Characters a cell may hold.
Cells == Keys \cup {BLANK, PROMPT} \cup {Message[i] : i \in DOMAIN Message}

Rows == [Columns -> Cells]

LEMMA WrittenRow ==
  ASSUME NEW r \in Rows, NEW cell, NEW c \in Cells
  PROVE  Written(r, cell, c) \in Rows
BY DEF Written, Rows

LEMMA FixedRows == Cleared \in Rows /\ PromptRow \in Rows
BY DEF Cleared, PromptRow, Rows, Cells

LEMMA EchoTypes ==
  ASSUME TypeOK, NEW k \in Keys, Echo(k)
  PROVE  cursor_x' \in Nat /\ cursor_y' = cursor_y /\ row' \in Rows
<1>1. cursor_x \in Nat /\ row \in Rows /\ k \in Cells
  BY DEF TypeOK, Rows, Cells
<1>2. cursor_x' \in Nat /\ cursor_y' = cursor_y
  BY <1>1 DEF Echo
<1>3. row' \in {Written(Cleared, Cell(0, cursor_y), k), Written(row, Cell(cursor_x, cursor_y), k)}
  BY DEF Echo
<1> QED BY <1>1, <1>2, <1>3, WrittenRow, FixedRows

LEMMA EraseTypes ==
  ASSUME TypeOK, EraseEcho
  PROVE  cursor_x' \in Nat /\ cursor_y' = cursor_y /\ row' \in Rows
<1>1. cursor_x \in Nat /\ row \in Rows /\ BLANK \in Cells
  BY DEF TypeOK, Rows, Cells
<1>2. Written(row, Cell(cursor_x - 1, cursor_y), BLANK) \in Rows
  BY <1>1, WrittenRow
<1> QED BY <1>1, <1>2 DEF EraseEcho

LEMMA PromptTypes ==
  ASSUME PrintPrompt
  PROVE  cursor_x' \in Nat /\ cursor_y' = VGA_HEIGHT - 1 /\ row' \in Rows
BY FixedRows, Constants DEF PrintPrompt

LEMMA ClearedBuffer ==
  ASSUME TypeOK, ClearBuffer
  PROVE  input_buffer' \in Strings /\ Terminated(input_buffer', 0)
BY Constants DEF ClearBuffer, TypeOK, Strings, Terminated

LEMMA InitInv == Init => IInv
<1> SUFFICES ASSUME Init PROVE IInv
  OBVIOUS
<1>1. TypeOK
  <2>1. input_buffer \in [Bytes -> Keys \cup {NUL}]
    BY DEF Init
  <2>2. row \in [Columns -> Keys \cup {BLANK, PROMPT} \cup {Message[i] : i \in DOMAIN Message}]
    BY DEF Init
  <2>3. command \in Seq(Keys)
    BY DEF Init
  <2> QED BY <2>1, <2>2, <2>3, Constants DEF Init, TypeOK
<1>2. BufferInv
  BY Constants DEF Init, BufferInv, Terminated
<1>3. PrintInv
  BY DEF Init, PrintInv
<1> QED BY <1>1, <1>2, <1>3 DEF IInv

LEMMA TypeKeyInv ==
  ASSUME IInv, NEW k \in Keys, TypeKey(k)
  PROVE  IInv'
<1>1. PICK n \in 0 .. MaxLine : Terminated(input_buffer, n)
  BY DEF IInv, BufferInv
<1>2. strlen(input_buffer) = n
  BY <1>1, StrlenIs
<1>3. n < MaxLine /\ input_buffer \in Strings
  BY <1>2 DEF TypeKey, IInv, TypeOK, Strings
<1>4. input_buffer' \in Strings /\ Terminated(input_buffer', n + 1)
  BY <1>1, <1>3, StrcatTerminates DEF TypeKey
<1>5. BufferInv'
  BY <1>3, <1>4, Constants DEF BufferInv, Terminated
<1>6. cursor_x' \in Nat /\ cursor_y' = cursor_y /\ row' \in Rows
  BY EchoTypes DEF TypeKey, IInv
<1>7. TypeOK'
  BY <1>4, <1>6 DEF TypeKey, IInv, TypeOK, Strings, Rows, Cells, Columns, logger
<1> QED BY <1>5, <1>7 DEF TypeKey, IInv, PrintInv, logger

LEMMA BackspaceInv ==
  ASSUME IInv, Backspace
  PROVE  IInv'
<1>1. PICK n \in 0 .. MaxLine : Terminated(input_buffer, n)
  BY DEF IInv, BufferInv
<1>2. input_buffer \in Strings
  BY DEF IInv, TypeOK, Strings
<1>3. input_buffer' \in Strings
  BY <1>1, <1>2, ShortenedTerminates DEF Backspace
<1>4. BufferInv'
  <2>1. CASE n = 0
    BY <1>1, <1>2, <2>1, ShortenedTerminates DEF Backspace, BufferInv
  <2>2. CASE n > 0
    <3>1. Terminated(input_buffer', n - 1)
      BY <1>1, <1>2, <2>2, ShortenedTerminates DEF Backspace
    <3>2. n - 1 \in 0 .. MaxLine
      BY <2>2, Constants
    <3> QED BY <3>1, <3>2, Constants DEF BufferInv, Terminated
  <2> QED BY <2>1, <2>2
<1>5. cursor_x' \in Nat /\ cursor_y' = cursor_y /\ row' \in Rows
  BY EraseTypes DEF Backspace, IInv
<1>6. TypeOK'
  BY <1>3, <1>5 DEF Backspace, IInv, TypeOK, Strings, Rows, Cells, Columns, logger
<1> QED BY <1>4, <1>6 DEF Backspace, IInv, PrintInv, logger

LEMMA LineTyped == IInv => Line \in Seq(Keys)
BY LineIs DEF IInv, BufferInv

LEMMA EnterInv ==
  ASSUME IInv, Enter
  PROVE  IInv'
<1>1. input_buffer' \in Strings /\ BufferInv'
  BY ClearedBuffer, Constants DEF IInv, Enter, BufferInv, Terminated
<1>2. cursor_x' \in Nat /\ cursor_y' = VGA_HEIGHT - 1 /\ row' \in Rows
  BY PromptTypes DEF Enter
<1>3. pending' \in 0 .. MaxPending
  BY Constants DEF IInv, TypeOK, Enter
<1>4. command' \in Seq(Keys)
  BY LineTyped DEF Enter
<1>5. TypeOK'
  BY <1>1, <1>2, <1>3, <1>4 DEF Enter, IInv, TypeOK, Strings, Rows, Cells, Columns, logger
<1> QED BY <1>1, <1>5 DEF Enter, IInv, PrintInv, logger

LEMMA EnterYieldInv ==
  ASSUME IInv, EnterYield
  PROVE  IInv'
<1>1. away' \in 0 .. MaxAway
  BY Constants DEF IInv, TypeOK, EnterYield
<1>2. command' \in Seq(Keys)
  BY LineTyped DEF EnterYield
<1>3. TypeOK'
  BY <1>1, <1>2, FixedRows DEF EnterYield, IInv, TypeOK, Rows, Cells, Columns, logger
<1> QED BY <1>3 DEF EnterYield, IInv, BufferInv, PrintInv, Terminated, logger

LEMMA YieldReturnsInv ==
  ASSUME IInv, YieldReturns
  PROVE  IInv'
<1>1. input_buffer' \in Strings /\ BufferInv'
  BY ClearedBuffer, Constants DEF IInv, YieldReturns, BufferInv, Terminated
<1>2. cursor_x' \in Nat /\ cursor_y' = VGA_HEIGHT - 1 /\ row' \in Rows
  BY PromptTypes DEF YieldReturns
<1>3. away' \in 0 .. MaxAway
  BY Constants DEF IInv, TypeOK, YieldReturns
<1>4. TypeOK'
  BY <1>1, <1>2, <1>3 DEF YieldReturns, IInv, TypeOK, Strings, Rows, Cells, Columns, logger
<1> QED BY <1>1, <1>4 DEF YieldReturns, IInv, PrintInv, logger

LEMMA InitPromptInv ==
  ASSUME IInv, InitPrompt
  PROVE  IInv'
<1>1. row' \in Rows /\ cursor_x' \in Nat
  BY FixedRows, Constants DEF InitPrompt, ShellStep, IInv, TypeOK, Rows, Cells
<1>2. cursor_y' \in {VGA_HEIGHT - 2, VGA_HEIGHT - 1}
  BY DEF InitPrompt, ShellStep, IInv, TypeOK
<1>3. shell' \in {"register", "prompt", "set_x", "set_y", "loop"}
  BY DEF InitPrompt, ShellStep
<1>4. TypeOK'
  BY <1>1, <1>2, <1>3 DEF InitPrompt, IInv, TypeOK, Rows, Cells, Columns, logger
<1> QED BY <1>4 DEF InitPrompt, IInv, BufferInv, PrintInv, Terminated, logger

LEMMA PrintMessageInv ==
  ASSUME IInv, PrintMessage
  PROVE  IInv'
<1> USE DEF IInv, PrintInv
<1>1. BufferInv'
  BY DEF PrintMessage, BufferInv, Terminated
<1>2. row' \in Rows
  <2>1. row \in Rows /\ BLANK \in Cells
    BY DEF TypeOK, Rows, Cells
  <2>2. CASE ClearCell
    BY <2>1, <2>2 DEF ClearCell, Rows
  <2>3. CASE PutCharacter
    <3>1. pos \in DOMAIN Message
      BY <2>3, Constants DEF PutCharacter, TypeOK
    <3>2. Message[pos] \in Cells
      BY <3>1 DEF Cells
    <3> QED BY <2>1, <2>3, <3>2, WrittenRow DEF PutCharacter
  <2> QED BY <2>1, <2>2, <2>3 DEF PrintMessage, PrintStep, LogLock, TestEdge, BreakLine,
               FetchCell, LoadX, StoreX, LogUnlock
<1>3. /\ print' \in {"idle", "test", "wrap", "clear", "fetch", "put", "load", "store",
                     "newline", "unlock"}
      /\ pos' \in 1 .. Len(Message) + 1
      /\ PrintInv'
      /\ reg' \in Int
      /\ cursor_x' \in Nat
      /\ pending' \in 0 .. MaxPending
  <2> DEFINE G == /\ print' \in {"idle", "test", "wrap", "clear", "fetch", "put", "load",
                                 "store", "newline", "unlock"}
                  /\ pos' \in 1 .. Len(Message) + 1
                  /\ PrintInv'
                  /\ reg' \in Int
                  /\ cursor_x' \in Nat
                  /\ pending' \in 0 .. MaxPending
  <2>1. CASE LogLock
    BY <2>1, Constants DEF LogLock, TypeOK
  <2>2. CASE TestEdge
    BY <2>2, Constants DEF TestEdge, TypeOK
  <2>3. CASE BreakLine
    BY <2>3, Constants DEF BreakLine, TypeOK
  <2>4. CASE ClearCell
    BY <2>4, Constants DEF ClearCell, TypeOK
  <2>5. CASE FetchCell
    BY <2>5, Constants DEF FetchCell, Cell, TypeOK
  <2>6. CASE PutCharacter
    BY <2>6, Constants DEF PutCharacter, TypeOK
  <2>7. CASE LoadX
    BY <2>7, Constants DEF LoadX, TypeOK
  <2>8. CASE StoreX
    BY <2>8, Constants DEF StoreX, TypeOK
  <2>9. CASE LogUnlock
    BY <2>9, Constants DEF LogUnlock, TypeOK
  <2> QED BY <2>1, <2>2, <2>3, <2>4, <2>5, <2>6, <2>7, <2>8, <2>9 DEF PrintMessage, PrintStep
<1>4. TypeOK'
  BY <1>2, <1>3 DEF PrintMessage, TypeOK, Rows, Cells, Columns
<1> QED BY <1>1, <1>3, <1>4

LEMMA StutterInv ==
  ASSUME IInv, UNCHANGED vars
  PROVE  IInv'
BY DEF vars, IInv, TypeOK, BufferInv, PrintInv, Terminated, Columns

LEMMA StepInv == IInv /\ [Next]_vars => IInv'
<1> SUFFICES ASSUME IInv, [Next]_vars PROVE IInv'
  OBVIOUS
<1>1. CASE KeyPress
  <2>1. PICK key \in Translated : ShellKeyboardHandler(key)
    BY <1>1 DEF KeyPress
  <2> QED BY <2>1, EnterInv, EnterYieldInv, BackspaceInv, TypeKeyInv DEF ShellKeyboardHandler
<1> QED BY <1>1, YieldReturnsInv, InitPromptInv, PrintMessageInv, StutterInv DEF Next

LEMMA Invariance == Spec => []IInv
BY InitInv, StepInv, PTL DEF Spec

\* The console's variables keep their types: the cursor never falls below
\* column 0 and a message is never read past its end, whatever is pressed
\* while it is printed.
THEOREM TypeCorrect == Spec => []TypeOK
<1>1. IInv => TypeOK
  BY DEF IInv
<1> QED BY <1>1, Invariance, PTL

(***************************************************************************)
(* The line editor.  The content of the line is followed key by key, by    *)
(* its length n before the step.                                           *)
(***************************************************************************)

\* LineIs for the state a step leads to.
LEMMA LineIsNext ==
  ASSUME TypeOK', NEW n \in 0 .. MaxLine, Terminated(input_buffer', n)
  PROVE  /\ Line' = [i \in 1 .. n |-> input_buffer'[i - 1]]
         /\ Line' \in Seq(Keys) /\ Len(Line') = n
<1>1. strlen(input_buffer') = n
  BY StrlenIs
<1>2. Line' = [i \in 1 .. n |-> input_buffer'[i - 1]]
  BY <1>1 DEF Line
<1>3. \A i \in 1 .. n : input_buffer'[i - 1] \in Keys
  BY Constants DEF TypeOK, Terminated
<1> QED BY <1>2, <1>3

LEMMA LineUnchanged == input_buffer' = input_buffer => Line' = Line
BY DEF Line

LEMMA EmptyLine ==
  ASSUME TypeOK, TypeOK', ClearBuffer
  PROVE  Line' = <<>>
<1>1. Terminated(input_buffer', 0)
  BY ClearedBuffer
<1> QED BY <1>1, LineIsNext, Constants

LEMMA TypeKeyAppends ==
  ASSUME IInv, IInv', NEW k \in Keys, TypeKey(k)
  PROVE  Line' = Append(Line, k)
<1>1. PICK n \in 0 .. MaxLine : Terminated(input_buffer, n)
  BY DEF IInv, BufferInv
<1>2. n < MaxLine /\ input_buffer \in Strings
  BY <1>1, StrlenIs DEF TypeKey, IInv, TypeOK, Strings
<1>3. /\ Terminated(input_buffer', n + 1)
      /\ input_buffer'[n] = k
      /\ \A j \in 0 .. n - 1 : input_buffer'[j] = input_buffer[j]
  BY <1>1, <1>2, StrcatTerminates DEF TypeKey
<1>4. /\ Line = [i \in 1 .. n |-> input_buffer[i - 1]]
      /\ Line \in Seq(Keys) /\ Len(Line) = n
  BY <1>1, LineIs DEF IInv
<1>5. n + 1 \in 0 .. MaxLine
  BY <1>2, Constants
<1>6. Line' = [i \in 1 .. n + 1 |-> input_buffer'[i - 1]]
  BY <1>3, <1>5, LineIsNext DEF IInv
<1>7. Line' \in Seq(Keys) /\ Len(Line') = n + 1
  BY <1>3, <1>5, LineIsNext DEF IInv
<1>8. Append(Line, k) \in Seq(Keys) /\ Len(Append(Line, k)) = n + 1
  BY <1>4
<1>9. ASSUME NEW i \in 1 .. n + 1 PROVE Line'[i] = Append(Line, k)[i]
  <2>1. CASE i = n + 1
    BY <1>3, <1>4, <1>6, <2>1
  <2>2. CASE i # n + 1
    BY <1>3, <1>4, <1>6, <2>2
  <2> QED BY <2>1, <2>2
<1> QED BY <1>7, <1>8, <1>9

LEMMA BackspaceErases ==
  ASSUME IInv, IInv', Backspace
  PROVE  Line' = SubSeq(Line, 1, Len(Line) - 1)
<1>1. PICK n \in 0 .. MaxLine : Terminated(input_buffer, n)
  BY DEF IInv, BufferInv
<1>2. input_buffer \in Strings
  BY DEF IInv, TypeOK, Strings
<1>3. /\ Line = [i \in 1 .. n |-> input_buffer[i - 1]]
      /\ Line \in Seq(Keys) /\ Len(Line) = n
  BY <1>1, LineIs DEF IInv
<1>4. CASE n = 0
  <2>1. input_buffer' = input_buffer
    BY <1>1, <1>2, <1>4, ShortenedTerminates DEF Backspace
  <2> QED BY <1>3, <1>4, <2>1, LineUnchanged
<1>5. CASE n > 0
  <2>1. /\ Terminated(input_buffer', n - 1)
        /\ \A j \in 0 .. n - 2 : input_buffer'[j] = input_buffer[j]
    BY <1>1, <1>2, <1>5, ShortenedTerminates DEF Backspace
  <2>2. n - 1 \in 0 .. MaxLine
    BY <1>5, Constants
  <2>3. /\ Line' = [i \in 1 .. n - 1 |-> input_buffer'[i - 1]]
        /\ Line' \in Seq(Keys) /\ Len(Line') = n - 1
    BY <2>1, <2>2, LineIsNext DEF IInv
  <2>4. SubSeq(Line, 1, n - 1) = [i \in 1 .. n - 1 |-> Line[i]]
    BY <1>3, <1>5
  <2>5. \A i \in 1 .. n - 1 : input_buffer'[i - 1] = Line[i]
    BY <1>3, <2>1
  <2> QED BY <1>3, <2>3, <2>4, <2>5
<1> QED BY <1>4, <1>5

LEMMA InitEditor == Init => Editor!Init
<1> SUFFICES ASSUME Init PROVE Editor!Init
  OBVIOUS
<1>1. TypeOK
  BY InitInv DEF IInv
<1>2. Terminated(input_buffer, 0)
  BY Constants DEF Init, Terminated
<1>3. Line = <<>>
  BY <1>1, <1>2, LineIs, Constants
<1> QED BY <1>3 DEF Init, Editor!Init

LEMMA StepEditor == IInv /\ IInv' /\ [Next]_vars => [Editor!Next]_(Editor!vars)
<1> SUFFICES ASSUME IInv, IInv', [Next]_vars PROVE [Editor!Next]_(Editor!vars)
  OBVIOUS
<1>1. CASE KeyPress
  <2>1. PICK key \in Translated : ShellKeyboardHandler(key)
    BY <1>1 DEF KeyPress
  <2>2. CASE key \in Keys /\ TypeKey(key)
    <3>1. Line' = Append(Line, key)
      BY <2>2, TypeKeyAppends
    <3>2. Editor!Type(key)
      BY <2>2, <3>1 DEF TypeKey, Editor!Type
    <3> QED BY <2>2, <3>2 DEF Editor!Next
  <2>3. CASE Backspace
    <3>1. Line' = SubSeq(Line, 1, Len(Line) - 1)
      BY <2>3, BackspaceErases
    <3> QED BY <2>3, <3>1 DEF Backspace, Editor!Erase, Editor!Next
  <2>4. CASE Enter
    <3>1. Line' = <<>>
      BY <2>4, EmptyLine DEF Enter, IInv
    <3> QED BY <2>4, <3>1 DEF Enter, Editor!Submit, Editor!Next
  <2>5. CASE EnterYield
    <3>1. Line' = Line
      BY <2>5, LineUnchanged DEF EnterYield
    <3> QED BY <2>5, <3>1 DEF EnterYield, Editor!Depart, Editor!Next
  <2> QED BY <2>1, <2>2, <2>3, <2>4, <2>5 DEF ShellKeyboardHandler
<1>2. CASE YieldReturns
  <2>1. Line' = <<>>
    BY <1>2, EmptyLine DEF YieldReturns, IInv
  <2> QED BY <1>2, <2>1 DEF YieldReturns, Editor!Return, Editor!Next
<1>3. CASE InitPrompt \/ PrintMessage \/ UNCHANGED vars
  <2>1. input_buffer' = input_buffer /\ UNCHANGED <<command, away>>
    BY <1>3 DEF InitPrompt, PrintMessage, vars
  <2> QED BY <2>1, LineUnchanged DEF Editor!vars
<1> QED BY <1>1, <1>2, <1>3 DEF Next

\* The console implements LineEditor: whatever a task prints and whatever lies
\* behind the buffer, the string a command is given is the line that was typed.
THEOREM ImplementsLineEditor == Spec => LineEditorImplemented
BY Invariance, InitEditor, StepEditor, PTL DEF Spec, Editor!Spec, LineEditorImplemented

(***************************************************************************)
(* The echo.                                                               *)
(***************************************************************************)

\* Row r with the cursor in column x shows the end of line l behind p cells
\* of the prompt.
Shows(r, x, l, p) ==
  /\ \A i \in Columns : i >= x => r[i] = BLANK
  /\ x - p >= 0 /\ x - p <= Len(l)
  /\ p > 0 => x - p = Len(l)
  /\ \A i \in 0 .. p - 1 : r[i] = PROMPT
  /\ \A i \in 1 .. x - p : r[p + i - 1] = l[Len(l) - (x - p) + i]

\* ScreenShowsLine says so of the row, the cursor and the line.
LEMMA ShowsScreen ==
  ASSUME NEW r, NEW x \in Nat, NEW l \in Seq(Keys), NEW p \in 0 .. PROMPT_LEN
  PROVE  Shows(r, x, l, p) <=>
           /\ \A i \in Columns : i >= x => r[i] = BLANK
           /\ LET shown == x - p
                  hidden == Len(l) - shown
              IN  /\ shown >= 0 /\ hidden >= 0
                  /\ p > 0 => hidden = 0
                  /\ \A i \in 0 .. p - 1 : r[i] = PROMPT
                  /\ \A i \in 1 .. shown : r[p + i - 1] = l[hidden + i]
<1>1. Len(l) \in Nat /\ p \in Int
  BY Constants
<1>2. /\ x - p <= Len(l) <=> Len(l) - (x - p) >= 0
      /\ x - p = Len(l) <=> Len(l) - (x - p) = 0
  BY <1>1
<1> QED BY <1>2 DEF Shows

LEMMA ScreenIs ==
  ASSUME TypeOK, Line \in Seq(Keys)
  PROVE  ScreenShowsLine <=>
           /\ cursor_y = VGA_HEIGHT - 1 /\ cursor_x <= VGA_WIDTH
           /\ \E p \in 0 .. PROMPT_LEN : Shows(row, cursor_x, Line, p)
<1>1. cursor_x \in Nat
  BY DEF TypeOK
<1>2. \A p \in 0 .. PROMPT_LEN : Shows(row, cursor_x, Line, p) <=>
           /\ \A i \in Columns : i >= cursor_x => row[i] = BLANK
           /\ LET shown == cursor_x - p
                  hidden == Len(Line) - shown
              IN  /\ shown >= 0 /\ hidden >= 0
                  /\ p > 0 => hidden = 0
                  /\ \A i \in 0 .. p - 1 : row[i] = PROMPT
                  /\ \A i \in 1 .. shown : row[p + i - 1] = Line[hidden + i]
  BY <1>1, ShowsScreen
<1> QED BY <1>2 DEF ScreenShowsLine

LEMMA ScreenIsNext ==
  ASSUME TypeOK', Line' \in Seq(Keys)
  PROVE  ScreenShowsLine' <=>
           /\ cursor_y' = VGA_HEIGHT - 1 /\ cursor_x' <= VGA_WIDTH
           /\ \E p \in 0 .. PROMPT_LEN : Shows(row', cursor_x', Line', p)
<1>1. cursor_x' \in Nat
  BY DEF TypeOK
<1>2. \A p \in 0 .. PROMPT_LEN : Shows(row', cursor_x', Line', p) <=>
           /\ \A i \in Columns : i >= cursor_x' => row'[i] = BLANK
           /\ LET shown == cursor_x' - p
                  hidden == Len(Line') - shown
              IN  /\ shown >= 0 /\ hidden >= 0
                  /\ p > 0 => hidden = 0
                  /\ \A i \in 0 .. p - 1 : row'[i] = PROMPT
                  /\ \A i \in 1 .. shown : row'[p + i - 1] = Line'[hidden + i]
  BY <1>1, ShowsScreen
<1> QED BY <1>2 DEF ScreenShowsLine, Columns

\* A character in the next column.
LEMMA ShowsTyped ==
  ASSUME NEW r \in Rows, NEW x \in Nat, x < VGA_WIDTH, NEW l \in Seq(Keys), NEW k \in Keys,
         NEW p \in 0 .. PROMPT_LEN, Shows(r, x, l, p)
  PROVE  Shows([r EXCEPT ![x] = k], x + 1, Append(l, k), p)
<1> DEFINE r2 == [r EXCEPT ![x] = k]
           l2 == Append(l, k)
<1>1. x \in Columns /\ Len(l) \in Nat /\ p \in Nat
  BY Constants DEF Columns
<1>2. r2[x] = k /\ \A i \in Columns : i # x => r2[i] = r[i]
  BY <1>1 DEF Rows
<1>3. Len(l2) = Len(l) + 1 /\ l2[Len(l) + 1] = k /\ \A i \in 1 .. Len(l) : l2[i] = l[i]
  OBVIOUS
<1> HIDE DEF r2, l2
<1>4. \A i \in Columns : i >= x + 1 => r2[i] = BLANK
  BY <1>1, <1>2 DEF Shows, Columns
<1>5. x + 1 - p >= 0 /\ x + 1 - p <= Len(l2) /\ (p > 0 => x + 1 - p = Len(l2))
  BY <1>1, <1>3 DEF Shows
<1>6. \A i \in 0 .. p - 1 : r2[i] = PROMPT
  <2> SUFFICES ASSUME NEW i \in 0 .. p - 1 PROVE r2[i] = PROMPT
    OBVIOUS
  <2>1. i < x /\ i \in Columns
    BY <1>1, Constants DEF Shows, Columns
  <2> QED BY <1>2, <2>1 DEF Shows
<1>7. ASSUME NEW i \in 1 .. x + 1 - p
      PROVE  r2[p + i - 1] = l2[Len(l2) - (x + 1 - p) + i]
  <2>1. x - p \in Nat /\ x - p <= Len(l)
    BY <1>1 DEF Shows
  <2>2. CASE i = x + 1 - p
    <3>1. p + i - 1 = x /\ Len(l2) - (x + 1 - p) + i = Len(l) + 1
      BY <1>1, <1>3, <2>2
    <3> QED BY <1>2, <1>3, <3>1
  <2>3. CASE i # x + 1 - p
    <3>1. i \in 1 .. x - p
      BY <1>1, <2>1, <2>3
    <3>2. p + i - 1 \in Columns /\ p + i - 1 # x
      BY <1>1, <3>1, Constants DEF Columns
    <3>3. /\ Len(l2) - (x + 1 - p) + i = Len(l) - (x - p) + i
          /\ Len(l) - (x - p) + i \in 1 .. Len(l)
      BY <1>1, <1>3, <2>1, <3>1
    <3>4. r[p + i - 1] = l[Len(l) - (x - p) + i]
      BY <3>1 DEF Shows
    <3> QED BY <1>2, <1>3, <3>2, <3>3, <3>4
  <2> QED BY <2>2, <2>3
<1>8. Shows(r2, x + 1, l2, p)
  BY <1>4, <1>5, <1>6, <1>7 DEF Shows
<1> QED BY <1>8 DEF r2, l2

\* A character on a fresh row.
LEMMA ShowsWrapped ==
  ASSUME NEW l \in Seq(Keys), NEW k \in Keys
  PROVE  Shows([Cleared EXCEPT ![0] = k], 1, Append(l, k), 0)
<1>1. 0 \in Columns
  BY Constants DEF Columns
<1>2. /\ [Cleared EXCEPT ![0] = k][0] = k
      /\ \A i \in Columns : i >= 1 => [Cleared EXCEPT ![0] = k][i] = BLANK
  BY <1>1 DEF Cleared
<1>3. Len(Append(l, k)) = Len(l) + 1 /\ Append(l, k)[Len(l) + 1] = k /\ Len(l) \in Nat
  OBVIOUS
<1> QED BY <1>2, <1>3 DEF Shows

\* The last character erased, or a cell of the prompt.
LEMMA ShowsErased ==
  ASSUME NEW r \in Rows, NEW x \in Nat, x > 0, x <= VGA_WIDTH, NEW l \in Seq(Keys),
         NEW p \in 0 .. PROMPT_LEN, Shows(r, x, l, p)
  PROVE  \E q \in 0 .. PROMPT_LEN :
           Shows([r EXCEPT ![x - 1] = BLANK], x - 1, SubSeq(l, 1, Len(l) - 1), q)
<1> DEFINE r2 == [r EXCEPT ![x - 1] = BLANK]
           l2 == SubSeq(l, 1, Len(l) - 1)
<1>1. x - 1 \in Columns /\ Len(l) \in Nat /\ p \in Nat
  BY Constants DEF Columns
<1>2. r2[x - 1] = BLANK /\ \A i \in Columns : i # x - 1 => r2[i] = r[i]
  BY <1>1 DEF Rows
<1>3. /\ Len(l) > 0 => Len(l2) = Len(l) - 1
      /\ Len(l) = 0 => Len(l2) = 0
      /\ \A i \in 1 .. Len(l) - 1 : l2[i] = l[i]
  <2>1. CASE Len(l) = 0
    <3>1. l2 = <<>>
      BY <2>1
    <3> QED BY <2>1, <3>1
  <2>2. CASE Len(l) # 0
    <3>1. Len(l) \in Nat /\ Len(l) - 1 \in 0 .. Len(l)
      BY <2>2
    <3>2. PICK m \in Nat : m = Len(l) - 1
      BY <3>1, <2>2
    <3>3. l2 = [i \in 1 .. m |-> l[i]]
      BY <3>1, <3>2
    <3>4. Len(l2) = m
      BY <3>3
    <3> QED BY <2>2, <3>1, <3>2, <3>3, <3>4
  <2> QED BY <2>1, <2>2
<1> HIDE DEF r2, l2
<1>4. \A i \in Columns : i >= x - 1 => r2[i] = BLANK
  BY <1>1, <1>2 DEF Shows, Columns
<1>5. CASE x > p
  <2>1. x - 1 - p >= 0 /\ Len(l2) = Len(l) - 1 /\ Len(l) > 0 /\ x - p <= Len(l)
    BY <1>1, <1>3, <1>5 DEF Shows
  <2>2. x - 1 - p <= Len(l2) /\ (p > 0 => x - 1 - p = Len(l2))
    BY <1>1, <2>1 DEF Shows
  <2>3. \A i \in 0 .. p - 1 : r2[i] = PROMPT
    <3> SUFFICES ASSUME NEW i \in 0 .. p - 1 PROVE r2[i] = PROMPT
      OBVIOUS
    <3>1. i < x - 1 /\ i \in Columns
      BY <1>1, <1>5, Constants DEF Columns
    <3>2. r[i] = PROMPT
      BY DEF Shows
    <3> QED BY <1>2, <3>1, <3>2
  <2>4. ASSUME NEW i \in 1 .. x - 1 - p
        PROVE  r2[p + i - 1] = l2[Len(l2) - (x - 1 - p) + i]
    <3>1. i \in 1 .. x - p
      BY <1>1, <2>1
    <3>2. p + i - 1 \in Columns /\ p + i - 1 # x - 1
      BY <1>1, Constants DEF Columns
    <3>3. /\ Len(l2) - (x - 1 - p) + i = Len(l) - (x - p) + i
          /\ Len(l) - (x - p) + i \in 1 .. Len(l) - 1
      BY <1>1, <2>1
    <3>4. r[p + i - 1] = l[Len(l) - (x - p) + i]
      BY <3>1 DEF Shows
    <3> QED BY <1>2, <1>3, <3>2, <3>3, <3>4
  <2>5. Shows(r2, x - 1, l2, p)
    BY <1>4, <2>1, <2>2, <2>3, <2>4 DEF Shows
  <2> QED BY <2>5 DEF r2, l2
<1>6. CASE ~(x > p)
  <2>1. x = p /\ Len(l) = 0 /\ Len(l2) = 0
    BY <1>1, <1>3, <1>6 DEF Shows
  <2>2. \A i \in 0 .. p - 2 : r2[i] = PROMPT
    <3> SUFFICES ASSUME NEW i \in 0 .. p - 2 PROVE r2[i] = PROMPT
      OBVIOUS
    <3>1. i \in 0 .. p - 1 /\ i \in Columns /\ i # x - 1
      BY <1>1, <2>1, Constants DEF Columns
    <3> QED BY <1>2, <3>1 DEF Shows
  <2>3. Shows(r2, x - 1, l2, p - 1)
    BY <1>1, <1>4, <2>1, <2>2 DEF Shows
  <2>4. p - 1 \in 0 .. PROMPT_LEN
    BY <2>1, Constants
  <2> QED BY <2>3, <2>4 DEF r2, l2
<1> QED BY <1>5, <1>6

\* On the bottom row a cell's index is its column.
LEMMA BottomCell ==
  ASSUME NEW x \in Int, NEW y, y = VGA_HEIGHT - 1
  PROVE  Cell(x, y) = x
<1>1. y - (VGA_HEIGHT - 1) = 0
  BY Constants
<1>2. 0 * VGA_WIDTH = 0
  BY Constants
<1> QED BY <1>1, <1>2 DEF Cell

LEMMA PromptShows ==
  ASSUME TypeOK, TypeOK', ClearBuffer, PrintPrompt
  PROVE  ScreenShowsLine'
<1>1. Line' = <<>>
  BY EmptyLine
<1>2. Len(<<>>) = 0 /\ PROMPT_LEN \in Nat /\ PROMPT_LEN <= VGA_WIDTH
  BY Constants, ConsoleAssumption
<1>3. \A i \in Columns : i >= PROMPT_LEN => PromptRow[i] = BLANK
  BY Constants DEF PromptRow, Columns
<1>4. \A i \in 0 .. PROMPT_LEN - 1 : PromptRow[i] = PROMPT
  BY <1>2, Constants DEF PromptRow, Columns
<1>5. Shows(PromptRow, PROMPT_LEN, <<>>, PROMPT_LEN)
  BY <1>2, <1>3, <1>4 DEF Shows
<1>6. PROMPT_LEN \in 0 .. PROMPT_LEN
  BY <1>2
<1> QED BY <1>1, <1>2, <1>5, <1>6, ScreenIsNext DEF PrintPrompt

LEMMA TypeKeyShows ==
  ASSUME IInv, IInv', NEW k \in Keys, TypeKey(k), ScreenShowsLine
  PROVE  ScreenShowsLine'
<1>1. Line \in Seq(Keys) /\ Line' = Append(Line, k) /\ Line' \in Seq(Keys)
  BY LineTyped, TypeKeyAppends
<1>2. /\ cursor_y = VGA_HEIGHT - 1 /\ cursor_x <= VGA_WIDTH
      /\ cursor_x \in Nat /\ row \in Rows
  BY DEF ScreenShowsLine, IInv, TypeOK, Rows, Cells
<1>3. PICK p \in 0 .. PROMPT_LEN : Shows(row, cursor_x, Line, p)
  BY <1>1, ScreenIs DEF IInv
<1>4. cursor_y' = VGA_HEIGHT - 1
  BY <1>2 DEF TypeKey, Echo
<1>5. CASE AtRightEdge
  <2>1. cursor_x' = 1 /\ row' = [Cleared EXCEPT ![0] = k]
    <3>1. Cell(0, cursor_y) = 0 /\ 0 \in Columns
      BY <1>2, BottomCell, Constants DEF Columns
    <3>2. cursor_x' = 1 /\ row' = Written(Cleared, 0, k)
      BY <1>5, <3>1 DEF TypeKey, Echo
    <3> QED BY <3>1, <3>2 DEF Written
  <2>2. 0 \in 0 .. PROMPT_LEN /\ 1 <= VGA_WIDTH
    BY Constants
  <2> QED BY <1>1, <1>4, <2>1, <2>2, ShowsWrapped, ScreenIsNext DEF IInv
<1>6. CASE ~AtRightEdge
  <2>1. cursor_x < VGA_WIDTH /\ cursor_x \in Columns
    BY <1>2, <1>6, Constants DEF AtRightEdge, Columns
  <2>2. cursor_x' = cursor_x + 1 /\ row' = [row EXCEPT ![cursor_x] = k]
    <3>1. Cell(cursor_x, cursor_y) = cursor_x
      BY <1>2, BottomCell
    <3>2. cursor_x' = cursor_x + 1 /\ row' = Written(row, cursor_x, k)
      BY <1>6, <3>1 DEF TypeKey, Echo
    <3> QED BY <2>1, <3>2 DEF Written
  <2>3. Shows(row', cursor_x', Line', p)
    BY <1>1, <1>2, <1>3, <2>1, <2>2, ShowsTyped
  <2>4. cursor_x' <= VGA_WIDTH
    BY <1>2, <2>1, <2>2, Constants
  <2> QED BY <1>1, <1>4, <2>3, <2>4, ScreenIsNext DEF IInv
<1> QED BY <1>5, <1>6

LEMMA BackspaceShows ==
  ASSUME IInv, IInv', Backspace, ScreenShowsLine
  PROVE  ScreenShowsLine'
<1>1. /\ Line \in Seq(Keys) /\ Line' = SubSeq(Line, 1, Len(Line) - 1)
      /\ Line' \in Seq(Keys)
  BY LineTyped, BackspaceErases
<1>2. /\ cursor_y = VGA_HEIGHT - 1 /\ cursor_x <= VGA_WIDTH
      /\ cursor_x \in Nat /\ row \in Rows
  BY DEF ScreenShowsLine, IInv, TypeOK, Rows, Cells
<1>3. PICK p \in 0 .. PROMPT_LEN : Shows(row, cursor_x, Line, p)
  BY <1>1, ScreenIs DEF IInv
<1>4. cursor_y' = VGA_HEIGHT - 1
  BY <1>2 DEF Backspace, EraseEcho
<1>5. CASE cursor_x = 0
  <2>1. cursor_x' = 0 /\ row' = row
    BY <1>5 DEF Backspace, EraseEcho
  <2>2. Len(Line') \in Nat
    BY <1>1
  <2>3. Shows(row, 0, Line', 0)
    BY <1>3, <1>5, <2>2 DEF Shows
  <2>4. 0 \in 0 .. PROMPT_LEN /\ 0 <= VGA_WIDTH
    BY Constants
  <2> QED BY <1>1, <1>4, <2>1, <2>3, <2>4, ScreenIsNext DEF IInv
<1>6. CASE cursor_x # 0
  <2>1. cursor_x > 0 /\ cursor_x - 1 \in Columns
    BY <1>2, <1>6, Constants DEF Columns
  <2>2. cursor_x' = cursor_x - 1 /\ row' = [row EXCEPT ![cursor_x - 1] = BLANK]
    BY <1>2, <1>6, <2>1, BottomCell DEF Backspace, EraseEcho, Written
  <2>3. \E q \in 0 .. PROMPT_LEN : Shows(row', cursor_x', Line', q)
    BY <1>1, <1>2, <1>3, <2>1, <2>2, ShowsErased
  <2>4. cursor_x' <= VGA_WIDTH
    BY <1>2, <2>2, Constants
  <2> QED BY <1>1, <1>4, <2>3, <2>4, ScreenIsNext DEF IInv
<1> QED BY <1>5, <1>6

LEMMA EnterYieldShows ==
  ASSUME IInv, IInv', EnterYield, ScreenShowsLine
  PROVE  ScreenShowsLine'
<1>1. Line \in Seq(Keys) /\ Line' = Line /\ Len(Line) \in Nat
  BY LineTyped, LineUnchanged DEF EnterYield
<1>2. cursor_y' = VGA_HEIGHT - 1 /\ cursor_x' = 0 /\ row' = Cleared
  BY DEF EnterYield, ScreenShowsLine
<1>3. Shows(Cleared, 0, Line, 0)
  BY <1>1 DEF Shows, Cleared
<1>4. 0 \in 0 .. PROMPT_LEN /\ 0 <= VGA_WIDTH
  BY Constants
<1> QED BY <1>1, <1>2, <1>3, <1>4, ScreenIsNext DEF IInv

\* The echo follows the line: no key takes a screen that shows the line to one
\* that does not, and every command that returns leaves one that does.
THEOREM EchoFollowsLine == Spec => EchoMatchesLine
<1>1. IInv /\ IInv' /\ KeyPress /\ ScreenShowsLine => ScreenShowsLine'
  <2> SUFFICES ASSUME IInv, IInv', KeyPress, ScreenShowsLine PROVE ScreenShowsLine'
    OBVIOUS
  <2>1. PICK key \in Translated : ShellKeyboardHandler(key)
    BY DEF KeyPress
  <2>2. CASE Enter
    BY <2>2, PromptShows DEF Enter, IInv
  <2> QED BY <2>1, <2>2, EnterYieldShows, BackspaceShows, TypeKeyShows
          DEF ShellKeyboardHandler
<1>2. IInv /\ IInv' /\ (Enter \/ YieldReturns) => ScreenShowsLine'
  BY PromptShows DEF Enter, YieldReturns, IInv
<1>3. IInv /\ IInv' =>
        [(KeyPress /\ ScreenShowsLine) \/ Enter \/ YieldReturns => ScreenShowsLine']_vars
  BY <1>1, <1>2
<1> QED BY <1>3, Invariance, PTL DEF EchoMatchesLine
=============================================================================
