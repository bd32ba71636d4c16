-------------------------- MODULE InterruptsProofs --------------------------
(***************************************************************************)
(* Proofs about Interrupts, for any tasks, devices and exceptions.         *)
(***************************************************************************)
EXTENDS Interrupts, SequenceTheorems, TLAPS

Gates == 0 .. 47
CalleeSaved == {1, 2, 3, 5}   \* positions in GP
Running == Len(Stages)

(***************************************************************************)
(* The inductive invariant: what start-up has done so far.                 *)
(***************************************************************************)

Chip1Waits == CASE sent \in {1, 2} -> 2 [] sent \in {3, 4} -> 3 [] sent \in {5, 6} -> 4 [] OTHER -> 0
Chip2Waits == CASE sent \in {2, 3} -> 2 [] sent \in {4, 5} -> 3 [] sent \in {6, 7} -> 4 [] OTHER -> 0

ChipsInv ==
  /\ stage < 4 => sent = 0
  /\ stage = 4 => sent < 10
  /\ stage > 4 => sent = 10
  /\ chip[1].icw = Chip1Waits /\ chip[2].icw = Chip2Waits
  /\ sent >= 3 => chip[1].offset = PIC_MASTER_OFFSET
  /\ sent >= 4 => chip[2].offset = PIC_SLAVE_OFFSET

TablesInv ==
  /\ gdt = IF stage = 1 THEN <<>> ELSE Busy(gdt_entries(TaskState))
  /\ stage > 1 => cs = KERNEL_CODE /\ ds = KERNEL_DATA /\ tr = TSS_SELECTOR
  /\ idt = IF stage <= 2 THEN {} ELSE Gates
  /\ \A v \in Vectors : interrupt_handlers[v] =
       CASE v = INT_PIT /\ stage > 5 -> "timer_tick"
         [] v = INT_KEYBOARD /\ stage > 6 -> "driver_keyboard_isr"
         [] OTHER -> "none"

\* Interrupts are on in tasks, once they were switched on, and never elsewhere.
FlagInv ==
  /\ at # "reset"
  /\ int_flag => stage = Running /\ at \in AllTasks
  /\ stage = Running /\ at \in AllTasks => int_flag
  /\ at \notin AllTasks => stage = Running

(***************************************************************************)
(* What lies on the stacks.                                                *)
(***************************************************************************)

\* From word k + 1 on, the frame of an interrupt of task t.
BaseFrame(s, k, t) ==
  /\ s[k + 9] \in Gates
  /\ s[k + 11] = t /\ s[k + 12] = KERNEL_CODE /\ s[k + 13] = TRUE
  /\ \A i \in 1 .. 8 : /\ s[k + i] \in Contents
                       /\ i # 4 => s[k + i] \in {Own(t)[GP[i]], <<>>}

\* The frame of an exception in a command, or of lol2, above the keyboard's.
NestedFrame(s, k, t) ==
  /\ \/ s[k + 11] = "driver_keyboard_isr" /\ s[k + 9] \in 0 .. 31
     \/ s[k + 11] = "handled" /\ s[k + 9] = INT_PIT
  /\ s[k + 12] = KERNEL_CODE /\ s[k + 13] = FALSE
  /\ \A i \in 1 .. 8 : s[k + i] \in Contents
  /\ \A i \in CalleeSaved : s[k + i] = InHandler(t)[GP[i]]
  /\ BaseFrame(s, k + 13, t) /\ s[k + 22] = INT_KEYBOARD

Frames(s, k, t) ==
  \/ Len(s) = k + 13 /\ BaseFrame(s, k, t)
  \/ Len(s) = k + 26 /\ NestedFrame(s, k, t)

\* A task that another one was chosen over, and one that never ran.
Suspended(s, t) ==
  /\ s[5] = "handled" /\ Frames(s, 5, t)
  /\ s[1] = InHandler(t)["edi"] /\ s[2] = InHandler(t)["esi"]
  /\ s[3] = InHandler(t)["ebx"] /\ s[4] = InHandler(t)["ebp"]

New(s, t) ==
  /\ Len(s) = 18 /\ s[5] = "isr_exit" /\ BaseFrame(s, 5, t)
  /\ \A i \in 1 .. 4 : s[i] = <<>>

Interrupted == {"isr_handler", "timer_tick", "driver_keyboard_isr", "handled"}

StacksInv ==
  /\ at \in AllTasks => at = current_task /\ stack[current_task] = <<>>
  /\ at \notin AllTasks => Frames(stack[current_task], 0, current_task)
  /\ at \in {"driver_keyboard_isr", "isr_exit"} => Len(stack[current_task]) = 13
  /\ at = "driver_keyboard_isr" => int_num = INT_KEYBOARD
  /\ at = "timer_tick" => int_num = INT_PIT
  /\ \A t \in AllTasks \ {current_task} :
       stack[t] = <<>> \/ Suspended(stack[t], t) \/ New(stack[t], t)

RegistersInv ==
  /\ at \in AllTasks => \A r \in Registers \ {"esp"} : regs[r] \in {Own(at)[r], <<>>}
  /\ at \in Interrupted =>
       \A i \in CalleeSaved : regs[GP[i]] = InHandler(current_task)[GP[i]]

(***************************************************************************)
(* Which lines are in service.                                             *)
(***************************************************************************)

InServiceSets == {{}} \cup {{l} : l \in 0 .. 7} \cup {{2, l} : l \in 8 .. 15}

ServiceInv ==
  /\ irr \subseteq Devices
  /\ in_service \in InServiceSets
  /\ at \in AllTasks \cup {"timer_tick", "isr_exit"} => in_service = {}
  /\ at = "driver_keyboard_isr" => in_service \subseteq {1}
  /\ at \in {"isr_handler", "handled"} /\ int_num < 32 => in_service \subseteq {1}
  /\ at = "isr_handler" /\ int_num = INT_KEYBOARD => in_service \subseteq {1}

\* The words on the stacks, whatever their place.
Word == Contents \cup Vectors \cup AllTasks \cup Places \cup BOOLEAN

Shape == ChipsInv /\ TablesInv /\ FlagInv /\ StacksInv /\ RegistersInv /\ ServiceInv

IInv == TypeOK /\ stack \in [AllTasks -> Seq(Word)] /\ Shape

(***************************************************************************)
(* Constants, registers and descriptors.                                   *)
(***************************************************************************)

\* The assumption on the constants in the form the proofs cite.
LEMMA Constants ==
  /\ Idle \in AllTasks /\ Tasks \subseteq AllTasks /\ AllTasks = Tasks \cup {Idle}
  /\ \A t \in AllTasks : t \notin Places
  /\ Devices \subseteq Lines /\ 2 \notin Devices
  /\ Exceptions \subseteq 0 .. 31
BY InterruptsAssumption DEF AllTasks

LEMMA Start == Running = 8 /\ Len(pic_init) = 10
BY DEF Running, Stages, pic_init

LEMMA Registered ==
  /\ DOMAIN GP = 1 .. 8
  /\ \A i \in 1 .. 8 : GP[i] \in Registers
  /\ \A i, j \in 1 .. 8 : GP[i] = GP[j] => i = j
  /\ GP[1] = "edi" /\ GP[2] = "esi" /\ GP[3] = "ebp" /\ GP[4] = "esp" /\ GP[5] = "ebx"
  /\ \A r \in Registers : r # "esp" => \E i \in 1 .. 8 : i # 4 /\ GP[i] = r
BY DEF GP, Registers

LEMMA Numbers ==
  /\ INT_PIT = 32 /\ INT_KEYBOARD = 33 /\ PIC_MASTER_OFFSET = 32 /\ PIC_SLAVE_OFFSET = 40
  /\ KERNEL_CODE = 8 /\ KERNEL_DATA = 16 /\ TSS_SELECTOR = 40 /\ GATE_SELECTOR = 8
BY DEF INT_PIT, INT_KEYBOARD, PIC_MASTER_OFFSET, PIC_SLAVE_OFFSET, KERNEL_CODE, KERNEL_DATA,
       TSS_SELECTOR, GATE_SELECTOR

\* The entries the three selectors name, before and after ltr.
LEMMA Entries ==
  LET table == gdt_entries(TaskState)
  IN  /\ Selected(table, 8) = gdt_encode_entry(Zero, Ones, 207, Code(0))
      /\ Selected(table, 16) = gdt_encode_entry(Zero, Ones, 207, DataOf(0))
      /\ Selected(table, 40) = gdt_encode_entry(TaskState, <<TSS_SIZE, 0, 0, 0>>, 64, 137)
      /\ Selected(Busy(table), 8) = Selected(table, 8)
      /\ Selected(Busy(table), 16) = Selected(table, 16)
      /\ Selected(Busy(table), 40) = [Selected(table, 40) EXCEPT !.access_flags = @ + 2]
<1> DEFINE table == gdt_entries(TaskState)
<1>1. /\ 8 \div 8 = 1 /\ 16 \div 8 = 2 /\ 40 \div 8 = 5
  BY SMT
<1>2. /\ Len(table) = 6 /\ DOMAIN table = 1 .. 6
      /\ table[2] = gdt_encode_entry(Zero, Ones, 207, Code(0))
      /\ table[3] = gdt_encode_entry(Zero, Ones, 207, DataOf(0))
      /\ table[6] = gdt_encode_entry(TaskState, <<TSS_SIZE, 0, 0, 0>>, 64, 137)
  BY DEF gdt_entries
<1>3. /\ Busy(table)[2] = table[2] /\ Busy(table)[3] = table[3]
      /\ Busy(table)[6] = [table[6] EXCEPT !.access_flags = @ + 2]
  BY <1>2 DEF Busy
<1> QED BY <1>1, <1>2, <1>3 DEF Selected

LEMMA Encoded ==
  /\ \A code \in {Code(0), DataOf(0)} :
       LET e == gdt_encode_entry(Zero, Ones, 207, code)
       IN  Flat(e) /\ e.access_flags = code
  /\ LET e == gdt_encode_entry(TaskState, <<TSS_SIZE, 0, 0, 0>>, 64, 137)
         b == [e EXCEPT !.access_flags = @ + 2]
     IN  /\ e.access_flags = 137
         /\ Base(b) = TaskState /\ Limit(b)[1] = TSS_SIZE
<1>1. /\ 207 \div 16 = 12 /\ 64 \div 16 = 4 /\ 255 % 16 = 15 /\ 0 % 16 = 0
      /\ 255 \div 16 = 15
      /\ (15 + 16 * 12) % 16 = 15 /\ (0 + 16 * 4) % 16 = 0
  BY SMT
<1>2. ASSUME NEW code \in {Code(0), DataOf(0)}
      PROVE  LET e == gdt_encode_entry(Zero, Ones, 207, code)
             IN  Flat(e) /\ e.access_flags = code
  <2> DEFINE e == gdt_encode_entry(Zero, Ones, 207, code)
  <2>1. /\ e.base_low = <<0, 0>> /\ e.base_middle = 0 /\ e.base_high = 0
        /\ e.limit_low = <<255, 255>> /\ e.granularity = 15 + 16 * 12
        /\ e.access_flags = code
    BY <1>1 DEF gdt_encode_entry, Zero, Ones
  <2>2. Base(e) = <<0, 0, 0, 0>>
    BY <2>1 DEF Base
  <2>3. Limit(e) = <<255, 255, 255, 255>>
    BY <2>1, <1>1 DEF Limit
  <2> QED BY <2>1, <2>2, <2>3 DEF Flat
<1>3. LET e == gdt_encode_entry(TaskState, <<TSS_SIZE, 0, 0, 0>>, 64, 137)
          b == [e EXCEPT !.access_flags = @ + 2]
      IN  /\ e.access_flags = 137
          /\ Base(b) = TaskState /\ Limit(b)[1] = TSS_SIZE
  <2> DEFINE e == gdt_encode_entry(TaskState, <<TSS_SIZE, 0, 0, 0>>, 64, 137)
             b == [e EXCEPT !.access_flags = @ + 2]
  <2>1. e = [limit_low |-> <<TSS_SIZE, 0>>, base_low |-> <<TaskState[1], TaskState[2]>>,
             base_middle |-> TaskState[3], access_flags |-> 137,
             granularity |-> 0 + 16 * 4, base_high |-> TaskState[4]]
    BY <1>1 DEF gdt_encode_entry
  <2>2. /\ b.base_low = <<TaskState[1], TaskState[2]>> /\ b.base_middle = TaskState[3]
        /\ b.base_high = TaskState[4] /\ b.limit_low = <<TSS_SIZE, 0>>
        /\ b.granularity = 0 + 16 * 4
    BY <2>1
  <2>3. Base(b) = TaskState
    BY <2>2, InterruptsAssumption DEF Base
  <2>4. Limit(b)[1] = TSS_SIZE
    BY <2>2, <1>1 DEF Limit
  <2> QED BY <2>1, <2>3, <2>4
<1> QED BY <1>2, <1>3

\* The processor accepts what gdt_init loads.
LEMMA Accepted ==
  LET table == gdt_entries(TaskState)
  IN  /\ IsCode(Selected(table, KERNEL_CODE)) /\ IsData(Selected(table, KERNEL_DATA))
      /\ IsFreeTSS(Selected(table, TSS_SELECTOR))
      /\ IsCode(Selected(Busy(table), GATE_SELECTOR))
<1>1. Code(0) = 154 /\ DataOf(0) = 146
  BY DEF Code, DataOf, GDT_ACCESS_TYPE_SEGMENT, GDT_ACCESS_PRESENT, GDT_ACCESS_EXECUTABLE,
         GDT_ACCESS_READABLE, GDT_ACCESS_WRITABLE
<1>2. /\ (154 \div 32) % 4 = 0 /\ (154 \div 16) % 2 = 1 /\ (154 \div 8) % 2 = 1
      /\ (146 \div 16) % 2 = 1 /\ (146 \div 8) % 2 = 0 /\ (146 \div 2) % 2 = 1
      /\ 137 % 32 = 9
  BY SMT
<1> QED
  BY <1>1, <1>2, Entries, Encoded, Numbers
  DEF IsCode, IsData, IsFreeTSS, Present, Privilege, IsSegment, Executable, Writable

(***************************************************************************)
(* Words, and frames on top of a stack.                                    *)
(***************************************************************************)

LEMMA Words ==
  /\ Contents \subseteq Word /\ AllTasks \subseteq Word /\ Places \subseteq Word
  /\ \A v \in Vectors : v \in Word
  /\ \A b \in BOOLEAN : b \in Word
  /\ <<>> \in Contents
  /\ \A t \in AllTasks, r \in Registers : Own(t)[r] \in Contents /\ InHandler(t)[r] \in Contents
BY DEF Word, Contents, Own, InHandler

LEMMA Pushed ==
  ASSUME NEW f \in Seq(Word), NEW s \in Seq(Word)
  PROVE  /\ f \o s \in Seq(Word) /\ Len(f \o s) = Len(f) + Len(s)
         /\ \A i \in 1 .. Len(f) : (f \o s)[i] = f[i]
         /\ \A i \in 1 .. Len(s) : (f \o s)[Len(f) + i] = s[i]
BY ConcatProperties

LEMMA Underneath ==
  ASSUME NEW x \in Seq(Word), NEW d \in Seq(Word), Len(x) = 10, Len(d) = 3
  PROVE  /\ x \o d \in Seq(Word) /\ Len(x \o d) = 13
         /\ \A i \in 1 .. 10 : (x \o d)[i] = x[i]
         /\ (x \o d)[11] = d[1] /\ (x \o d)[12] = d[2] /\ (x \o d)[13] = d[3]
<1>1. x \o d \in Seq(Word) /\ Len(x \o d) = Len(x) + Len(d)
  BY Pushed
<1>2. \A i \in 1 .. Len(x) : (x \o d)[i] = x[i]
  BY Pushed
<1>3. \A i \in 1 .. Len(d) : (x \o d)[Len(x) + i] = d[i]
  BY Pushed
<1>4. /\ (x \o d)[Len(x) + 1] = d[1] /\ (x \o d)[Len(x) + 2] = d[2]
      /\ (x \o d)[Len(x) + 3] = d[3]
  <2>1. 1 \in 1 .. Len(d) /\ 2 \in 1 .. Len(d) /\ 3 \in 1 .. Len(d)
    OBVIOUS
  <2> QED BY <2>1, <1>3, Zenon
<1>5. Len(x) + 1 = 11 /\ Len(x) + 2 = 12 /\ Len(x) + 3 = 13 /\ Len(x) + Len(d) = 13
  OBVIOUS
<1> QED BY <1>1, <1>2, <1>4, <1>5

\* Every gate's frame has thirteen words, whether or not the CPU pushes an
\* error code.
LEMMA FrameWords ==
  ASSUME TypeOK, NEW v \in Gates, NEW eip \in AllTasks \cup Places
  PROVE  /\ Frame(v, eip) \in Seq(Word) /\ Len(Frame(v, eip)) = 13
         /\ \A i \in 1 .. 8 : Frame(v, eip)[i] = regs[GP[i]]
         /\ Frame(v, eip)[9] = v /\ Frame(v, eip)[11] = eip
         /\ Frame(v, eip)[12] = cs /\ Frame(v, eip)[13] = int_flag
<1> DEFINE A == [i \in 1 .. 8 |-> regs[GP[i]]]
           B == Stub(v)
           C == IF HasErrorCode(v) THEN <<0>> ELSE <<>>
           D == <<eip, cs, int_flag>>
<1>1. A \in Seq(Word) /\ Len(A) = 8
  <2>1. \A i \in 1 .. 8 : regs[GP[i]] \in Word
    BY Registered, Words DEF TypeOK
  <2> QED BY <2>1
<1>2. v \in Word /\ 0 \in Word /\ (v >= 32 => v - 32 \in Word)
  <2>1. v \in Vectors /\ 0 \in Vectors /\ (v >= 32 => v - 32 \in Vectors)
    BY DEF Gates, Vectors
  <2> QED BY <2>1, Words
<1>3. D \in Seq(Word) /\ Len(D) = 3 /\ D[1] = eip /\ D[2] = cs /\ D[3] = int_flag
  <2>1. eip \in Word /\ cs \in Word /\ int_flag \in Word
    <3>1. cs \in Vectors /\ int_flag \in BOOLEAN
      BY DEF TypeOK, Byte, Vectors
    <3> QED BY <3>1, Words
  <2> QED BY <2>1
<1>4. /\ B \in Seq(Word) /\ C \in Seq(Word) /\ B[1] = v
      /\ Len(B) + Len(C) = 2 /\ Len(B) \in 1 .. 2
  <2>1. CASE HasErrorCode(v)
    <3>1. B = <<v>> /\ C = <<0>>
      BY <2>1 DEF HasErrorCode, Stub, ExceptionStub
    <3>2. <<v>> \in Seq(Word) /\ <<0>> \in Seq(Word)
      BY <1>2
    <3> QED BY <3>1, <3>2
  <2>2. CASE ~HasErrorCode(v)
    <3>1. C = <<>> /\ (B = <<v, 0>> \/ (v >= 32 /\ B = <<v, v - 32>>))
      BY <2>2 DEF HasErrorCode, Stub, ExceptionStub, LineStub, Gates
    <3>2. <<>> \in Seq(Word) /\ Len(<<>>) = 0
      BY EmptySeq
    <3>3. /\ <<v, 0>> \in Seq(Word)
          /\ v >= 32 => <<v, v - 32>> \in Seq(Word)
      BY <1>2
    <3>4. CASE B = <<v, 0>>
      BY <3>1, <3>2, <3>3, <3>4
    <3>5. CASE v >= 32 /\ B = <<v, v - 32>>
      BY <3>1, <3>2, <3>3, <3>5
    <3> QED BY <3>1, <3>4, <3>5
  <2> QED BY <2>1, <2>2
<1>5. /\ A \o B \in Seq(Word) /\ Len(A \o B) = 8 + Len(B)
      /\ \A i \in 1 .. 8 : (A \o B)[i] = A[i]
      /\ (A \o B)[9] = v
  BY <1>1, <1>4
<1> HIDE DEF A, B, C, D
<1>6. /\ A \o B \o C \in Seq(Word) /\ Len(A \o B \o C) = 10
      /\ \A i \in 1 .. 8 : (A \o B \o C)[i] = A[i]
      /\ (A \o B \o C)[9] = v
  <2>1. /\ A \o B \o C \in Seq(Word) /\ Len(A \o B \o C) = Len(A \o B) + Len(C)
        /\ \A i \in 1 .. Len(A \o B) : (A \o B \o C)[i] = (A \o B)[i]
    BY <1>4, <1>5, Pushed
  <2>2. /\ Len(A \o B) + Len(C) = 10
        /\ 9 \in 1 .. Len(A \o B) /\ \A i \in 1 .. 8 : i \in 1 .. Len(A \o B)
    <3>1. Len(B) \in Nat /\ Len(C) \in Nat
      BY <1>4
    <3>2. 8 + Len(B) + Len(C) = 10 /\ 9 \in 1 .. 8 + Len(B)
      BY <3>1, <1>4
    <3>3. \A i \in 1 .. 8 : i \in 1 .. 8 + Len(B)
      BY <3>1
    <3> QED BY <3>2, <3>3, <1>5
  <2> QED BY <2>1, <2>2, <1>5
<1>7. /\ A \o B \o C \o D \in Seq(Word) /\ Len(A \o B \o C \o D) = 13
      /\ \A i \in 1 .. 8 : (A \o B \o C \o D)[i] = A[i]
      /\ (A \o B \o C \o D)[9] = v
      /\ (A \o B \o C \o D)[11] = D[1] /\ (A \o B \o C \o D)[12] = D[2]
      /\ (A \o B \o C \o D)[13] = D[3]
  <2>1. D \in Seq(Word) /\ Len(D) = 3
    BY <1>3
  <2>2. ASSUME NEW x \in Seq(Word), Len(x) = 10,
               \A i \in 1 .. 8 : x[i] = A[i], x[9] = v
        PROVE  /\ x \o D \in Seq(Word) /\ Len(x \o D) = 13
               /\ \A i \in 1 .. 8 : (x \o D)[i] = A[i]
               /\ (x \o D)[9] = v
               /\ (x \o D)[11] = D[1] /\ (x \o D)[12] = D[2] /\ (x \o D)[13] = D[3]
    <3>1. /\ x \o D \in Seq(Word) /\ Len(x \o D) = 13
          /\ \A i \in 1 .. 10 : (x \o D)[i] = x[i]
          /\ (x \o D)[11] = D[1] /\ (x \o D)[12] = D[2] /\ (x \o D)[13] = D[3]
      BY <2>1, <2>2, Underneath
    <3>2. 9 \in 1 .. 10 /\ \A i \in 1 .. 8 : i \in 1 .. 10
      OBVIOUS
    <3> QED BY <3>1, <3>2, <2>2
  <2> QED BY <1>6, <2>2
<1> QED BY <1>3, <1>7 DEF Frame, A, B, C, D

\* The rest of a stack, from word m + 1 on.
LEMMA Popped ==
  ASSUME NEW s \in Seq(Word), NEW m \in Nat, m <= Len(s)
  PROVE  /\ SubSeq(s, m + 1, Len(s)) \in Seq(Word)
         /\ Len(SubSeq(s, m + 1, Len(s))) = Len(s) - m
         /\ \A i \in 1 .. Len(s) - m : SubSeq(s, m + 1, Len(s))[i] = s[m + i]
         /\ m = Len(s) => SubSeq(s, m + 1, Len(s)) = <<>>
<1>1. \A i \in m + 1 .. Len(s) : s[i] \in Word
  BY ElementOfSeq
<1>2. /\ SubSeq(s, m + 1, Len(s)) \in Seq(Word)
      /\ Len(SubSeq(s, m + 1, Len(s))) = IF m + 1 <= Len(s) THEN Len(s) - (m + 1) + 1 ELSE 0
      /\ \A i \in 1 .. Len(s) - (m + 1) + 1 : SubSeq(s, m + 1, Len(s))[i] = s[m + 1 + i - 1]
  BY <1>1, SubSeqProperties
<1>3. m = Len(s) => SubSeq(s, m + 1, Len(s)) = <<>>
  BY SubSeqEmpty
<1>4. \A i \in 1 .. Len(s) - m : m + 1 + i - 1 = m + i
  OBVIOUS
<1> QED BY <1>2, <1>3, <1>4

\* Frames keep their meaning when words are pushed on them or popped.
LEMMA BaseMoved ==
  ASSUME NEW s, NEW s2, NEW k \in Nat, NEW k2 \in Nat, NEW t, BaseFrame(s, k, t),
         \A i \in 1 .. 13 : s2[k2 + i] = s[k + i]
  PROVE  BaseFrame(s2, k2, t)
<1>1. /\ s2[k2 + 9] = s[k + 9] /\ s2[k2 + 11] = s[k + 11]
      /\ s2[k2 + 12] = s[k + 12] /\ s2[k2 + 13] = s[k + 13]
  OBVIOUS
<1>2. \A i \in 1 .. 8 : s2[k2 + i] = s[k + i]
  OBVIOUS
<1> QED BY <1>1, <1>2 DEF BaseFrame

LEMMA Moved ==
  ASSUME NEW s, NEW s2, NEW k \in Nat, NEW k2 \in Nat, NEW t, Frames(s, k, t),
         Len(s2) = Len(s) - k + k2,
         \A i \in 1 .. Len(s) - k : s2[k2 + i] = s[k + i]
  PROVE  Frames(s2, k2, t) /\ (Len(s) = k + 13 => Len(s2) = k2 + 13)
<1>1. ASSUME NEW j \in {0, 13}, BaseFrame(s, k + j, t), Len(s) = k + j + 13
      PROVE  BaseFrame(s2, k2 + j, t)
  <2>1. \A i \in 1 .. 13 : s2[k2 + j + i] = s[k + j + i]
    <3> TAKE i \in 1 .. 13
    <3>1. j + i \in 1 .. Len(s) - k
      <4>1. j \in Nat /\ Len(s) - k = j + 13
        BY <1>1
      <4> QED BY <4>1
    <3>2. s2[k2 + (j + i)] = s[k + (j + i)]
      BY <3>1
    <3>3. k2 + j + i = k2 + (j + i) /\ k + j + i = k + (j + i)
      BY <1>1
    <3> QED BY <3>2, <3>3
  <2>2. k2 + j \in Nat /\ k + j \in Nat
    BY <1>1
  <2> QED BY <1>1, <2>1, <2>2, BaseMoved
<1>2. CASE Len(s) = k + 13 /\ BaseFrame(s, k, t)
  <2>1. BaseFrame(s2, k2, t)
    <3>1. k + 0 = k /\ k2 + 0 = k2 /\ Len(s) = k + 0 + 13
      BY <1>2
    <3> QED BY <1>1, <1>2, <3>1
  <2> QED BY <1>2, <2>1 DEF Frames
<1>3. CASE Len(s) = k + 26 /\ NestedFrame(s, k, t)
  <2>1. \A i \in 1 .. 26 : s2[k2 + i] = s[k + i]
    BY <1>3
  <2>2. BaseFrame(s2, k2 + 13, t)
    <3>1. Len(s) = k + 13 + 13 /\ BaseFrame(s, k + 13, t)
      BY <1>3 DEF NestedFrame
    <3> QED BY <1>1, <3>1
  <2>3. NestedFrame(s2, k2, t)
    <3>1. /\ s2[k2 + 9] = s[k + 9] /\ s2[k2 + 11] = s[k + 11] /\ s2[k2 + 12] = s[k + 12]
          /\ s2[k2 + 13] = s[k + 13] /\ s2[k2 + 22] = s[k + 22]
          /\ \A i \in 1 .. 8 : s2[k2 + i] = s[k + i]
      BY <2>1
    <3>2. \A i \in CalleeSaved : s2[k2 + i] = s[k + i]
      <4>1. CalleeSaved \subseteq 1 .. 8
        BY DEF CalleeSaved
      <4> QED BY <4>1, <3>1
    <3> QED BY <1>3, <2>2, <3>1, <3>2 DEF NestedFrame
  <2> QED BY <1>3, <2>3 DEF Frames
<1> QED BY <1>2, <1>3 DEF Frames

(***************************************************************************)
(* Lines in service.                                                       *)
(***************************************************************************)

LEMMA HighestIn ==
  ASSUME NEW S, S \subseteq Lines, S # {}
  PROVE  Highest(S) \in S /\ \A k \in S : Highest(S) <= k
<1>1. ASSUME ~ \E l \in S : \A k \in S : l <= k
      PROVE  FALSE
  <2> DEFINE None(n) == \A l \in Lines : l < n => l \notin S
  <2>1. ASSUME NEW n \in Nat, None(n)
        PROVE  None(n + 1)
    BY <1>1, <2>1 DEF Lines
  <2>2. None(0)
    BY DEF Lines
  <2> HIDE DEF None
  <2>3. ASSUME NEW n \in Nat, None(n)
        PROVE  None(n + 4)
    <3>1. None(n + 1) /\ None(n + 1 + 1) /\ None(n + 1 + 1 + 1) /\ None(n + 1 + 1 + 1 + 1)
      BY <2>1, <2>3
    <3>2. n + 1 + 1 + 1 + 1 = n + 4
      OBVIOUS
    <3> QED BY <3>1, <3>2
  <2>4. None(0 + 4 + 4 + 4 + 4)
    BY <2>2, <2>3
  <2>5. 0 + 4 + 4 + 4 + 4 = 16
    OBVIOUS
  <2>6. None(16)
    BY <2>4, <2>5
  <2>7. \A l \in Lines : l < 16
    BY DEF Lines
  <2>8. \A l \in Lines : l \notin S
    BY <2>6, <2>7 DEF None
  <2> QED BY <2>8
<1> QED BY <1>1 DEF Highest

LEMMA HighestOne ==
  ASSUME NEW l \in Lines
  PROVE  Highest({l}) = l
BY HighestIn

\* The commands Return sends end whatever a handler left in service.
LEMMA ServiceEnds ==
  ASSUME NEW v \in Gates, in_service \in InServiceSets, v >= 8 \/ in_service \subseteq {1}
  PROVE  Ended(1, IF v >= 8 THEN Ended(2, in_service) ELSE in_service) = {}
<1>1. \A c \in 1 .. 2 : Ended(c, {}) = {}
  BY DEF Ended
<1>2. ASSUME NEW l \in 0 .. 7
      PROVE  Ended(1, {l}) = {} /\ Ended(2, {l}) = {l}
  <2>1. l \in Lines /\ ChipOf(l) = 1 /\ Highest({l}) = l
    BY HighestOne DEF Lines, ChipOf
  <2>2. /\ {k \in {l} : ChipOf(k) = 1} = {l}
        /\ {k \in {l} : ChipOf(k) = 2} = {}
    BY <2>1
  <2> QED BY <2>1, <2>2 DEF Ended
<1>3. ASSUME NEW l \in 8 .. 15
      PROVE  Ended(2, {2, l}) = {2}
  <2>1. l \in Lines /\ ChipOf(l) = 2 /\ Highest({l}) = l /\ ChipOf(2) = 1 /\ l # 2
    BY HighestOne DEF Lines, ChipOf
  <2>2. {k \in {2, l} : ChipOf(k) = 2} = {l}
    BY <2>1
  <2>3. {2, l} \ {l} = {2}
    BY <2>1
  <2> QED BY <2>1, <2>2, <2>3 DEF Ended
<1>4. CASE in_service = {}
  BY <1>4, <1>1
<1>5. ASSUME NEW l \in 0 .. 7, in_service = {l}
      PROVE  Ended(1, IF v >= 8 THEN Ended(2, in_service) ELSE in_service) = {}
  BY <1>5, <1>2
<1>6. ASSUME NEW l \in 8 .. 15, in_service = {2, l}
      PROVE  Ended(1, IF v >= 8 THEN Ended(2, in_service) ELSE in_service) = {}
  <2>1. v >= 8
    BY <1>6
  <2>2. Ended(1, {2}) = {}
    BY <1>2
  <2> QED BY <1>3, <1>6, <2>1, <2>2
<1> QED BY <1>4, <1>5, <1>6 DEF InServiceSets

(***************************************************************************)
(* Into the handler.                                                       *)
(***************************************************************************)

\* The CPU stays on its feet: gates and segments are as start-up left them.
LEMMA Entering ==
  ASSUME IInv, stage = Running, NEW v \in Gates, NEW eip \in AllTasks \cup Places,
         Enter(v, eip)
  PROVE  /\ stack' = [stack EXCEPT ![current_task] = Frame(v, eip) \o @]
         /\ at' = "isr_handler" /\ int_flag' = FALSE
         /\ regs' = InHandler(current_task) /\ cs' = KERNEL_CODE
         /\ current_task' = current_task
         /\ stack'[current_task] = Frame(v, eip) \o stack[current_task]
         /\ stack' \in [AllTasks -> Seq(Word)]
         /\ \A t \in AllTasks \ {current_task} : stack'[t] = stack[t]
<1>1. stage = 8
  BY Start
<1>2. idt = Gates /\ gdt = Busy(gdt_entries(TaskState))
  BY <1>1 DEF IInv, Shape, TablesInv
<1>3. IsCode(Selected(gdt, GATE_SELECTOR))
  BY <1>2, Accepted
<1>4. /\ stack' = [stack EXCEPT ![current_task] = Frame(v, eip) \o @]
      /\ at' = "isr_handler" /\ int_flag' = FALSE
      /\ regs' = InHandler(current_task) /\ cs' = GATE_SELECTOR
      /\ current_task' = current_task
  <2>1. v \in idt /\ stage > 3
    BY <1>1, <1>2
  <2> QED BY <2>1, <1>3 DEF Enter
<1>5. /\ stack \in [AllTasks -> Seq(Word)] /\ current_task \in AllTasks
      /\ Frame(v, eip) \in Seq(Word)
  BY FrameWords DEF IInv, TypeOK
<1>6. Frame(v, eip) \o stack[current_task] \in Seq(Word)
  BY <1>5, Pushed
<1> QED BY <1>4, <1>5, <1>6, Numbers

LEMMA EnteredFromTask ==
  ASSUME IInv, stage = Running, at \in AllTasks, NEW v \in Gates, Enter(v, at)
  PROVE  /\ BaseFrame(stack'[current_task], 0, current_task)
         /\ Len(stack'[current_task]) = 13 /\ stack'[current_task][9] = v
<1> DEFINE s == stack'[current_task]
<1>1. /\ at = current_task /\ stack[current_task] = <<>> /\ int_flag = TRUE
      /\ at \in AllTasks \cup Places
      /\ cs = KERNEL_CODE /\ current_task \in AllTasks /\ TypeOK
      /\ \A r \in Registers \ {"esp"} : regs[r] \in {Own(at)[r], <<>>}
  BY Start DEF IInv, Shape, StacksInv, FlagInv, TablesInv, RegistersInv, TypeOK
<1>2. s = Frame(v, at) \o <<>>
  BY <1>1, Entering
<1>3. /\ Frame(v, at) \in Seq(Word) /\ Len(Frame(v, at)) = 13
      /\ \A i \in 1 .. 8 : Frame(v, at)[i] = regs[GP[i]]
      /\ Frame(v, at)[9] = v /\ Frame(v, at)[11] = at
      /\ Frame(v, at)[12] = cs /\ Frame(v, at)[13] = int_flag
  <2>1. TypeOK /\ at \in AllTasks \cup Places
    BY <1>1
  <2> QED BY <2>1, FrameWords
<1>4. s = Frame(v, at)
  BY <1>2, <1>3, ConcatEmptySeq
<1>5. \A i \in 1 .. 8 : /\ s[i] \in Contents
                        /\ i # 4 => s[i] \in {Own(at)[GP[i]], <<>>}
  <2> TAKE i \in 1 .. 8
  <2>1. GP[i] \in Registers /\ (i # 4 => GP[i] # "esp")
    BY Registered
  <2>2. regs[GP[i]] \in Contents
    BY <2>1, <1>1 DEF TypeOK
  <2> QED BY <1>1, <1>3, <1>4, <2>1, <2>2
<1>6. BaseFrame(s, 0, current_task)
  <2>1. s[9] \in Gates /\ s[11] = current_task /\ s[12] = KERNEL_CODE /\ s[13] = TRUE
    BY <1>1, <1>3, <1>4
  <2> HIDE DEF s
  <2> QED BY <1>1, <1>5, <2>1 DEF BaseFrame
<1> QED BY <1>3, <1>4, <1>6

LEMMA EnteredFromCommand ==
  ASSUME IInv, at = "driver_keyboard_isr", NEW v \in Gates, NEW eip, Enter(v, eip),
         \/ eip = "driver_keyboard_isr" /\ v \in 0 .. 31
         \/ eip = "handled" /\ v = INT_PIT
  PROVE  /\ NestedFrame(stack'[current_task], 0, current_task)
         /\ Len(stack'[current_task]) = 26 /\ stack'[current_task][9] = v
<1> DEFINE old == stack[current_task]
           f == Frame(v, eip)
           s == f \o old
<1>1. at \notin AllTasks /\ eip \in Places /\ at \in Interrupted
  BY Constants DEF Places, Interrupted
<1>2. /\ stage = Running /\ ~int_flag /\ cs = KERNEL_CODE /\ current_task \in AllTasks /\ TypeOK
      /\ old \in Seq(Word)
      /\ Frames(old, 0, current_task) /\ Len(old) = 13 /\ old[9] = INT_KEYBOARD
      /\ \A i \in CalleeSaved : regs[GP[i]] = InHandler(current_task)[GP[i]]
  BY <1>1, Start DEF IInv, Shape, StacksInv, FlagInv, TablesInv, RegistersInv, TypeOK, int_num
<1>3. stack'[current_task] = s
  BY <1>1, <1>2, Entering
<1>4. /\ f \in Seq(Word) /\ Len(f) = 13
      /\ \A i \in 1 .. 8 : f[i] = regs[GP[i]]
      /\ f[9] = v /\ f[11] = eip /\ f[12] = cs /\ f[13] = int_flag
  BY <1>1, <1>2, FrameWords
<1> HIDE DEF f, old
<1>5. Len(s) = 26
  <2>1. Len(s) = Len(f) + Len(old)
    BY <1>2, <1>4, Pushed
  <2> QED BY <2>1, <1>2, <1>4
<1>6. /\ \A i \in 1 .. 13 : s[i] = f[i]
      /\ \A i \in 1 .. 13 : s[13 + i] = old[i]
  <2>1. /\ \A i \in 1 .. Len(f) : s[i] = f[i]
        /\ \A i \in 1 .. Len(old) : s[Len(f) + i] = old[i]
    BY <1>2, <1>4, Pushed
  <2> QED BY <1>2, <1>4, <2>1
<1> HIDE DEF s
<1>7. BaseFrame(s, 13, current_task)
  <2>1. BaseFrame(old, 0, current_task)
    BY <1>2 DEF Frames
  <2>2. \A i \in 1 .. 13 : s[13 + i] = old[0 + i]
    <3>1. \A i \in 1 .. 13 : 0 + i = i
      OBVIOUS
    <3> QED BY <3>1, <1>6
  <2> QED BY <2>1, <2>2, BaseMoved
<1>8. s[22] = INT_KEYBOARD
  <2>1. s[13 + 9] = old[9]
    BY <1>6
  <2> QED BY <2>1, <1>2
<1>9. \A i \in 1 .. 8 : s[i] \in Contents
  <2> TAKE i \in 1 .. 8
  <2>1. s[i] = f[i] /\ f[i] = regs[GP[i]]
    <3>1. i \in 1 .. 13
      OBVIOUS
    <3>2. s[i] = f[i]
      BY <3>1, <1>6
    <3>3. f[i] = regs[GP[i]]
      BY <1>4
    <3> QED BY <3>2, <3>3
  <2>2. GP[i] \in Registers
    BY Registered
  <2> QED BY <2>1, <2>2, <1>2 DEF TypeOK
<1>10. \A i \in CalleeSaved : s[i] = InHandler(current_task)[GP[i]]
  <2>1. CalleeSaved \subseteq 1 .. 8
    BY DEF CalleeSaved
  <2>2. ASSUME NEW i \in 1 .. 8
        PROVE  s[i] = regs[GP[i]]
    <3>1. i \in 1 .. 13
      OBVIOUS
    <3>2. s[i] = f[i]
      BY <3>1, <1>6
    <3>3. f[i] = regs[GP[i]]
      BY <1>4
    <3> QED BY <3>2, <3>3
  <2> QED BY <2>1, <2>2, <1>2
<1>11. s[9] = v /\ s[11] = eip /\ s[12] = KERNEL_CODE /\ s[13] = FALSE
  <2>1. f[13] = FALSE
    BY <1>2, <1>4 DEF TypeOK
  <2>2. s[9] = f[9] /\ s[11] = f[11] /\ s[12] = f[12] /\ s[13] = f[13]
    BY <1>6
  <2> QED BY <2>1, <2>2, <1>2, <1>4
<1>12. NestedFrame(s, 0, current_task)
  <2>1. 0 + 9 = 9 /\ 0 + 11 = 11 /\ 0 + 12 = 12 /\ 0 + 13 = 13 /\ 0 + 22 = 22
        /\ \A i \in 1 .. 8 : 0 + i = i
    OBVIOUS
  <2>2. \A i \in CalleeSaved : 0 + i = i
    BY DEF CalleeSaved
  <2> QED BY <1>7, <1>8, <1>9, <1>10, <1>11, <2>1, <2>2 DEF NestedFrame
<1> QED BY <1>3, <1>5, <1>11, <1>12

(***************************************************************************)
(* Out of the handler.                                                     *)
(***************************************************************************)

LEMMA Positions ==
  /\ \A r \in Registers : Position(r) \in 1 .. 8
  /\ \A i \in 1 .. 8 : Position(GP[i]) = i
BY Registered DEF Position, Registers

\* popad gives every register but esp its word.
LEMMA RegistersPopped ==
  ASSUME NEW s, NEW old \in [Registers -> Contents], \A i \in 1 .. 8 : s[i] \in Contents,
         NEW new, new = [r \in Registers |-> IF r = "esp" THEN old[r] ELSE s[Position(r)]]
  PROVE  /\ new \in [Registers -> Contents]
         /\ \A i \in 1 .. 8 : i # 4 => new[GP[i]] = s[i]
<1>1. new \in [Registers -> Contents]
  BY Positions
<1>2. ASSUME NEW i \in 1 .. 8, i # 4
      PROVE  new[GP[i]] = s[i]
  <2>1. Position(GP[i]) = i
    BY Positions
  <2>2. GP[i] \in Registers /\ GP[i] # "esp"
    BY Registered, <1>2
  <2> QED BY <2>1, <2>2
<1> QED BY <1>1, <1>2

LEMMA Leaving ==
  ASSUME IInv, at \in {"handled", "isr_exit"}, LeaveFrame
  PROVE  /\ current_task' = current_task /\ cs' = KERNEL_CODE
         /\ stack' \in [AllTasks -> Seq(Word)]
         /\ \A t \in AllTasks \ {current_task} : stack'[t] = stack[t]
         /\ regs' \in [Registers -> Contents]
         /\ \/ /\ at' = current_task /\ int_flag' = TRUE /\ stack'[current_task] = <<>>
               /\ \A r \in Registers \ {"esp"} : regs'[r] \in {Own(current_task)[r], <<>>}
            \/ /\ at = "handled" /\ at' \in {"driver_keyboard_isr", "handled"} /\ int_flag' = FALSE
               /\ stack[current_task][9] < 32 \/ at' = "handled"
               /\ BaseFrame(stack'[current_task], 0, current_task)
               /\ Len(stack'[current_task]) = 13 /\ stack'[current_task][9] = INT_KEYBOARD
               /\ \A i \in CalleeSaved : regs'[GP[i]] = InHandler(current_task)[GP[i]]
<1> DEFINE s == stack[current_task]
           rest == SubSeq(s, 14, Len(s))
<1>1. /\ at \notin AllTasks /\ current_task \in AllTasks /\ s \in Seq(Word)
      /\ regs \in [Registers -> Contents] /\ stack \in [AllTasks -> Seq(Word)]
      /\ Frames(s, 0, current_task) /\ (at = "isr_exit" => Len(s) = 13)
  BY Constants DEF IInv, TypeOK, Shape, StacksInv, Places
<1>2. /\ regs' = [r \in Registers |-> IF r = "esp" THEN regs[r] ELSE s[Position(r)]]
      /\ at' = s[11] /\ cs' = s[12] /\ int_flag' = s[13]
      /\ stack' = [stack EXCEPT ![current_task] = rest]
      /\ current_task' = current_task
  BY DEF LeaveFrame
<1> HIDE DEF s, rest
<1>3. \/ Len(s) = 13 /\ BaseFrame(s, 0, current_task)
      \/ Len(s) = 26 /\ NestedFrame(s, 0, current_task)
  BY <1>1 DEF Frames
<1>10. \A i \in 1 .. 8 : s[i] \in Contents
  <2>1. BaseFrame(s, 0, current_task) => \A i \in 1 .. 8 : s[0 + i] \in Contents
    BY DEF BaseFrame
  <2>2. NestedFrame(s, 0, current_task) => \A i \in 1 .. 8 : s[0 + i] \in Contents
    BY DEF NestedFrame
  <2>3. \A i \in 1 .. 8 : 0 + i = i
    OBVIOUS
  <2> QED BY <1>3, <2>1, <2>2, <2>3
<1>4. /\ regs' \in [Registers -> Contents]
      /\ \A i \in 1 .. 8 : i # 4 => regs'[GP[i]] = s[i]
  <2>1. regs' = [r \in Registers |-> IF r = "esp" THEN regs[r] ELSE s[Position(r)]]
    BY <1>2
  <2>2. regs \in [Registers -> Contents]
    BY <1>1
  <2> QED BY <2>1, <2>2, <1>10, RegistersPopped
<1>5. 13 <= Len(s)
  <2>1. Len(s) = 13 \/ Len(s) = 26
    BY <1>3
  <2>2. CASE Len(s) = 13
    BY <2>2, <1>1
  <2>3. CASE Len(s) = 26
    BY <2>3, <1>1
  <2> QED BY <2>1, <2>2, <2>3
<1>6. /\ rest \in Seq(Word) /\ Len(rest) = Len(s) - 13
      /\ \A i \in 1 .. Len(s) - 13 : rest[i] = s[13 + i]
      /\ Len(s) = 13 => rest = <<>>
  <2>1. 13 \in Nat /\ 13 + 1 = 14
    OBVIOUS
  <2>2. s \in Seq(Word)
    BY <1>1
  <2>3. /\ SubSeq(s, 13 + 1, Len(s)) \in Seq(Word)
        /\ Len(SubSeq(s, 13 + 1, Len(s))) = Len(s) - 13
        /\ \A i \in 1 .. Len(s) - 13 : SubSeq(s, 13 + 1, Len(s))[i] = s[13 + i]
        /\ 13 = Len(s) => SubSeq(s, 13 + 1, Len(s)) = <<>>
    BY <1>5, <2>1, <2>2, Popped
  <2>4. rest = SubSeq(s, 13 + 1, Len(s))
    BY <2>1 DEF rest
  <2> QED BY <2>3, <2>4
<1>7. /\ stack' \in [AllTasks -> Seq(Word)] /\ stack'[current_task] = rest
      /\ \A t \in AllTasks \ {current_task} : stack'[t] = stack[t]
  BY <1>1, <1>2, <1>6
<1>8. CASE Len(s) = 13 /\ BaseFrame(s, 0, current_task)
  <2>1. s[11] = current_task /\ s[12] = KERNEL_CODE /\ s[13] = TRUE
    BY <1>8 DEF BaseFrame
  <2>2. \A i \in 1 .. 8 : i # 4 => s[i] \in {Own(current_task)[GP[i]], <<>>}
    BY <1>8 DEF BaseFrame
  <2>3. ASSUME NEW r \in Registers \ {"esp"}
        PROVE  regs'[r] \in {Own(current_task)[r], <<>>}
    <3>1. PICK i \in 1 .. 8 : i # 4 /\ GP[i] = r
      BY Registered
    <3> QED BY <3>1, <2>2, <1>4
  <2> QED BY <1>2, <1>4, <1>6, <1>7, <1>8, <2>1, <2>3
<1>9. CASE Len(s) = 26 /\ NestedFrame(s, 0, current_task)
  <2>1. /\ s[12] = KERNEL_CODE /\ s[13] = FALSE
        /\ \/ s[11] = "driver_keyboard_isr" /\ s[9] < 32
           \/ s[11] = "handled"
    BY <1>9 DEF NestedFrame
  <2>2. \A i \in CalleeSaved : s[i] = InHandler(current_task)[GP[i]]
    BY <1>9 DEF NestedFrame, CalleeSaved
  <2>3. \A i \in CalleeSaved : regs'[GP[i]] = InHandler(current_task)[GP[i]]
    <3>1. \A i \in CalleeSaved : i \in 1 .. 8 /\ i # 4
      BY DEF CalleeSaved
    <3> QED BY <3>1, <2>2, <1>4
  <2>4. \A i \in 1 .. 13 : rest[i] = s[13 + i]
    <3>1. Len(s) - 13 = 13
      BY <1>9
    <3> QED BY <1>6, <3>1
  <2>5. BaseFrame(rest, 0, current_task)
    <3>1. BaseFrame(s, 13, current_task)
      <4>1. 0 + 13 = 13
        OBVIOUS
      <4> QED BY <1>9, <4>1 DEF NestedFrame
    <3>2. \A i \in 1 .. 13 : rest[0 + i] = s[13 + i]
      <4>1. \A i \in 1 .. 13 : 0 + i = i
        OBVIOUS
      <4> QED BY <4>1, <2>4
    <3> QED BY <3>1, <3>2, BaseMoved
  <2>6. rest[9] = INT_KEYBOARD /\ Len(rest) = 13
    <3>1. rest[9] = s[13 + 9] /\ 13 + 9 = 22
      BY <2>4
    <3> QED BY <3>1, <1>6, <1>9 DEF NestedFrame
  <2>7. at = "handled"
    BY <1>1, <1>9 DEF s
  <2>8. stack[current_task][9] < 32 \/ at' = "handled"
    BY <2>1, <1>2 DEF s
  <2> QED BY <1>2, <1>4, <1>7, <2>1, <2>3, <2>5, <2>6, <2>7, <2>8
<1> QED BY <1>3, <1>8, <1>9

(***************************************************************************)
(* From task to task.                                                      *)
(***************************************************************************)

\* What task_switch pushes on the stack of the task it leaves.
LEMMA Suspending ==
  ASSUME IInv, at = "timer_tick"
  PROVE  LET s == Context(regs["edi"], regs["esi"], regs["ebx"], regs["ebp"], "handled")
                    \o stack[current_task]
         IN  s \in Seq(Word) /\ Suspended(s, current_task)
<1> DEFINE c == current_task
           old == stack[c]
           top == Context(regs["edi"], regs["esi"], regs["ebx"], regs["ebp"], "handled")
           s == top \o old
<1>1. /\ at \notin AllTasks /\ at \in Interrupted /\ c \in AllTasks /\ old \in Seq(Word)
      /\ regs \in [Registers -> Contents]
      /\ Frames(old, 0, c)
  BY Constants DEF IInv, TypeOK, Shape, StacksInv, Places, Interrupted
<1>2. /\ regs["edi"] = InHandler(c)["edi"] /\ regs["esi"] = InHandler(c)["esi"]
      /\ regs["ebp"] = InHandler(c)["ebp"] /\ regs["ebx"] = InHandler(c)["ebx"]
  <2>1. \A i \in CalleeSaved : regs[GP[i]] = InHandler(c)[GP[i]]
    BY <1>1 DEF IInv, Shape, RegistersInv
  <2>2. 1 \in CalleeSaved /\ 2 \in CalleeSaved /\ 3 \in CalleeSaved /\ 5 \in CalleeSaved
    BY DEF CalleeSaved
  <2> QED BY <2>1, <2>2, Registered, Zenon
<1>3. /\ top \in Seq(Word) /\ Len(top) = 5
      /\ top[1] = regs["edi"] /\ top[2] = regs["esi"] /\ top[3] = regs["ebx"]
      /\ top[4] = regs["ebp"] /\ top[5] = "handled"
  <2>1. /\ regs["edi"] \in Word /\ regs["esi"] \in Word /\ regs["ebx"] \in Word
        /\ regs["ebp"] \in Word /\ "handled" \in Word
    BY <1>1, Words DEF Registers, GP, Places
  <2> QED BY <2>1 DEF Context
<1> HIDE DEF top, old
<1>4. s \in Seq(Word) /\ Len(s) = Len(old) + 5
  <2>1. s \in Seq(Word) /\ Len(s) = Len(top) + Len(old)
    BY <1>1, <1>3, Pushed
  <2> QED BY <2>1, <1>1, <1>3
<1>5. /\ \A i \in 1 .. 5 : s[i] = top[i]
      /\ \A i \in 1 .. Len(old) : s[5 + i] = old[i]
  <2>1. /\ \A i \in 1 .. Len(top) : s[i] = top[i]
        /\ \A i \in 1 .. Len(old) : s[Len(top) + i] = old[i]
    BY <1>1, <1>3, Pushed
  <2> QED BY <2>1, <1>3
<1> HIDE DEF s
<1>6. Frames(s, 5, c)
  <2>1. Len(s) = Len(old) - 0 + 5 /\ \A i \in 1 .. Len(old) - 0 : s[5 + i] = old[0 + i]
    BY <1>1, <1>4, <1>5
  <2>2. 0 \in Nat /\ 5 \in Nat
    OBVIOUS
  <2> QED BY <1>1, <2>1, <2>2, Moved
<1>7. Suspended(s, c)
  BY <1>2, <1>3, <1>5, <1>6 DEF Suspended
<1> QED BY <1>4, <1>7 DEF s, top, old

\* How the chosen task goes on: from its last switch, or for the first time.
LEMMA Resuming ==
  ASSUME NEW s \in Seq(Word), NEW t \in AllTasks, Suspended(s, t) \/ New(s, t)
  PROVE  /\ SubSeq(s, 6, Len(s)) \in Seq(Word)
         /\ Frames(SubSeq(s, 6, Len(s)), 0, t)
         /\ s[1] \in Contents /\ s[2] \in Contents /\ s[3] \in Contents /\ s[4] \in Contents
         /\ \/ s[5] = "handled" /\ Suspended(s, t)
            \/ s[5] = "isr_exit" /\ Len(SubSeq(s, 6, Len(s))) = 13
<1> DEFINE rest == SubSeq(s, 6, Len(s))
<1>1. Frames(s, 5, t) /\ (New(s, t) => Len(s) = 5 + 13)
  BY DEF Suspended, New, Frames
<1>2. 5 <= Len(s)
  <2>1. Len(s) = 5 + 13 \/ Len(s) = 5 + 26
    BY <1>1 DEF Frames
  <2>2. CASE Len(s) = 5 + 13
    BY <2>2
  <2>3. CASE Len(s) = 5 + 26
    BY <2>3
  <2> QED BY <2>1, <2>2, <2>3
<1>3. /\ rest \in Seq(Word) /\ Len(rest) = Len(s) - 5
      /\ \A i \in 1 .. Len(s) - 5 : rest[i] = s[5 + i]
  <2>1. 5 \in Nat /\ 5 + 1 = 6
    OBVIOUS
  <2>2. /\ SubSeq(s, 5 + 1, Len(s)) \in Seq(Word)
        /\ Len(SubSeq(s, 5 + 1, Len(s))) = Len(s) - 5
        /\ \A i \in 1 .. Len(s) - 5 : SubSeq(s, 5 + 1, Len(s))[i] = s[5 + i]
    BY <1>2, <2>1, Popped
  <2> QED BY <2>1, <2>2
<1> HIDE DEF rest
<1>4. Frames(rest, 0, t) /\ (Len(s) = 5 + 13 => Len(rest) = 0 + 13)
  <2>1. Len(rest) = Len(s) - 5 + 0 /\ \A i \in 1 .. Len(s) - 5 : rest[0 + i] = s[5 + i]
    BY <1>3
  <2>2. 0 \in Nat /\ 5 \in Nat
    OBVIOUS
  <2> QED BY <1>1, <2>1, <2>2, Moved
<1>5. s[1] \in Contents /\ s[2] \in Contents /\ s[3] \in Contents /\ s[4] \in Contents
  <2>1. CASE New(s, t)
    BY <2>1, Words DEF New
  <2>2. CASE Suspended(s, t)
    <3>1. "edi" \in Registers /\ "esi" \in Registers /\ "ebx" \in Registers /\ "ebp" \in Registers
      BY DEF Registers, GP
    <3> QED BY <2>2, <3>1, Words DEF Suspended
  <2> QED BY <2>1, <2>2
<1>6. \/ s[5] = "handled" /\ Suspended(s, t)
      \/ s[5] = "isr_exit" /\ Len(rest) = 13
  BY <1>1, <1>4 DEF Suspended, New
<1> QED BY <1>3, <1>4, <1>5, <1>6 DEF rest

LEMMA Switching ==
  ASSUME IInv, NEW t \in AllTasks, Tick(t)
  PROVE  /\ current_task' = t
         /\ stack' \in [AllTasks -> Seq(Word)] /\ regs' \in [Registers -> Contents]
         /\ Frames(stack'[t], 0, t)
         /\ \A u \in AllTasks \ {t, current_task} : stack'[u] = stack[u]
         /\ t # current_task => Suspended(stack'[current_task], current_task)
         /\ \/ /\ at' = "handled"
               /\ \A i \in CalleeSaved : regs'[GP[i]] = InHandler(t)[GP[i]]
            \/ at' = "isr_exit" /\ Len(stack'[t]) = 13
<1> DEFINE c == current_task
           top == Context(regs["edi"], regs["esi"], regs["ebx"], regs["ebp"], "handled") \o stack[c]
           saved == [stack EXCEPT ![c] = top]
           s == saved[t]
           rest == SubSeq(s, 6, Len(s))
<1>1. /\ stack \in [AllTasks -> Seq(Word)] /\ c \in AllTasks /\ at = "timer_tick"
      /\ regs \in [Registers -> Contents]
      /\ Started(t)
  BY DEF IInv, TypeOK, Tick
<1>2. /\ regs' = [regs EXCEPT !["edi"] = s[1], !["esi"] = s[2], !["ebx"] = s[3], !["ebp"] = s[4]]
      /\ at' = s[5] /\ stack' = [saved EXCEPT ![t] = rest] /\ current_task' = t
  BY DEF Tick
<1>3. top \in Seq(Word) /\ Suspended(top, c)
  BY <1>1, Suspending
<1> HIDE DEF top
<1>4. /\ saved \in [AllTasks -> Seq(Word)] /\ saved[c] = top
      /\ \A u \in AllTasks \ {c} : saved[u] = stack[u]
  BY <1>1, <1>3
<1> HIDE DEF saved
<1>5. s \in Seq(Word) /\ (Suspended(s, t) \/ New(s, t))
  <2>1. CASE t = c
    BY <2>1, <1>3, <1>4
  <2>2. CASE t # c
    <3>1. s = stack[t] /\ stack[t] # <<>>
      BY <2>2, <1>1, <1>4 DEF Started
    <3> QED BY <2>2, <3>1, <1>1 DEF IInv, Shape, StacksInv
  <2> QED BY <2>1, <2>2
<1> HIDE DEF s
<1>6. /\ rest \in Seq(Word) /\ Frames(rest, 0, t)
      /\ s[1] \in Contents /\ s[2] \in Contents /\ s[3] \in Contents /\ s[4] \in Contents
      /\ \/ s[5] = "handled" /\ Suspended(s, t)
         \/ s[5] = "isr_exit" /\ Len(rest) = 13
  BY <1>5, Resuming
<1> HIDE DEF rest
<1>7. /\ stack' \in [AllTasks -> Seq(Word)] /\ stack'[t] = rest
      /\ \A u \in AllTasks \ {t} : stack'[u] = saved[u]
  BY <1>2, <1>4, <1>6
<1>8. /\ regs' \in [Registers -> Contents]
      /\ regs'["edi"] = s[1] /\ regs'["esi"] = s[2] /\ regs'["ebx"] = s[3] /\ regs'["ebp"] = s[4]
  <2>1. "edi" \in Registers /\ "esi" \in Registers /\ "ebx" \in Registers /\ "ebp" \in Registers
    BY DEF Registers, GP
  <2> QED BY <2>1, <1>1, <1>2, <1>6
<1>9. Suspended(s, t) => \A i \in CalleeSaved : regs'[GP[i]] = InHandler(t)[GP[i]]
  <2>1. Suspended(s, t) =>
          /\ regs'["edi"] = InHandler(t)["edi"] /\ regs'["esi"] = InHandler(t)["esi"]
          /\ regs'["ebx"] = InHandler(t)["ebx"] /\ regs'["ebp"] = InHandler(t)["ebp"]
    BY <1>8 DEF Suspended
  <2>2. \A i \in CalleeSaved : GP[i] \in {"edi", "esi", "ebx", "ebp"}
    BY Registered DEF CalleeSaved
  <2> QED BY <2>1, <2>2
<1>10. Frames(stack'[t], 0, t) /\ (at' = "isr_exit" => Len(stack'[t]) = 13)
  <2>1. s[5] = "isr_exit" => Len(rest) = 13
    BY <1>6
  <2> QED BY <2>1, <1>2, <1>6, <1>7
<1>11. \A u \in AllTasks \ {t, c} : stack'[u] = stack[u]
  BY <1>4, <1>7
<1>12. t # c => Suspended(stack'[c], c)
  BY <1>1, <1>3, <1>4, <1>7
<1>13. \/ /\ at' = "handled"
          /\ \A i \in CalleeSaved : regs'[GP[i]] = InHandler(t)[GP[i]]
       \/ at' = "isr_exit"
  BY <1>2, <1>6, <1>9
<1> QED BY <1>2, <1>7, <1>8, <1>10, <1>11, <1>12, <1>13

\* The stack task_create builds is one that task_switch and isr_exit take
\* apart into a fresh task.
LEMMA Creating ==
  ASSUME NEW t \in AllTasks
  PROVE  LET s == Context(<<>>, <<>>, <<>>, <<>>, "isr_exit")
                    \o [i \in 1 .. 8 |-> <<>>] \o <<0, 0>> \o <<t, KERNEL_CODE, TRUE>>
         IN  s \in Seq(Word) /\ New(s, t)
<1> DEFINE top == Context(<<>>, <<>>, <<>>, <<>>, "isr_exit")
           A == [i \in 1 .. 8 |-> <<>>]
           B == <<0, 0>>
           D == <<t, KERNEL_CODE, TRUE>>
<1>1. /\ <<>> \in Word /\ "isr_exit" \in Word /\ 0 \in Word /\ t \in Word
      /\ KERNEL_CODE \in Word /\ TRUE \in Word
  <2>1. 0 \in Vectors /\ KERNEL_CODE \in Vectors
    BY Numbers DEF Vectors
  <2> QED BY <2>1, Words DEF Places
<1>2. /\ top \in Seq(Word) /\ Len(top) = 5 /\ top[5] = "isr_exit"
      /\ \A i \in 1 .. 4 : top[i] = <<>>
  BY <1>1 DEF Context
<1>3. A \in Seq(Word) /\ Len(A) = 8 /\ \A i \in 1 .. 8 : A[i] = <<>>
  BY <1>1
<1>4. B \in Seq(Word) /\ Len(B) = 2 /\ B[1] = 0
  BY <1>1
<1>5. D \in Seq(Word) /\ Len(D) = 3 /\ D[1] = t /\ D[2] = KERNEL_CODE /\ D[3] = TRUE
  <2>1. \A a, b, c \in Word : /\ <<a, b, c>> \in Seq(Word) /\ Len(<<a, b, c>>) = 3
                              /\ <<a, b, c>>[1] = a /\ <<a, b, c>>[2] = b /\ <<a, b, c>>[3] = c
    OBVIOUS
  <2> QED BY <1>1, <2>1, Zenon
<1> HIDE DEF top, A, B, D
<1> DEFINE x == top \o A
<1>6. /\ x \in Seq(Word) /\ Len(x) = 13 /\ x[5] = "isr_exit"
      /\ \A i \in 1 .. 4 : x[i] = <<>>
      /\ \A i \in 1 .. 8 : x[5 + i] = <<>>
  <2>1. x \in Seq(Word) /\ Len(x) = Len(top) + Len(A)
    BY <1>2, <1>3, Pushed
  <2>2. /\ \A i \in 1 .. Len(top) : x[i] = top[i]
        /\ \A i \in 1 .. Len(A) : x[Len(top) + i] = A[i]
    BY <1>2, <1>3, Pushed
  <2> HIDE DEF x
  <2> QED BY <2>1, <2>2, <1>2, <1>3
<1> HIDE DEF x
<1> DEFINE y == x \o B
<1>7. /\ y \in Seq(Word) /\ Len(y) = 15 /\ y[14] = 0
      /\ \A i \in 1 .. 13 : y[i] = x[i]
  <2>1. y \in Seq(Word) /\ Len(y) = Len(x) + Len(B)
    BY <1>4, <1>6, Pushed
  <2>2. /\ \A i \in 1 .. Len(x) : y[i] = x[i]
        /\ \A i \in 1 .. Len(B) : y[Len(x) + i] = B[i]
    BY <1>4, <1>6, Pushed
  <2> HIDE DEF y
  <2>3. y[13 + 1] = 0
    BY <2>2, <1>4, <1>6
  <2> QED BY <2>1, <2>2, <2>3, <1>4, <1>6
<1> HIDE DEF y
<1> DEFINE s == y \o D
<1>8. /\ s \in Seq(Word) /\ Len(s) = 18
      /\ s[16] = t /\ s[17] = KERNEL_CODE /\ s[18] = TRUE
      /\ \A i \in 1 .. 15 : s[i] = y[i]
  <2>1. y \in Seq(Word) /\ D \in Seq(Word)
    BY <1>5, <1>7
  <2>2. s \in Seq(Word) /\ Len(s) = Len(y) + Len(D)
    BY <2>1, Pushed
  <2>3. /\ \A i \in 1 .. Len(y) : s[i] = y[i]
        /\ \A i \in 1 .. Len(D) : s[Len(y) + i] = D[i]
    BY <2>1, Pushed
  <2> HIDE DEF s
  <2>4. s[15 + 1] = t /\ s[15 + 2] = KERNEL_CODE /\ s[15 + 3] = TRUE
    BY <2>3, <1>5, <1>7
  <2> QED BY <2>2, <2>3, <2>4, <1>5, <1>7
<1> HIDE DEF s
<1>9. /\ \A i \in 1 .. 4 : s[i] = <<>>
      /\ s[5] = "isr_exit" /\ s[5 + 9] \in Gates
      /\ \A i \in 1 .. 8 : s[5 + i] = <<>>
  BY <1>6, <1>7, <1>8 DEF Gates
<1>10. BaseFrame(s, 5, t)
  <2>1. s[5 + 11] = t /\ s[5 + 12] = KERNEL_CODE /\ s[5 + 13] = TRUE
    BY <1>8
  <2> QED BY <1>9, <2>1, Words DEF BaseFrame
<1> QED BY <1>8, <1>9, <1>10 DEF New, s, y, x, top, A, B, D

(***************************************************************************)
(* Steps.                                                                  *)
(***************************************************************************)

\* After start-up its work is left alone.
LEMMA StartUpStays ==
  ASSUME IInv, UNCHANGED <<kernel, chip>>, cs' = cs \/ (stage = Running /\ cs' = KERNEL_CODE)
  PROVE  ChipsInv' /\ TablesInv'
<1>1. /\ chip' = chip /\ sent' = sent /\ stage' = stage /\ gdt' = gdt /\ ds' = ds /\ tr' = tr
      /\ idt' = idt /\ interrupt_handlers' = interrupt_handlers
  BY DEF kernel, segments
<1>2. ChipsInv'
  BY <1>1 DEF IInv, Shape, ChipsInv, Chip1Waits, Chip2Waits
<1>3. cs' = cs
  BY Start DEF IInv, Shape, TablesInv
<1>4. TablesInv'
  BY <1>1, <1>3 DEF IInv, Shape, TablesInv
<1> QED BY <1>2, <1>4

\* The CPU enters the handler from a task or from a command.
LEMMA AfterEntry ==
  ASSUME IInv, stage = Running, UNCHANGED <<kernel, chip, imr>>,
         NEW v \in Gates, NEW eip, Enter(v, eip),
         \/ at \in AllTasks /\ eip = at
         \/ /\ at = "driver_keyboard_isr"
            /\ \/ eip = "driver_keyboard_isr" /\ v \in 0 .. 31
               \/ eip = "handled" /\ v = INT_PIT,
         irr' \subseteq Devices, in_service' \in InServiceSets,
         v < 32 \/ v = INT_KEYBOARD => in_service' \subseteq {1}
  PROVE  IInv' /\ int_num' = v
<1> DEFINE c == current_task
<1>1. eip \in AllTasks \cup Places
  BY DEF Places
<1>2. /\ at' = "isr_handler" /\ int_flag' = FALSE
      /\ regs' = InHandler(c) /\ cs' = KERNEL_CODE /\ c' = c
      /\ stack' \in [AllTasks -> Seq(Word)]
      /\ \A t \in AllTasks \ {c} : stack'[t] = stack[t]
  BY <1>1, Entering
<1>3. Frames(stack'[c], 0, c) /\ stack'[c][9] = v
  <2>1. CASE at \in AllTasks /\ eip = at
    <3>1. BaseFrame(stack'[c], 0, c) /\ Len(stack'[c]) = 13 /\ stack'[c][9] = v
      BY <2>1, EnteredFromTask
    <3> QED BY <3>1 DEF Frames
  <2>2. CASE at = "driver_keyboard_isr"
    <3>1. \/ eip = "driver_keyboard_isr" /\ v \in 0 .. 31
          \/ eip = "handled" /\ v = INT_PIT
      BY <2>2, Constants DEF Places
    <3>2. NestedFrame(stack'[c], 0, c) /\ Len(stack'[c]) = 26 /\ stack'[c][9] = v
      BY <2>2, <3>1, EnteredFromCommand
    <3> QED BY <3>2 DEF Frames
  <2> QED BY <2>1, <2>2
<1>4. at' \notin AllTasks /\ c \in AllTasks
  BY <1>2, Constants DEF Places, IInv, TypeOK
<1>5. stage' = stage /\ UNCHANGED <<kernel, chip, imr>>
  BY DEF kernel
<1>6. ChipsInv' /\ TablesInv'
  BY <1>2, <1>5, StartUpStays
<1>7. FlagInv'
  BY <1>2, <1>4, <1>5 DEF FlagInv, Running
<1>8. StacksInv'
  <2>1. \A t \in AllTasks \ {c} : stack[t] = <<>> \/ Suspended(stack[t], t) \/ New(stack[t], t)
    BY DEF IInv, Shape, StacksInv
  <2> QED BY <1>2, <1>3, <1>4, <2>1 DEF StacksInv
<1>9. RegistersInv'
  BY <1>2, <1>4 DEF RegistersInv
<1>10. ServiceInv'
  BY <1>2, <1>3, <1>4 DEF ServiceInv, int_num
<1>11. TypeOK'
  <2>1. regs' \in [Registers -> Contents]
    BY <1>2, <1>4, Words DEF InHandler
  <2>2. irr' \subseteq Lines /\ in_service' \subseteq Lines
    BY Constants DEF InServiceSets, Lines
  <2>3. cs' \in Byte
    BY <1>2, Numbers DEF Byte
  <2>4. at' \in Places
    BY <1>2 DEF Places
  <2> QED BY <1>2, <1>4, <1>5, <2>1, <2>2, <2>3, <2>4 DEF IInv, TypeOK, kernel, segments
<1> QED BY <1>2, <1>3, <1>6, <1>7, <1>8, <1>9, <1>10, <1>11 DEF IInv, Shape, int_num

\* The CPU leaves a frame with nothing in service.
LEMMA AfterLeaving ==
  ASSUME IInv, at \in {"handled", "isr_exit"}, LeaveFrame,
         UNCHANGED <<kernel, chip, imr, irr>>, in_service' = {}
  PROVE  IInv'
<1> DEFINE c == current_task
<1>1. /\ c' = c /\ cs' = KERNEL_CODE /\ stack' \in [AllTasks -> Seq(Word)]
      /\ \A t \in AllTasks \ {c} : stack'[t] = stack[t]
      /\ regs' \in [Registers -> Contents]
      /\ \/ /\ at' = c /\ int_flag' = TRUE /\ stack'[c] = <<>>
            /\ \A r \in Registers \ {"esp"} : regs'[r] \in {Own(c)[r], <<>>}
         \/ /\ at' \in {"driver_keyboard_isr", "handled"} /\ int_flag' = FALSE
            /\ BaseFrame(stack'[c], 0, c)
            /\ Len(stack'[c]) = 13 /\ stack'[c][9] = INT_KEYBOARD
            /\ \A i \in CalleeSaved : regs'[GP[i]] = InHandler(c)[GP[i]]
  BY Leaving
<1>2. /\ at \notin AllTasks /\ c \in AllTasks /\ stage = Running /\ stage' = stage
  BY Constants DEF Places, IInv, TypeOK, Shape, FlagInv, kernel
<1>3. ChipsInv' /\ TablesInv'
  BY <1>1, <1>2, StartUpStays
<1>4. \A t \in AllTasks \ {c} :
        stack'[t] = <<>> \/ Suspended(stack'[t], t) \/ New(stack'[t], t)
  BY <1>1 DEF IInv, Shape, StacksInv
<1>5. irr' \subseteq Devices /\ in_service' \in InServiceSets
  BY DEF IInv, Shape, ServiceInv, InServiceSets
<1>6. /\ at' = c => at' \in AllTasks /\ at' \notin Places
      /\ at' \in {"driver_keyboard_isr", "handled"} => at' \in Places /\ at' \notin AllTasks
  BY <1>2, Constants DEF Places
<1>7. FlagInv'
  BY <1>1, <1>2, <1>6 DEF FlagInv, Running, Places
<1>8. TypeOK'
  <2>1. cs' \in Byte
    BY <1>1, Numbers DEF Byte
  <2>2. UNCHANGED <<kernel, chip, imr, irr>> /\ in_service' = {}
    OBVIOUS
  <2>3. current_task' \in AllTasks /\ at' \in AllTasks \cup Places /\ int_flag' \in BOOLEAN
    BY <1>1, <1>2, <1>6
  <2>4. regs' \in [Registers -> Contents]
    BY <1>1
  <2> QED BY <2>1, <2>2, <2>3, <2>4 DEF IInv, TypeOK, kernel, segments
<1>9. CASE at' = c
  <2>1. at' \in AllTasks /\ at' \notin Places /\ stack'[c] = <<>>
        /\ \A r \in Registers \ {"esp"} : regs'[r] \in {Own(c)[r], <<>>}
    BY <1>1, <1>6, <1>9 DEF Places
  <2>2. StacksInv'
    BY <1>1, <1>4, <1>9, <2>1 DEF StacksInv, Places
  <2>3. RegistersInv'
    BY <1>1, <1>9, <2>1 DEF RegistersInv, Places, Interrupted
  <2>4. ServiceInv'
    BY <1>5, <2>1 DEF ServiceInv, Places
  <2> QED BY <1>1, <1>3, <1>7, <1>8, <2>2, <2>3, <2>4 DEF IInv, Shape
<1>10. CASE at' # c
  <2>1. /\ at' \in {"driver_keyboard_isr", "handled"} /\ at' \notin AllTasks
        /\ BaseFrame(stack'[c], 0, c)
        /\ Len(stack'[c]) = 13 /\ stack'[c][9] = INT_KEYBOARD
        /\ \A i \in CalleeSaved : regs'[GP[i]] = InHandler(c)[GP[i]]
    BY <1>1, <1>6, <1>10
  <2>2. StacksInv'
    BY <1>1, <1>4, <2>1 DEF StacksInv, Frames, int_num
  <2>3. RegistersInv'
    BY <1>1, <2>1 DEF RegistersInv
  <2>4. ServiceInv'
    <3>1. in_service' = {}
      OBVIOUS
    <3> QED BY <1>5, <3>1 DEF ServiceInv
  <2> QED BY <1>1, <1>3, <1>7, <1>8, <2>2, <2>3, <2>4 DEF IInv, Shape
<1> QED BY <1>9, <1>10

LEMMA AfterSwitch ==
  ASSUME IInv, NEW t \in AllTasks, Tick(t)
  PROVE  IInv'
<1> DEFINE c == current_task
<1>1. /\ c' = t /\ stack' \in [AllTasks -> Seq(Word)] /\ regs' \in [Registers -> Contents]
      /\ Frames(stack'[t], 0, t)
      /\ \A u \in AllTasks \ {t, c} : stack'[u] = stack[u]
      /\ t # c => Suspended(stack'[c], c)
      /\ \/ /\ at' = "handled"
            /\ \A i \in CalleeSaved : regs'[GP[i]] = InHandler(t)[GP[i]]
         \/ at' = "isr_exit" /\ Len(stack'[t]) = 13
  BY Switching
<1>2. at = "timer_tick" /\ UNCHANGED <<pics, kernel, int_flag, cs>>
  BY DEF Tick
<1>3. /\ at \notin AllTasks /\ c \in AllTasks /\ at' \notin AllTasks /\ at' \in Places
      /\ stage = Running /\ stage' = stage /\ int_flag' = FALSE
  BY <1>1, <1>2, Constants DEF Places, IInv, TypeOK, Shape, FlagInv, kernel
<1>4. ChipsInv' /\ TablesInv'
  BY <1>2, StartUpStays DEF pics
<1>5. FlagInv'
  BY <1>1, <1>3 DEF FlagInv, Running
<1>6. StacksInv'
  <2>1. \A u \in AllTasks \ {t} :
          stack'[u] = <<>> \/ Suspended(stack'[u], u) \/ New(stack'[u], u)
    BY <1>1, <1>3 DEF IInv, Shape, StacksInv
  <2> QED BY <1>1, <1>3, <2>1 DEF StacksInv
<1>7. RegistersInv'
  BY <1>1, <1>3 DEF RegistersInv, Interrupted
<1>8. ServiceInv'
  <2>1. in_service' = {} /\ irr' \subseteq Devices
    BY <1>2 DEF IInv, Shape, ServiceInv, pics
  <2> QED BY <1>3, <2>1 DEF ServiceInv, InServiceSets
<1>9. TypeOK'
  BY <1>1, <1>2, <1>3 DEF IInv, TypeOK, pics, kernel, segments
<1> QED BY <1>1, <1>4, <1>5, <1>6, <1>7, <1>8, <1>9 DEF IInv, Shape

\* The vector of a line names the line, and the handler's frame the vector.
LEMMA AcknowledgeStep ==
  ASSUME IInv, Acknowledge
  PROVE  /\ IInv'
         /\ \A l \in irr \ irr' : int_num' = 32 + l
<1>1. /\ int_flag /\ Wanted1 # {} /\ stage = Running /\ at \in AllTasks /\ in_service = {}
      /\ irr \subseteq Devices
  BY DEF Acknowledge, IInv, Shape, FlagInv, ServiceInv
<1>2. chip[1].offset = 32 /\ chip[2].offset = 40
  BY <1>1, Start, Numbers DEF IInv, Shape, ChipsInv
<1> DEFINE h == Highest(Wanted1)
           l == IF h = 2 THEN Highest(Wanted2) ELSE h
           v == chip[ChipOf(l)].offset + (l % 8)
<1>3. /\ irr' = irr \ {l}
      /\ in_service' = in_service \cup {h, l}
      /\ Enter(v, at) /\ UNCHANGED <<chip, imr, kernel>>
  BY DEF Acknowledge
<1>4. 2 \notin irr /\ irr \subseteq Lines
  BY <1>1, Constants
<1>5. /\ \A k \in Wanted1 : k \in Lines /\ ChipOf(k) = 1 /\ (k \in irr \/ (k = 2 /\ Wanted2 # {}))
      /\ \A k \in Wanted2 : k \in irr /\ ChipOf(k) = 2
  <2>1. 2 \in Lines
    BY DEF Lines
  <2>2. \A k \in Wanted2 : k \in irr /\ ChipOf(k) = 2
    BY DEF Wanted2, Wanting
  <2> DEFINE asked == irr \cup {k \in {2} : Wanted2 # {}}
  <2>3. \A k \in asked : k \in Lines /\ (k \in irr \/ (k = 2 /\ Wanted2 # {}))
    BY <1>4, <2>1
  <2> HIDE DEF asked
  <2>4. \A k \in Wanting(1, asked) : k \in asked /\ ChipOf(k) = 1
    BY DEF Wanting
  <2>5. Wanted1 = Wanting(1, asked)
    BY DEF Wanted1, asked
  <2> QED BY <2>2, <2>3, <2>4, <2>5
<1>6. h \in Wanted1
  <2>1. Wanted1 \subseteq Lines
    BY <1>5
  <2> QED BY <1>1, <2>1, HighestIn
<1>7. h \in 0 .. 7 /\ (h # 2 => h \in irr) /\ (h = 2 => Wanted2 # {})
  <2>1. h \in Lines /\ ChipOf(h) = 1
    BY <1>5, <1>6
  <2>2. h \in 0 .. 7
    BY <2>1 DEF ChipOf, Lines
  <2> QED BY <1>4, <1>5, <1>6, <2>2
<1>8. h = 2 => Highest(Wanted2) \in irr /\ Highest(Wanted2) \in 8 .. 15
  <2>1. Wanted2 \subseteq Lines
    BY <1>4, <1>5
  <2>2. h = 2 => Highest(Wanted2) \in Wanted2
    BY <1>7, <2>1, HighestIn
  <2>3. \A k \in Lines : ChipOf(k) = 2 => k \in 8 .. 15
    BY DEF ChipOf, Lines
  <2>4. \A k \in Wanted2 : k \in 8 .. 15
    BY <1>5, <2>1, <2>3
  <2> QED BY <2>2, <2>4, <1>5
<1> HIDE DEF h
<1>9. /\ l \in irr /\ l \in Lines
      /\ \/ l \in 0 .. 7 /\ {h, l} = {l}
         \/ l \in 8 .. 15 /\ {h, l} = {2, l}
  BY <1>4, <1>7, <1>8 DEF Lines
<1>10. v = 32 + l
  <2>1. l \in 0 .. 7 => ChipOf(l) = 1 /\ l % 8 = l
    BY DEF ChipOf
  <2>2. l \in 8 .. 15 => ChipOf(l) = 2 /\ l % 8 = l - 8
    BY DEF ChipOf
  <2> HIDE DEF l
  <2> QED BY <1>2, <1>9, <2>1, <2>2
<1> HIDE DEF l, v
<1>11. v \in Gates /\ (v < 32 \/ v = INT_KEYBOARD => l = 1)
  BY <1>9, <1>10, Numbers DEF Gates, Lines
<1>12. in_service' \in InServiceSets /\ (v < 32 \/ v = INT_KEYBOARD => in_service' \subseteq {1})
  <2>1. in_service' = {h, l}
    BY <1>1, <1>3
  <2>2. {h, l} \in InServiceSets
    BY <1>9 DEF InServiceSets
  <2>3. l = 1 => {h, l} \subseteq {1}
    BY <1>9
  <2> QED BY <2>1, <2>2, <2>3, <1>11
<1>13. irr' \subseteq Devices
  BY <1>1, <1>3
<1>14. IInv' /\ int_num' = v
  BY <1>1, <1>3, <1>11, <1>12, <1>13, AfterEntry
<1> QED BY <1>3, <1>10, <1>14

LEMMA SpuriousStep ==
  ASSUME IInv, NEW c \in 1 .. 2, Spurious(c)
  PROVE  IInv'
<1> DEFINE v == chip[c].offset + 7
<1>1. /\ int_flag /\ stage = Running /\ at \in AllTasks /\ in_service = {}
      /\ irr \subseteq Devices
  BY DEF Spurious, IInv, Shape, FlagInv, ServiceInv
<1>2. v = 39 \/ v = 47
  BY <1>1, Start, Numbers DEF IInv, Shape, ChipsInv
<1>3. /\ Enter(v, at) /\ UNCHANGED <<chip, imr, irr, kernel>>
      /\ in_service' = IF c = 2 THEN in_service \cup {2} ELSE in_service
  BY DEF Spurious
<1> HIDE DEF v
<1>4. v \in Gates /\ ~(v < 32 \/ v = INT_KEYBOARD)
  BY <1>2, Numbers DEF Gates
<1>5. in_service' \in InServiceSets
  BY <1>1, <1>3 DEF InServiceSets
<1> QED BY <1>1, <1>3, <1>4, <1>5, AfterEntry

LEMMA ExceptionStep ==
  ASSUME IInv, NEW v \in Exceptions, Exception(v)
  PROVE  IInv'
<1>1. /\ stage = Running /\ at \in AllTasks \cup {"driver_keyboard_isr"}
      /\ Enter(v, at) /\ UNCHANGED <<pics, kernel>>
  BY DEF Exception, Reached, Running, Stages, IInv, TypeOK
<1>2. v \in 0 .. 31 /\ v \in Gates
  BY Constants DEF Gates
<1>3. /\ irr' \subseteq Devices /\ in_service' \in InServiceSets
      /\ in_service' \subseteq {1} /\ UNCHANGED <<kernel, chip, imr>>
  BY <1>1 DEF IInv, Shape, ServiceInv, pics
<1> QED BY <1>1, <1>2, <1>3, AfterEntry

LEMMA CommandYieldStep ==
  ASSUME IInv, CommandYield
  PROVE  IInv'
<1>1. /\ at = "driver_keyboard_isr" /\ Enter(INT_PIT, "handled") /\ UNCHANGED <<pics, kernel>>
  BY DEF CommandYield
<1>2. at \notin AllTasks /\ stage = Running
  BY <1>1, Constants DEF Places, IInv, Shape, FlagInv
<1>3. /\ irr' \subseteq Devices /\ in_service' \in InServiceSets
      /\ in_service' \subseteq {1} /\ UNCHANGED <<kernel, chip, imr>>
  BY <1>1 DEF IInv, Shape, ServiceInv, pics
<1>4. INT_PIT \in Gates
  BY Numbers DEF Gates
<1> QED BY <1>1, <1>2, <1>3, <1>4, AfterEntry

LEMMA IsrHandlerStep ==
  ASSUME IInv, IsrHandler
  PROVE  IInv'
<1> DEFINE c == current_task
           s == stack[c]
           v == int_num
<1>1. /\ at = "isr_handler"
      /\ IF v = INT_PIT THEN pic_send_eoi(v) ELSE UNCHANGED in_service
      /\ at' = IF interrupt_handlers[v] = "none" THEN "handled" ELSE interrupt_handlers[v]
      /\ UNCHANGED <<chip, imr, irr, kernel, current_task, stack, regs, int_flag, cs>>
  BY DEF IsrHandler
<1>2. /\ at \notin AllTasks /\ c \in AllTasks /\ stage = Running /\ ~int_flag
      /\ Frames(s, 0, c) /\ stack \in [AllTasks -> Seq(Word)]
  BY <1>1, Constants DEF Places, IInv, TypeOK, Shape, FlagInv, StacksInv
<1>3. v = s[9] /\ v' = v
  BY <1>1 DEF int_num
<1>4. v \in Gates /\ (v = INT_KEYBOARD => Len(s) = 13)
  <2>1. /\ BaseFrame(s, 0, c) => s[0 + 9] \in Gates
        /\ NestedFrame(s, 0, c) => s[0 + 9] \in 0 .. 31 \/ s[0 + 9] = INT_PIT
    BY DEF BaseFrame, NestedFrame
  <2>2. 0 + 9 = 9 /\ 0 + 13 = 13
    OBVIOUS
  <2>3. (BaseFrame(s, 0, c) /\ Len(s) = 13) \/ NestedFrame(s, 0, c)
    BY <1>2, <2>2 DEF Frames
  <2>4. s[9] \in Gates /\ (s[9] = INT_KEYBOARD => Len(s) = 13)
    BY <2>1, <2>2, <2>3, Numbers DEF Gates
  <2> QED BY <1>3, <2>4
<1>5. /\ v = INT_PIT => at' = "timer_tick"
      /\ v = INT_KEYBOARD => at' = "driver_keyboard_isr"
      /\ v # INT_PIT /\ v # INT_KEYBOARD => at' = "handled"
  <2>1. v \in Vectors /\ stage > 6
    BY <1>2, <1>4, Start DEF Gates, Vectors
  <2>2. interrupt_handlers[v] = CASE v = INT_PIT /\ stage > 5 -> "timer_tick"
                                  [] v = INT_KEYBOARD /\ stage > 6 -> "driver_keyboard_isr"
                                  [] OTHER -> "none"
    BY <2>1 DEF IInv, Shape, TablesInv
  <2>3. stage > 5 /\ INT_PIT # INT_KEYBOARD
    BY <2>1, Numbers, <1>2, Start
  <2> QED BY <1>1, <2>1, <2>2, <2>3
<1> HIDE DEF v, s
<1>6. at' \in {"timer_tick", "driver_keyboard_isr", "handled"} /\ at' \notin AllTasks
  BY <1>5, Constants DEF Places
<1>7. stage' = stage /\ ChipsInv' /\ TablesInv'
  BY <1>1, StartUpStays DEF kernel
<1>8. FlagInv'
  BY <1>1, <1>2, <1>6, <1>7 DEF FlagInv, Running
<1>9. StacksInv'
  <2>1. \A t \in AllTasks \ {c} : stack[t] = <<>> \/ Suspended(stack[t], t) \/ New(stack[t], t)
    BY DEF IInv, Shape, StacksInv
  <2>2. /\ at' = "driver_keyboard_isr" => v = INT_KEYBOARD /\ Len(s) = 13
        /\ at' = "timer_tick" => v = INT_PIT
        /\ at' # "isr_exit"
    BY <1>4, <1>5, <1>6
  <2>3. /\ Frames(stack'[current_task'], 0, current_task')
        /\ at' = "driver_keyboard_isr" =>
             int_num' = INT_KEYBOARD /\ Len(stack'[current_task']) = 13
        /\ at' = "timer_tick" => int_num' = INT_PIT
    BY <1>1, <1>2, <1>3, <2>2 DEF s, v
  <2> QED BY <1>1, <1>6, <2>1, <2>2, <2>3 DEF StacksInv
<1>10. RegistersInv'
  BY <1>1, <1>6 DEF IInv, Shape, RegistersInv, Interrupted
<1>11. ServiceInv'
  <2>1. /\ in_service \in InServiceSets /\ irr' \subseteq Devices
        /\ v < 32 \/ v = INT_KEYBOARD => in_service \subseteq {1}
    BY <1>1 DEF IInv, Shape, ServiceInv, v
  <2>2. CASE v = INT_PIT
    <3>1. in_service' = Ended(1, IF v >= 8 THEN Ended(2, in_service) ELSE in_service)
      BY <1>1, <2>2 DEF pic_send_eoi
    <3>2. v >= 8
      BY <2>2, Numbers
    <3>3. in_service' = {}
      BY <1>4, <2>1, <3>1, <3>2, ServiceEnds
    <3> QED BY <1>6, <2>1, <3>3 DEF ServiceInv, InServiceSets
  <2>3. CASE v # INT_PIT
    <3>1. in_service' = in_service /\ at' \in {"driver_keyboard_isr", "handled"}
      BY <1>1, <1>5, <2>3
    <3>2. at' = "driver_keyboard_isr" => in_service' \subseteq {1}
      BY <1>5, <2>1, <2>3, <3>1
    <3>3. int_num' = v
      BY <1>3 DEF v
    <3> QED BY <1>6, <2>1, <3>1, <3>2, <3>3 DEF ServiceInv
  <2> QED BY <2>2, <2>3
<1>12. TypeOK'
  <2>1. in_service' \subseteq Lines /\ at' \in Places
    BY <1>6, <1>11 DEF ServiceInv, InServiceSets, Lines, Places
  <2> QED BY <1>1, <2>1 DEF IInv, TypeOK, kernel, segments
<1> QED BY <1>1, <1>2, <1>7, <1>8, <1>9, <1>10, <1>11, <1>12 DEF IInv, Shape

LEMMA KeyboardStep ==
  ASSUME IInv, Keyboard
  PROVE  IInv'
<1>1. /\ at = "driver_keyboard_isr" /\ at' = "handled"
      /\ UNCHANGED <<pics, kernel, current_task, stack, regs, int_flag, cs>>
  BY DEF Keyboard
<1>2. /\ at \notin AllTasks /\ at' \notin AllTasks /\ at' \in Places
      /\ stage = Running /\ ~int_flag /\ int_num = INT_KEYBOARD
      /\ in_service \subseteq {1} /\ in_service \in InServiceSets /\ irr \subseteq Devices
  BY <1>1, Constants DEF Places, IInv, TypeOK, Shape, FlagInv, StacksInv, ServiceInv
<1>3. stage' = stage /\ ChipsInv' /\ TablesInv'
  BY <1>1, StartUpStays DEF kernel, pics
<1>4. FlagInv'
  BY <1>1, <1>2, <1>3 DEF FlagInv, Running
<1>5. StacksInv'
  BY <1>1, <1>2 DEF IInv, Shape, StacksInv
<1>6. RegistersInv'
  BY <1>1, <1>2 DEF IInv, Shape, RegistersInv, Interrupted
<1>7. ServiceInv'
  BY <1>1, <1>2 DEF ServiceInv, pics
<1>8. TypeOK'
  BY <1>1, <1>2 DEF IInv, TypeOK, pics, kernel, segments
<1> QED BY <1>1, <1>3, <1>4, <1>5, <1>6, <1>7, <1>8 DEF IInv, Shape

LEMMA SpinStep ==
  ASSUME IInv, Spin
  PROVE  IInv'
<1>1. /\ at \in {"isr_handler", "timer_tick", "driver_keyboard_isr"} /\ at' = "lock"
      /\ UNCHANGED <<pics, kernel, current_task, stack, regs, int_flag, cs>>
  BY DEF Spin
<1>2. /\ at \notin AllTasks /\ at' \notin AllTasks /\ at' \in Places
      /\ stage = Running /\ ~int_flag
      /\ in_service \in InServiceSets /\ irr \subseteq Devices
  BY <1>1, Constants DEF Places, IInv, TypeOK, Shape, FlagInv, ServiceInv
<1>3. stage' = stage /\ ChipsInv' /\ TablesInv'
  BY <1>1, StartUpStays DEF kernel, pics
<1>4. FlagInv'
  BY <1>1, <1>2, <1>3 DEF FlagInv, Running
<1>5. StacksInv'
  BY <1>1, <1>2 DEF IInv, Shape, StacksInv
<1>6. RegistersInv'
  BY <1>1, <1>2 DEF RegistersInv, Interrupted
<1>7. ServiceInv'
  BY <1>1, <1>2 DEF ServiceInv, pics
<1>8. TypeOK'
  BY <1>1, <1>2 DEF IInv, TypeOK, pics, kernel, segments
<1> QED BY <1>1, <1>3, <1>4, <1>5, <1>6, <1>7, <1>8 DEF IInv, Shape

LEMMA LockStep ==
  ASSUME IInv, NEW l \in Locks, Lock(l) \/ Unlock(l)
  PROVE  IInv'
<1>1. /\ \E t \in {current_task, Nobody} : holder' = [holder EXCEPT ![l] = t]
      /\ UNCHANGED <<pics, segments, idt, interrupt_handlers, stage, sent, cpu>>
  BY DEF Lock, Unlock
<1>2. UNCHANGED <<chip, imr, irr, in_service, gdt, ds, tr, idt, interrupt_handlers, stage, sent,
                  current_task, stack, at, regs, int_flag, cs>>
  BY <1>1 DEF pics, segments, cpu
<1>3. holder' \in [Locks -> AllTasks \cup {Nobody}]
  BY <1>1 DEF IInv, TypeOK
<1>4. TypeOK'
  BY <1>2, <1>3 DEF IInv, TypeOK
<1>5. ChipsInv' /\ TablesInv' /\ FlagInv'
  BY <1>2 DEF IInv, Shape, ChipsInv, Chip1Waits, Chip2Waits, TablesInv, FlagInv
<1>6. StacksInv'
  BY <1>2 DEF IInv, Shape, StacksInv, int_num
<1>7. RegistersInv' /\ ServiceInv'
  BY <1>2 DEF IInv, Shape, RegistersInv, ServiceInv, int_num
<1> QED BY <1>2, <1>4, <1>5, <1>6, <1>7 DEF IInv, Shape

LEMMA ReturnStep ==
  ASSUME IInv, Return
  PROVE  IInv'
<1>1. /\ at = "handled" /\ pic_send_eoi(int_num) /\ LeaveFrame
      /\ UNCHANGED <<chip, imr, irr, kernel>>
  BY DEF Return
<1>2. /\ at \notin AllTasks /\ Frames(stack[current_task], 0, current_task)
      /\ in_service \in InServiceSets
      /\ int_num < 32 => in_service \subseteq {1}
  BY <1>1, Constants DEF Places, IInv, Shape, StacksInv, ServiceInv
<1> DEFINE s == stack[current_task]
           v == int_num
<1>3. v \in Gates
  <2>1. /\ BaseFrame(s, 0, current_task) => s[0 + 9] \in Gates
        /\ NestedFrame(s, 0, current_task) => s[0 + 9] \in 0 .. 31 \/ s[0 + 9] = INT_PIT
    BY DEF BaseFrame, NestedFrame
  <2>2. 0 + 9 = 9
    OBVIOUS
  <2>3. BaseFrame(s, 0, current_task) \/ NestedFrame(s, 0, current_task)
    BY <1>2 DEF Frames
  <2>4. s[9] \in Gates
    BY <2>1, <2>2, <2>3, Numbers DEF Gates
  <2> QED BY <2>4 DEF int_num
<1>4. v < 32 \/ v >= 8
  BY <1>3 DEF Gates
<1> HIDE DEF v
<1>5. in_service' = Ended(1, IF v >= 8 THEN Ended(2, in_service) ELSE in_service)
  BY <1>1 DEF pic_send_eoi, v
<1>6. v >= 8 \/ in_service \subseteq {1}
  BY <1>2, <1>4 DEF v
<1>7. in_service' = {}
  BY <1>2, <1>3, <1>5, <1>6, ServiceEnds
<1> QED BY <1>1, <1>7, AfterLeaving

LEMMA IsrExitStep ==
  ASSUME IInv, isr_exit
  PROVE  IInv'
<1>1. /\ at = "isr_exit" /\ LeaveFrame /\ UNCHANGED <<pics, kernel>>
  BY DEF isr_exit
<1>2. in_service' = {} /\ UNCHANGED <<kernel, chip, imr, irr>>
  BY <1>1 DEF IInv, Shape, ServiceInv, pics
<1> QED BY <1>1, <1>2, AfterLeaving

LEMMA TaskCreateStep ==
  ASSUME IInv, NEW t \in Tasks, task_create(t)
  PROVE  IInv'
<1> DEFINE c == current_task
           s == Context(<<>>, <<>>, <<>>, <<>>, "isr_exit")
                  \o [i \in 1 .. 8 |-> <<>>] \o <<0, 0>> \o <<t, KERNEL_CODE, TRUE>>
<1>1. /\ ~Started(t) /\ stack' = [stack EXCEPT ![t] = s]
      /\ UNCHANGED <<pics, kernel, current_task, at, regs, int_flag, cs>>
  BY DEF task_create
<1>2. t \in AllTasks /\ t # c /\ c \in AllTasks /\ stack \in [AllTasks -> Seq(Word)]
  BY <1>1, Constants DEF Started, IInv, TypeOK
<1>3. s \in Seq(Word) /\ New(s, t)
  BY <1>2, Creating
<1> HIDE DEF s
<1>4. /\ stack' \in [AllTasks -> Seq(Word)] /\ stack'[t] = s
      /\ \A u \in AllTasks \ {t} : stack'[u] = stack[u]
  BY <1>1, <1>2, <1>3
<1>5. /\ c' = c /\ stack'[c] = stack[c] /\ int_num' = int_num
      /\ UNCHANGED <<at, stage, regs, int_flag, irr, in_service>>
  BY <1>1, <1>2, <1>4 DEF int_num, kernel, pics
<1>6. ChipsInv' /\ TablesInv'
  BY <1>1, StartUpStays DEF pics
<1>7. FlagInv'
  BY <1>5 DEF IInv, Shape, FlagInv, Running
<1>8. StacksInv'
  <2>1. \A u \in AllTasks \ {c} : stack'[u] = <<>> \/ Suspended(stack'[u], u) \/ New(stack'[u], u)
    BY <1>2, <1>3, <1>4 DEF IInv, Shape, StacksInv
  <2> QED BY <1>5, <2>1 DEF IInv, Shape, StacksInv
<1>9. RegistersInv'
  BY <1>5 DEF IInv, Shape, RegistersInv
<1>10. ServiceInv'
  BY <1>5 DEF IInv, Shape, ServiceInv
<1>11. TypeOK'
  BY <1>1 DEF IInv, TypeOK, pics, kernel, segments
<1> QED BY <1>4, <1>6, <1>7, <1>8, <1>9, <1>10, <1>11 DEF IInv, Shape

LEMMA TaskStepStep ==
  ASSUME IInv, TaskStep
  PROVE  IInv'
<1>1. /\ at = current_task /\ regs' = Own(current_task)
      /\ UNCHANGED <<pics, kernel, current_task, stack, at, int_flag, cs>>
  BY DEF TaskStep
<1>2. /\ current_task \in AllTasks /\ at \in AllTasks /\ at \notin Places
      /\ UNCHANGED <<stage, irr, in_service>>
  BY <1>1, Constants DEF IInv, TypeOK, kernel, pics
<1>3. regs' \in [Registers -> Contents]
  BY <1>1, <1>2, Words DEF Own
<1>4. ChipsInv' /\ TablesInv'
  BY <1>1, StartUpStays DEF pics
<1>5. FlagInv' /\ StacksInv' /\ ServiceInv'
  BY <1>1, <1>2 DEF IInv, Shape, FlagInv, Running, StacksInv, ServiceInv, int_num
<1>6. RegistersInv'
  BY <1>1, <1>2 DEF RegistersInv, Interrupted, Places
<1>7. TypeOK'
  BY <1>1, <1>3 DEF IInv, TypeOK, pics, kernel, segments
<1> QED BY <1>1, <1>4, <1>5, <1>6, <1>7 DEF IInv, Shape

LEMMA RaiseStep ==
  ASSUME IInv, NEW l \in Devices, Raise(l)
  PROVE  IInv'
<1>1. irr' = irr \cup {l} /\ UNCHANGED <<chip, imr, in_service, kernel, cpu>>
  BY DEF Raise
<1>2. irr' \subseteq Devices
  BY <1>1 DEF IInv, Shape, ServiceInv
<1>3. ChipsInv' /\ TablesInv'
  BY <1>1, StartUpStays DEF cpu
<1>4. FlagInv' /\ StacksInv' /\ RegistersInv' /\ ServiceInv'
  BY <1>1, <1>2 DEF IInv, Shape, FlagInv, Running, StacksInv, RegistersInv, ServiceInv, int_num, kernel, cpu
<1>5. TypeOK' /\ stack' \in [AllTasks -> Seq(Word)]
  BY <1>1, <1>2, Constants DEF IInv, TypeOK, kernel, segments, cpu
<1> QED BY <1>3, <1>4, <1>5 DEF IInv, Shape

(***************************************************************************)
(* Start-up.                                                               *)
(***************************************************************************)

\* Before interrupts are on a task runs, and nothing is in service.
LEMMA Booting ==
  ASSUME IInv, stage < 8
  PROVE  /\ at \in AllTasks /\ int_flag = FALSE /\ in_service = {} /\ stage \in 1 .. 7
         /\ irr \subseteq Devices
BY Start DEF IInv, TypeOK, Shape, FlagInv, ServiceInv, Running

LEMMA BootedStep ==
  ASSUME IInv, stage < 8, UNCHANGED <<current_task, stack, at, regs>>,
         irr' \subseteq irr, in_service' = {},
         \/ stage' # 8 /\ int_flag' = FALSE
         \/ stage' = 8 /\ int_flag' = TRUE
  PROVE  FlagInv' /\ StacksInv' /\ RegistersInv' /\ ServiceInv'
<1>1. /\ at \in AllTasks /\ at' \in AllTasks /\ at' \notin Places /\ irr' \subseteq Devices
  BY Booting, Constants
<1>2. FlagInv'
  BY <1>1, Start DEF FlagInv, Running, Places
<1>3. StacksInv'
  BY <1>1 DEF IInv, Shape, StacksInv, Places, int_num
<1>4. RegistersInv'
  BY <1>1 DEF IInv, Shape, RegistersInv
<1>5. ServiceInv'
  BY <1>1 DEF ServiceInv, InServiceSets
<1> QED BY <1>2, <1>3, <1>4, <1>5

\* The stages by number.
LEMMA Named ==
  ASSUME TypeOK
  PROVE  /\ Reached("gdt_init") => stage = 1
         /\ Reached("idt_init") => stage = 2
         /\ Reached("idt_load") => stage = 3
         /\ Reached("pic_init") => stage = 4
         /\ Reached("timer_init") => stage = 5
         /\ Reached("driver_keyboard_init") => stage = 6
         /\ Reached("enable_hardware_interrupts") => stage = 7
<1>1. stage \in 1 .. 8
  BY Start DEF TypeOK, Running
<1> QED BY <1>1 DEF Reached, Stages

LEMMA GdtStep ==
  ASSUME IInv, gdt_init
  PROVE  IInv'
<1>1. stage = 1
  BY Named DEF IInv, gdt_init
<1>2. /\ cs' = KERNEL_CODE /\ ds' = KERNEL_DATA /\ tr' = TSS_SELECTOR /\ stage' = stage + 1
      /\ gdt' = Busy(gdt_entries(TaskState)) /\ at' = at
      /\ UNCHANGED <<pics, idt, interrupt_handlers, holder, sent, current_task, stack, regs, int_flag>>
  BY Accepted DEF gdt_init
<1>3. in_service' = {} /\ irr' = irr /\ int_flag' = FALSE
  BY <1>1, <1>2, Booting DEF pics
<1>4. FlagInv' /\ StacksInv' /\ RegistersInv' /\ ServiceInv'
  <2>1. /\ stage < 8 /\ stage' # 8 /\ UNCHANGED <<current_task, stack, at, regs>>
        /\ irr' \subseteq irr /\ in_service' = {} /\ int_flag' = FALSE
    BY <1>1, <1>2, <1>3 DEF cpu
  <2> QED BY <2>1, BootedStep
<1>5. ChipsInv'
  BY <1>1, <1>2 DEF IInv, Shape, ChipsInv, Chip1Waits, Chip2Waits, pics
<1>6. TablesInv'
  BY <1>1, <1>2 DEF IInv, Shape, TablesInv
<1>7. TypeOK'
  <2>1. cs' \in Byte /\ ds' \in Byte /\ tr' \in Byte /\ stage' \in 1 .. 8
    BY <1>1, <1>2, Numbers DEF Byte
  <2> QED BY <1>2, <2>1, Start DEF IInv, TypeOK, pics, Running
<1> QED BY <1>2, <1>4, <1>5, <1>6, <1>7 DEF IInv, Shape

LEMMA IdtInitStep ==
  ASSUME IInv, idt_init
  PROVE  IInv'
<1>1. stage = 2
  BY Named DEF IInv, idt_init
<1>2. idt' = Gates /\ stage' = 3 /\ UNCHANGED <<pics, segments, interrupt_handlers, holder, sent, cpu>>
  BY <1>1 DEF idt_init, Gates
<1>3. in_service' = {} /\ irr' = irr /\ int_flag' = FALSE
  BY <1>1, <1>2, Booting DEF pics, cpu
<1>4. FlagInv' /\ StacksInv' /\ RegistersInv' /\ ServiceInv'
  <2>1. /\ stage < 8 /\ stage' # 8 /\ UNCHANGED <<current_task, stack, at, regs>>
        /\ irr' \subseteq irr /\ in_service' = {} /\ int_flag' = FALSE
    BY <1>1, <1>2, <1>3 DEF cpu
  <2> QED BY <2>1, BootedStep
<1>5. ChipsInv'
  BY <1>1, <1>2 DEF IInv, Shape, ChipsInv, Chip1Waits, Chip2Waits, pics
<1>6. TablesInv'
  BY <1>1, <1>2 DEF IInv, Shape, TablesInv, segments, cpu
<1>7. TypeOK'
  <2>1. idt' \subseteq Vectors /\ stage' \in 1 .. 8
    BY <1>2 DEF Gates, Vectors
  <2> QED BY <1>2, <2>1, Start DEF IInv, TypeOK, pics, segments, cpu, Running
<1> QED BY <1>2, <1>4, <1>5, <1>6, <1>7 DEF IInv, Shape, cpu

LEMMA IdtLoadStep ==
  ASSUME IInv, idt_load
  PROVE  IInv'
<1>1. stage = 3
  BY Named DEF IInv, idt_load
<1>2. stage' = 4 /\ UNCHANGED <<pics, segments, idt, interrupt_handlers, holder, sent, cpu>>
  BY <1>1 DEF idt_load
<1>3. in_service' = {} /\ irr' = irr /\ int_flag' = FALSE
  BY <1>1, <1>2, Booting DEF pics, cpu
<1>4. FlagInv' /\ StacksInv' /\ RegistersInv' /\ ServiceInv'
  <2>1. /\ stage < 8 /\ stage' # 8 /\ UNCHANGED <<current_task, stack, at, regs>>
        /\ irr' \subseteq irr /\ in_service' = {} /\ int_flag' = FALSE
    BY <1>1, <1>2, <1>3 DEF cpu
  <2> QED BY <2>1, BootedStep
<1>5. ChipsInv'
  BY <1>1, <1>2 DEF IInv, Shape, ChipsInv, Chip1Waits, Chip2Waits, pics
<1>6. TablesInv'
  BY <1>1, <1>2 DEF IInv, Shape, TablesInv, segments, cpu
<1>7. TypeOK'
  <2>1. stage' \in 1 .. 8
    BY <1>2
  <2> QED BY <1>2, <2>1, Start DEF IInv, TypeOK, pics, segments, cpu, Running
<1> QED BY <1>2, <1>4, <1>5, <1>6, <1>7 DEF IInv, Shape, cpu

LEMMA RegisterStep ==
  ASSUME IInv, NEW int, NEW handler, register_interrupt_handler(int, handler),
         \/ stage = 5 /\ int = INT_PIT /\ handler = "timer_tick"
         \/ stage = 6 /\ int = INT_KEYBOARD /\ handler = "driver_keyboard_isr"
  PROVE  IInv'
<1>1. /\ interrupt_handlers' = [interrupt_handlers EXCEPT ![int] = handler]
      /\ stage' = stage + 1 /\ UNCHANGED <<pics, segments, idt, holder, sent, cpu>>
  BY DEF register_interrupt_handler
<1>2. in_service' = {} /\ irr' = irr /\ int_flag' = FALSE
  <2>1. stage < 8
    OBVIOUS
  <2>2. in_service = {} /\ int_flag = FALSE
    BY <2>1, Booting
  <2> QED BY <1>1, <2>2 DEF pics, cpu
<1>3. FlagInv' /\ StacksInv' /\ RegistersInv' /\ ServiceInv'
  <2>1. /\ stage < 8 /\ stage' # 8 /\ UNCHANGED <<current_task, stack, at, regs>>
        /\ irr' \subseteq irr /\ in_service' = {} /\ int_flag' = FALSE
    BY <1>1, <1>2 DEF cpu
  <2> QED BY <2>1, BootedStep
<1>4. ChipsInv'
  BY <1>1 DEF IInv, Shape, ChipsInv, Chip1Waits, Chip2Waits, pics
<1>5. interrupt_handlers' \in [Vectors -> {"none", "timer_tick", "driver_keyboard_isr"}]
  BY <1>1 DEF IInv, TypeOK
<1>6. TablesInv'
  <2>1. \A v \in Vectors : interrupt_handlers'[v] = IF v = int THEN handler ELSE interrupt_handlers[v]
    BY <1>1 DEF IInv, TypeOK
  <2>2. \A v \in Vectors : interrupt_handlers[v] =
          CASE v = INT_PIT /\ stage > 5 -> "timer_tick"
            [] v = INT_KEYBOARD /\ stage > 6 -> "driver_keyboard_isr"
            [] OTHER -> "none"
    BY DEF IInv, Shape, TablesInv
  <2>3. \A v \in Vectors : interrupt_handlers'[v] =
          CASE v = INT_PIT /\ stage' > 5 -> "timer_tick"
            [] v = INT_KEYBOARD /\ stage' > 6 -> "driver_keyboard_isr"
            [] OTHER -> "none"
    <3>1. CASE stage = 5 /\ int = INT_PIT /\ handler = "timer_tick"
      BY <1>1, <2>1, <2>2, <3>1, Numbers
    <3>2. CASE stage = 6 /\ int = INT_KEYBOARD /\ handler = "driver_keyboard_isr"
      BY <1>1, <2>1, <2>2, <3>2, Numbers
    <3> QED BY <3>1, <3>2
  <2> QED BY <1>1, <2>3 DEF IInv, Shape, TablesInv, segments, cpu
<1>7. TypeOK'
  <2>1. stage' \in 1 .. 8
    BY <1>1
  <2> QED BY <1>1, <1>5, <2>1, Start DEF IInv, TypeOK, pics, segments, cpu, Running
<1> QED BY <1>1, <1>3, <1>4, <1>6, <1>7 DEF IInv, Shape, cpu

LEMMA EnableStep ==
  ASSUME IInv, enable_hardware_interrupts
  PROVE  IInv'
<1>1. stage = 7
  BY Named DEF IInv, enable_hardware_interrupts
<1>2. /\ int_flag' = TRUE /\ stage' = 8
      /\ UNCHANGED <<pics, segments, idt, interrupt_handlers, holder, sent, current_task, stack, at,
                     regs, cs>>
  BY <1>1 DEF enable_hardware_interrupts
<1>3. in_service' = {} /\ irr' = irr
  BY <1>1, <1>2, Booting DEF pics
<1>4. FlagInv' /\ StacksInv' /\ RegistersInv' /\ ServiceInv'
  BY <1>1, <1>2, <1>3, BootedStep
<1>5. ChipsInv'
  BY <1>1, <1>2 DEF IInv, Shape, ChipsInv, Chip1Waits, Chip2Waits, pics
<1>6. TablesInv'
  BY <1>1, <1>2 DEF IInv, Shape, TablesInv, segments
<1>7. TypeOK'
  <2>1. stage' \in 1 .. 8
    BY <1>2
  <2> QED BY <1>2, <2>1, Start DEF IInv, TypeOK, pics, segments, Running
<1> QED BY <1>2, <1>4, <1>5, <1>6, <1>7 DEF IInv, Shape

\* What TypeOK says of one 8259.
Chip == [icw : 0 .. 4, offset : Vectors, cascade : Vectors, mode : Vectors]

\* A word brings a chip to the next step of its initialisation.
LEMMA Edited ==
  ASSUME NEW e \in Chip, NEW v \in Vectors
  PROVE  /\ \A i \in 0 .. 4 : [e EXCEPT !.icw = i] \in Chip
         /\ [e EXCEPT !.icw = 3, !.offset = v] \in Chip
         /\ [e EXCEPT !.icw = 4, !.cascade = v] \in Chip
         /\ [e EXCEPT !.icw = 0, !.mode = v] \in Chip
<1>1. ASSUME NEW f \in Chip
      PROVE  /\ [f EXCEPT !.offset = v] \in Chip
             /\ [f EXCEPT !.cascade = v] \in Chip
             /\ [f EXCEPT !.mode = v] \in Chip
  BY DEF Chip
<1>2. \A i \in 0 .. 4 : [e EXCEPT !.icw = i] \in Chip
  BY DEF Chip
<1>3. /\ [e EXCEPT !.icw = 3] \in Chip
      /\ [e EXCEPT !.icw = 4] \in Chip
      /\ [e EXCEPT !.icw = 0] \in Chip
  BY <1>2
<1>4. [e EXCEPT !.icw = 3, !.offset = v] = [[e EXCEPT !.icw = 3] EXCEPT !.offset = v]
  BY DEF Chip
<1>5. [e EXCEPT !.icw = 4, !.cascade = v] = [[e EXCEPT !.icw = 4] EXCEPT !.cascade = v]
  BY DEF Chip
<1>6. [e EXCEPT !.icw = 0, !.mode = v] = [[e EXCEPT !.icw = 0] EXCEPT !.mode = v]
  BY DEF Chip
<1>7. [e EXCEPT !.icw = 3, !.offset = v] \in Chip
  BY <1>1, <1>3, <1>4
<1>8. [e EXCEPT !.icw = 4, !.cascade = v] \in Chip
  BY <1>1, <1>3, <1>5
<1>9. [e EXCEPT !.icw = 0, !.mode = v] \in Chip
  BY <1>1, <1>3, <1>6
<1> QED BY <1>2, <1>7, <1>8, <1>9

LEMMA ProgrammedChip ==
  ASSUME NEW c \in 1 .. 2, chip[c] \in Chip, NEW v \in Vectors
  PROVE  /\ Programmed(c, v) \in Chip
         /\ chip[c].icw = 2 => Programmed(c, v).icw = 3 /\ Programmed(c, v).offset = v
         /\ chip[c].icw = 3 => Programmed(c, v).icw = 4 /\ Programmed(c, v).offset = chip[c].offset
         /\ chip[c].icw = 4 => Programmed(c, v).icw = 0 /\ Programmed(c, v).offset = chip[c].offset
         /\ chip[c].icw = 0 => Programmed(c, v) = chip[c]
<1>1. CASE chip[c].icw = 2
  <2>1. Programmed(c, v) = [chip[c] EXCEPT !.icw = 3, !.offset = v]
    BY <1>1 DEF Programmed
  <2>2. Programmed(c, v).icw = 3 /\ Programmed(c, v).offset = v
    BY <2>1 DEF Chip
  <2>3. Programmed(c, v) \in Chip
    BY <2>1, Edited
  <2> QED BY <1>1, <2>2, <2>3
<1>2. CASE chip[c].icw = 3
  <2>1. Programmed(c, v) = [chip[c] EXCEPT !.icw = 4, !.cascade = v]
    BY <1>2 DEF Programmed
  <2>2. Programmed(c, v).icw = 4 /\ Programmed(c, v).offset = chip[c].offset
    BY <2>1 DEF Chip
  <2>3. Programmed(c, v) \in Chip
    BY <2>1, Edited
  <2> QED BY <1>2, <2>2, <2>3
<1>3. CASE chip[c].icw = 4
  <2>1. Programmed(c, v) = [chip[c] EXCEPT !.icw = 0, !.mode = v]
    BY <1>3 DEF Programmed
  <2>2. Programmed(c, v).icw = 0 /\ Programmed(c, v).offset = chip[c].offset
    BY <2>1 DEF Chip
  <2>3. Programmed(c, v) \in Chip
    BY <2>1, Edited
  <2> QED BY <1>3, <2>2, <2>3
<1>4. CASE chip[c].icw \notin {2, 3, 4}
  <2>1. Programmed(c, v) = chip[c]
    BY <1>4 DEF Programmed
  <2> QED BY <1>4, <2>1
<1> QED BY <1>1, <1>2, <1>3, <1>4

LEMMA Commanded ==
  ASSUME NEW e \in Chip
  PROVE  LET n == [e EXCEPT !.icw = 2] IN n \in Chip /\ n.icw = 2 /\ n.offset = e.offset
BY DEF Chip

LEMMA ChipReplaced ==
  ASSUME chip \in [1 .. 2 -> Chip], NEW c \in 1 .. 2, NEW n \in Chip, chip' = [chip EXCEPT ![c] = n]
  PROVE  /\ chip' \in [1 .. 2 -> Chip] /\ chip'[c] = n
         /\ \A d \in 1 .. 2 : d # c => chip'[d] = chip[d]
OBVIOUS

LEMMA WordsWritten ==
  /\ pic_init[0 + 1] = <<1, Command, 17>> /\ pic_init[1 + 1] = <<2, Command, 17>>
  /\ pic_init[2 + 1] = <<1, Data, 32>> /\ pic_init[3 + 1] = <<2, Data, 40>>
  /\ pic_init[4 + 1] = <<1, Data, 4>> /\ pic_init[5 + 1] = <<2, Data, 2>>
  /\ pic_init[6 + 1] = <<1, Data, 1>> /\ pic_init[7 + 1] = <<2, Data, 1>>
  /\ pic_init[8 + 1] = <<1, Data, 0>> /\ pic_init[9 + 1] = <<2, Data, 0>>
BY DEF pic_init, ICW1, PIC_MASTER_OFFSET, PIC_SLAVE_OFFSET

\* Each word of pic_init reaches the chip that waits for it.
LEMMA PicWriteStep ==
  ASSUME IInv, PicWrite
  PROVE  IInv'
<1> DEFINE w == pic_init[sent + 1]
<1>1. stage = 4 /\ sent \in 0 .. 9
  BY Named, Start DEF IInv, TypeOK, PicWrite
<1>2. /\ io_port_out(w[1], w[2], w[3]) /\ sent' = sent + 1
      /\ stage' = IF sent' = 10 THEN 5 ELSE 4
      /\ UNCHANGED <<segments, idt, interrupt_handlers, holder, cpu>>
  BY <1>1, Start DEF PicWrite
<1>3. /\ chip \in [1 .. 2 -> Chip]
      /\ chip[1].icw = Chip1Waits /\ chip[2].icw = Chip2Waits
      /\ sent >= 3 => chip[1].offset = PIC_MASTER_OFFSET
      /\ sent >= 4 => chip[2].offset = PIC_SLAVE_OFFSET
      /\ chip[1] \in Chip /\ chip[2] \in Chip
  BY DEF IInv, TypeOK, Shape, ChipsInv, Chip
<1>4. in_service = {} /\ irr \subseteq Devices
  BY <1>1, Booting
<1>5. /\ chip' = [chip EXCEPT ![w[1]] = IF w[2] = Command THEN [@ EXCEPT !.icw = 2]
                                                       ELSE Programmed(w[1], w[3])]
      /\ in_service' = {} /\ irr' \subseteq irr /\ imr' \subseteq Lines
  BY <1>2, <1>4 DEF io_port_out, IInv, TypeOK
<1>6. /\ chip' \in [1 .. 2 -> Chip]
      /\ ChipsInv'
  <2>1. CASE sent = 0
    <3>1. w[1] = 1 /\ w[2] = Command
      BY <2>1, WordsWritten
    <3>2. PICK n \in Chip : n.icw = 2 /\ n.offset = chip[1].offset /\ n = [chip[1] EXCEPT !.icw = 2]
      <4>1. chip[1] \in Chip
        BY <1>3
      <4> QED BY <4>1, Commanded
    <3>3. chip' = [chip EXCEPT ![1] = n]
      BY <3>1, <3>2, <1>5
    <3>4. /\ chip' \in [1 .. 2 -> Chip]
          /\ chip'[1].icw = 2 /\ chip'[1].offset = chip[1].offset /\ chip'[2] = chip[2]
      BY <1>3, <3>2, <3>3, ChipReplaced
    <3> QED BY <2>1, <3>4, <1>2, <1>3, Numbers DEF ChipsInv, Chip1Waits, Chip2Waits
  <2>2. CASE sent = 1
    <3>1. w[1] = 2 /\ w[2] = Command
      BY <2>2, WordsWritten
    <3>2. PICK n \in Chip : n.icw = 2 /\ n.offset = chip[2].offset /\ n = [chip[2] EXCEPT !.icw = 2]
      <4>1. chip[2] \in Chip
        BY <1>3
      <4> QED BY <4>1, Commanded
    <3>3. chip' = [chip EXCEPT ![2] = n]
      BY <3>1, <3>2, <1>5
    <3>4. /\ chip' \in [1 .. 2 -> Chip]
          /\ chip'[2].icw = 2 /\ chip'[2].offset = chip[2].offset /\ chip'[1] = chip[1]
      BY <1>3, <3>2, <3>3, ChipReplaced
    <3> QED BY <2>2, <3>4, <1>2, <1>3, Numbers DEF ChipsInv, Chip1Waits, Chip2Waits
  <2>3. CASE sent = 2
    <3>1. w[1] = 1 /\ w[2] = Data /\ w[3] = 32 /\ chip[1].icw = 2
      BY <2>3, <1>3, WordsWritten DEF Chip1Waits
    <3>2. PICK n \in Chip : n.icw = 3 /\ n.offset = 32 /\ n = Programmed(1, 32)
      <4>1. chip[1] \in Chip /\ 1 \in 1 .. 2 /\ 32 \in Vectors
        BY <1>3 DEF Vectors
      <4>2. /\ Programmed(1, 32) \in Chip
            /\ Programmed(1, 32).icw = 3 /\ Programmed(1, 32).offset = 32
        BY <3>1, <4>1, ProgrammedChip
      <4> QED BY <4>2
    <3>3. chip' = [chip EXCEPT ![1] = n]
      BY <3>1, <3>2, <1>5 DEF Command, Data
    <3>4. /\ chip' \in [1 .. 2 -> Chip]
          /\ chip'[1].icw = 3 /\ chip'[1].offset = 32 /\ chip'[2] = chip[2]
      BY <1>3, <3>2, <3>3, ChipReplaced
    <3> QED BY <2>3, <3>4, <1>2, <1>3, Numbers DEF ChipsInv, Chip1Waits, Chip2Waits
  <2>4. CASE sent = 3
    <3>1. w[1] = 2 /\ w[2] = Data /\ w[3] = 40 /\ chip[2].icw = 2
      BY <2>4, <1>3, WordsWritten DEF Chip2Waits
    <3>2. PICK n \in Chip : n.icw = 3 /\ n.offset = 40 /\ n = Programmed(2, 40)
      <4>1. chip[2] \in Chip /\ 2 \in 1 .. 2 /\ 40 \in Vectors
        BY <1>3 DEF Vectors
      <4>2. /\ Programmed(2, 40) \in Chip
            /\ Programmed(2, 40).icw = 3 /\ Programmed(2, 40).offset = 40
        BY <3>1, <4>1, ProgrammedChip
      <4> QED BY <4>2
    <3>3. chip' = [chip EXCEPT ![2] = n]
      BY <3>1, <3>2, <1>5 DEF Command, Data
    <3>4. /\ chip' \in [1 .. 2 -> Chip]
          /\ chip'[2].icw = 3 /\ chip'[2].offset = 40 /\ chip'[1] = chip[1]
      BY <1>3, <3>2, <3>3, ChipReplaced
    <3> QED BY <2>4, <3>4, <1>2, <1>3, Numbers DEF ChipsInv, Chip1Waits, Chip2Waits
  <2>5. CASE sent = 4
    <3>1. w[1] = 1 /\ w[2] = Data /\ w[3] = 4 /\ chip[1].icw = 3
      BY <2>5, <1>3, WordsWritten DEF Chip1Waits
    <3>2. PICK n \in Chip : n.icw = 4 /\ n.offset = chip[1].offset /\ n = Programmed(1, 4)
      <4>1. chip[1] \in Chip /\ 1 \in 1 .. 2 /\ 4 \in Vectors
        BY <1>3 DEF Vectors
      <4>2. /\ Programmed(1, 4) \in Chip
            /\ Programmed(1, 4).icw = 4 /\ Programmed(1, 4).offset = chip[1].offset
        BY <3>1, <4>1, ProgrammedChip
      <4> QED BY <4>2
    <3>3. chip' = [chip EXCEPT ![1] = n]
      BY <3>1, <3>2, <1>5 DEF Command, Data
    <3>4. /\ chip' \in [1 .. 2 -> Chip]
          /\ chip'[1].icw = 4 /\ chip'[1].offset = chip[1].offset /\ chip'[2] = chip[2]
      BY <1>3, <3>2, <3>3, ChipReplaced
    <3> QED BY <2>5, <3>4, <1>2, <1>3, Numbers DEF ChipsInv, Chip1Waits, Chip2Waits
  <2>6. CASE sent = 5
    <3>1. w[1] = 2 /\ w[2] = Data /\ w[3] = 2 /\ chip[2].icw = 3
      BY <2>6, <1>3, WordsWritten DEF Chip2Waits
    <3>2. PICK n \in Chip : n.icw = 4 /\ n.offset = chip[2].offset /\ n = Programmed(2, 2)
      <4>1. chip[2] \in Chip /\ 2 \in 1 .. 2 /\ 2 \in Vectors
        BY <1>3 DEF Vectors
      <4>2. /\ Programmed(2, 2) \in Chip
            /\ Programmed(2, 2).icw = 4 /\ Programmed(2, 2).offset = chip[2].offset
        BY <3>1, <4>1, ProgrammedChip
      <4> QED BY <4>2
    <3>3. chip' = [chip EXCEPT ![2] = n]
      BY <3>1, <3>2, <1>5 DEF Command, Data
    <3>4. /\ chip' \in [1 .. 2 -> Chip]
          /\ chip'[2].icw = 4 /\ chip'[2].offset = chip[2].offset /\ chip'[1] = chip[1]
      BY <1>3, <3>2, <3>3, ChipReplaced
    <3> QED BY <2>6, <3>4, <1>2, <1>3, Numbers DEF ChipsInv, Chip1Waits, Chip2Waits
  <2>7. CASE sent = 6
    <3>1. w[1] = 1 /\ w[2] = Data /\ w[3] = 1 /\ chip[1].icw = 4
      BY <2>7, <1>3, WordsWritten DEF Chip1Waits
    <3>2. PICK n \in Chip : n.icw = 0 /\ n.offset = chip[1].offset /\ n = Programmed(1, 1)
      <4>1. chip[1] \in Chip /\ 1 \in 1 .. 2 /\ 1 \in Vectors
        BY <1>3 DEF Vectors
      <4>2. /\ Programmed(1, 1) \in Chip
            /\ Programmed(1, 1).icw = 0 /\ Programmed(1, 1).offset = chip[1].offset
        BY <3>1, <4>1, ProgrammedChip
      <4> QED BY <4>2
    <3>3. chip' = [chip EXCEPT ![1] = n]
      BY <3>1, <3>2, <1>5 DEF Command, Data
    <3>4. /\ chip' \in [1 .. 2 -> Chip]
          /\ chip'[1].icw = 0 /\ chip'[1].offset = chip[1].offset /\ chip'[2] = chip[2]
      BY <1>3, <3>2, <3>3, ChipReplaced
    <3> QED BY <2>7, <3>4, <1>2, <1>3, Numbers DEF ChipsInv, Chip1Waits, Chip2Waits
  <2>8. CASE sent = 7
    <3>1. w[1] = 2 /\ w[2] = Data /\ w[3] = 1 /\ chip[2].icw = 4
      BY <2>8, <1>3, WordsWritten DEF Chip2Waits
    <3>2. PICK n \in Chip : n.icw = 0 /\ n.offset = chip[2].offset /\ n = Programmed(2, 1)
      <4>1. chip[2] \in Chip /\ 2 \in 1 .. 2 /\ 1 \in Vectors
        BY <1>3 DEF Vectors
      <4>2. /\ Programmed(2, 1) \in Chip
            /\ Programmed(2, 1).icw = 0 /\ Programmed(2, 1).offset = chip[2].offset
        BY <3>1, <4>1, ProgrammedChip
      <4> QED BY <4>2
    <3>3. chip' = [chip EXCEPT ![2] = n]
      BY <3>1, <3>2, <1>5 DEF Command, Data
    <3>4. /\ chip' \in [1 .. 2 -> Chip]
          /\ chip'[2].icw = 0 /\ chip'[2].offset = chip[2].offset /\ chip'[1] = chip[1]
      BY <1>3, <3>2, <3>3, ChipReplaced
    <3> QED BY <2>8, <3>4, <1>2, <1>3, Numbers DEF ChipsInv, Chip1Waits, Chip2Waits
  <2>9. CASE sent = 8
    <3>1. w[1] = 1 /\ w[2] = Data /\ w[3] = 0 /\ chip[1].icw = 0
      BY <2>9, <1>3, WordsWritten DEF Chip1Waits
    <3>2. PICK n \in Chip : n.icw = 0 /\ n.offset = chip[1].offset /\ n = Programmed(1, 0)
      <4>1. chip[1] \in Chip /\ 1 \in 1 .. 2 /\ 0 \in Vectors
        BY <1>3 DEF Vectors
      <4>2. /\ Programmed(1, 0) \in Chip
            /\ Programmed(1, 0).icw = 0 /\ Programmed(1, 0).offset = chip[1].offset
        BY <3>1, <4>1, ProgrammedChip
      <4> QED BY <4>2
    <3>3. chip' = [chip EXCEPT ![1] = n]
      BY <3>1, <3>2, <1>5 DEF Command, Data
    <3>4. /\ chip' \in [1 .. 2 -> Chip]
          /\ chip'[1].icw = 0 /\ chip'[1].offset = chip[1].offset /\ chip'[2] = chip[2]
      BY <1>3, <3>2, <3>3, ChipReplaced
    <3> QED BY <2>9, <3>4, <1>2, <1>3, Numbers DEF ChipsInv, Chip1Waits, Chip2Waits
  <2>10. CASE sent = 9
    <3>1. w[1] = 2 /\ w[2] = Data /\ w[3] = 0 /\ chip[2].icw = 0
      BY <2>10, <1>3, WordsWritten DEF Chip2Waits
    <3>2. PICK n \in Chip : n.icw = 0 /\ n.offset = chip[2].offset /\ n = Programmed(2, 0)
      <4>1. chip[2] \in Chip /\ 2 \in 1 .. 2 /\ 0 \in Vectors
        BY <1>3 DEF Vectors
      <4>2. /\ Programmed(2, 0) \in Chip
            /\ Programmed(2, 0).icw = 0 /\ Programmed(2, 0).offset = chip[2].offset
        BY <3>1, <4>1, ProgrammedChip
      <4> QED BY <4>2
    <3>3. chip' = [chip EXCEPT ![2] = n]
      BY <3>1, <3>2, <1>5 DEF Command, Data
    <3>4. /\ chip' \in [1 .. 2 -> Chip]
          /\ chip'[2].icw = 0 /\ chip'[2].offset = chip[2].offset /\ chip'[1] = chip[1]
      BY <1>3, <3>2, <3>3, ChipReplaced
    <3> QED BY <2>10, <3>4, <1>2, <1>3, Numbers DEF ChipsInv, Chip1Waits, Chip2Waits
  <2> QED BY <1>1, <2>1, <2>2, <2>3, <2>4, <2>5, <2>6, <2>7, <2>8, <2>9, <2>10
<1>7. int_flag' = FALSE /\ stage' # 8
  BY <1>1, <1>2, Booting DEF cpu
<1>8. FlagInv' /\ StacksInv' /\ RegistersInv' /\ ServiceInv'
  <2>1. /\ stage < 8 /\ stage' # 8 /\ UNCHANGED <<current_task, stack, at, regs>>
        /\ irr' \subseteq irr /\ in_service' = {} /\ int_flag' = FALSE
    BY <1>1, <1>2, <1>5, <1>7 DEF cpu
  <2> QED BY <2>1, BootedStep
<1>9. TablesInv'
  BY <1>1, <1>2 DEF IInv, Shape, TablesInv, segments, cpu
<1>10. TypeOK'
  <2>1. stage' \in 1 .. 8 /\ sent' \in 0 .. 10 /\ irr' \subseteq Lines
    BY <1>1, <1>2, <1>4, <1>5, Constants
  <2> QED BY <1>2, <1>5, <1>6, <2>1, Start DEF IInv, TypeOK, segments, cpu, Running, Chip
<1> QED BY <1>2, <1>6, <1>8, <1>9, <1>10 DEF IInv, Shape, cpu

(***************************************************************************)
(* The invariant holds, and what follows from it.                          *)
(***************************************************************************)

LEMMA InitStep ==
  ASSUME Init
  PROVE  IInv
<1>1. /\ at = Idle /\ current_task = Idle /\ Idle \in AllTasks /\ Idle \notin Places
      /\ stage = 1 /\ sent = 0 /\ int_flag = FALSE /\ irr = {} /\ in_service = {}
  BY Constants DEF Init
<1>2. stack \in [AllTasks -> Seq(Word)] /\ \A t \in AllTasks : stack[t] = <<>>
  BY EmptySeq DEF Init
<1>3. regs = Own(Idle) /\ regs \in [Registers -> Contents]
  BY <1>1 DEF Init, Own, Contents
<1>4. TypeOK
  <2>1. chip \in [1 .. 2 -> [icw : 0 .. 4, offset : Vectors, cascade : Vectors, mode : Vectors]]
    BY DEF Init, Vectors
  <2>2. imr \subseteq Lines /\ gdt = <<>> /\ idt \subseteq Vectors
        /\ cs \in Byte /\ ds \in Byte /\ tr \in Byte
    BY DEF Init, Byte
  <2>3. interrupt_handlers \in [Vectors -> {"none", "timer_tick", "driver_keyboard_isr"}]
    BY DEF Init
  <2>4. stage \in 1 .. Len(Stages) /\ sent \in 0 .. 10
    BY <1>1, Start DEF Running
  <2>5. /\ current_task \in AllTasks /\ at \in AllTasks \cup Places /\ int_flag \in BOOLEAN
        /\ irr \subseteq Lines /\ in_service \subseteq Lines
    BY <1>1
  <2>6. holder \in [Locks -> AllTasks \cup {Nobody}]
    BY DEF Init
  <2> QED BY <1>3, <2>1, <2>2, <2>3, <2>4, <2>5, <2>6 DEF TypeOK
<1>5. ChipsInv
  BY <1>1 DEF Init, ChipsInv, Chip1Waits, Chip2Waits
<1>6. TablesInv
  BY <1>1 DEF Init, TablesInv
<1>7. FlagInv
  BY <1>1, Start DEF FlagInv, Places
<1>8. StacksInv
  BY <1>1, <1>2 DEF StacksInv, Places
<1>9. RegistersInv
  BY <1>1, <1>3 DEF RegistersInv, Interrupted, Places
<1>10. ServiceInv
  BY <1>1 DEF ServiceInv, InServiceSets, Places
<1> QED BY <1>2, <1>4, <1>5, <1>6, <1>7, <1>8, <1>9, <1>10 DEF IInv, Shape

LEMMA StutterStep ==
  ASSUME IInv, UNCHANGED vars
  PROVE  IInv'
<1>1. UNCHANGED <<pics, segments, idt, interrupt_handlers, holder, stage, sent, cpu>>
  BY DEF vars, kernel
<1>2. UNCHANGED <<chip, imr, irr, in_service, gdt, ds, tr, idt, interrupt_handlers, holder, stage,
                  sent, current_task, stack, at, regs, int_flag, cs>>
  BY <1>1 DEF pics, segments, cpu
<1>3. TypeOK'
  BY <1>2 DEF IInv, TypeOK
<1>4. ChipsInv' /\ TablesInv' /\ FlagInv'
  BY <1>2 DEF IInv, Shape, ChipsInv, Chip1Waits, Chip2Waits, TablesInv, FlagInv
<1>5. StacksInv'
  BY <1>2 DEF IInv, Shape, StacksInv, int_num
<1>6. RegistersInv' /\ ServiceInv'
  BY <1>2 DEF IInv, Shape, RegistersInv, ServiceInv, int_num
<1> QED BY <1>2, <1>3, <1>4, <1>5, <1>6 DEF IInv, Shape

LEMMA BootStep ==
  ASSUME IInv, Boot
  PROVE  IInv'
<1>1. CASE timer_init
  <2>1. stage = 5 /\ register_interrupt_handler(INT_PIT, "timer_tick")
    BY <1>1, Named DEF timer_init, IInv
  <2> QED BY <2>1, RegisterStep
<1>2. CASE driver_keyboard_init
  <2>1. stage = 6 /\ register_interrupt_handler(INT_KEYBOARD, "driver_keyboard_isr")
    BY <1>2, Named DEF driver_keyboard_init, IInv
  <2> QED BY <2>1, RegisterStep
<1>3. CASE gdt_init \/ idt_init \/ idt_load \/ PicWrite \/ enable_hardware_interrupts
  BY <1>3, GdtStep, IdtInitStep, IdtLoadStep, PicWriteStep, EnableStep
<1> QED BY <1>1, <1>2, <1>3 DEF Boot

LEMMA NextStep ==
  ASSUME IInv, [Next]_vars
  PROVE  IInv'
<1>1. CASE Boot
  BY <1>1, BootStep
<1>2. CASE Handler
  <2>1. CASE IsrHandler \/ Keyboard \/ CommandYield \/ Spin \/ Return \/ isr_exit
    BY <2>1, IsrHandlerStep, KeyboardStep, CommandYieldStep, SpinStep, ReturnStep, IsrExitStep
  <2>2. CASE \E t \in AllTasks : Tick(t)
    BY <2>2, AfterSwitch
  <2> QED BY <1>2, <2>1, <2>2 DEF Handler
<1>3. CASE Acknowledge \/ TaskStep
  BY <1>3, AcknowledgeStep, TaskStepStep
<1>4. CASE (\E l \in Devices : Raise(l)) \/ (\E c \in 1 .. 2 : Spurious(c))
  BY <1>4, RaiseStep, SpuriousStep
<1>5. CASE (\E v \in Exceptions : Exception(v)) \/ (\E t \in Tasks : task_create(t))
  BY <1>5, ExceptionStep, TaskCreateStep
<1>6. CASE \E l \in Locks : Lock(l) \/ Unlock(l)
  BY <1>6, LockStep
<1>7. CASE UNCHANGED vars
  BY <1>7, StutterStep
<1> QED BY <1>1, <1>2, <1>3, <1>4, <1>5, <1>6, <1>7 DEF Next

LEMMA Invariant == Spec => []IInv
BY InitStep, NextStep, PTL DEF Spec

\* Every variable keeps its type.
THEOREM TypeCorrect == Spec => []TypeOK
BY Invariant, PTL DEF IInv

\* Whatever comes in whatever order, no line is in service once interrupts are
\* on: each handler ends what the CPU acknowledged before the flag returns
\* (isr_handler, pic_send_eoi, isr_exit).
THEOREM ServiceClear == Spec => []NothingInService
<1>1. IInv => NothingInService
  BY DEF IInv, Shape, FlagInv, ServiceInv, NothingInService
<1> QED BY <1>1, Invariant, PTL

LEMMA Segments ==
  ASSUME IInv
  PROVE  SegmentsFlat
<1> DEFINE table == gdt_entries(TaskState)
<1>1. SUFFICES ASSUME Stages[stage] # "gdt_init"
               PROVE  /\ cs = KERNEL_CODE /\ ds = KERNEL_DATA
                      /\ Flat(Selected(gdt, cs)) /\ Flat(Selected(gdt, ds))
                      /\ Base(Selected(gdt, tr)) = TaskState
                      /\ Limit(Selected(gdt, tr))[1] >= TSS_SIZE - 1
  BY DEF SegmentsFlat
<1>2. stage > 1
  <2>1. stage # 1
    BY <1>1 DEF Stages
  <2>2. stage \in 1 .. 8
    BY Start DEF IInv, TypeOK, Running
  <2> QED BY <2>1, <2>2
<1>3. /\ cs = 8 /\ ds = 16 /\ tr = 40 /\ gdt = Busy(table)
  BY <1>2, Numbers DEF IInv, Shape, TablesInv
<1>4. /\ Flat(Selected(Busy(table), 8)) /\ Flat(Selected(Busy(table), 16))
  BY Entries, Encoded
<1>5. /\ Base(Selected(Busy(table), 40)) = TaskState
      /\ Limit(Selected(Busy(table), 40))[1] = TSS_SIZE
  BY Entries, Encoded
<1>6. TSS_SIZE >= TSS_SIZE - 1
  BY DEF TSS_SIZE
<1> QED BY <1>3, <1>4, <1>5, <1>6, Numbers

\* A task finds its registers, its stack and its segments as it left them, for
\* any number of tasks and any order of interrupts, exceptions and switches
\* (isr_dispatch, task_switch, task_create, isr_exit, gdt_init).
THEOREM ContextsKept == Spec => []ContextsIntact
<1>1. ASSUME IInv, at \in AllTasks
      PROVE  /\ at = current_task /\ stack[at] = <<>>
             /\ \A r \in Registers \ {"esp"} : regs[r] \in {Own(at)[r], <<>>}
             /\ stage = Len(Stages) => int_flag
  BY <1>1 DEF IInv, Shape, StacksInv, RegistersInv, FlagInv, Running
<1>2. ASSUME IInv, at \in Interrupted
      PROVE  /\ \A r \in {"edi", "esi", "ebx", "ebp"} : regs[r] = InHandler(current_task)[r]
             /\ int_num \in idt
  <2>1. at \notin AllTasks
    BY <1>2, Constants DEF Interrupted, Places
  <2>2. /\ GP[1] = "edi" /\ GP[2] = "esi" /\ GP[3] = "ebp" /\ GP[5] = "ebx"
    BY Registered
  <2>3. \A r \in {"edi", "esi", "ebx", "ebp"} : regs[r] = InHandler(current_task)[r]
    BY <1>2, <2>2 DEF IInv, Shape, RegistersInv, CalleeSaved
  <2>4. idt = Gates
    BY <1>2, <2>1, Start DEF IInv, Shape, FlagInv, TablesInv
  <2>5. Frames(stack[current_task], 0, current_task)
    BY <1>2, <2>1 DEF IInv, Shape, StacksInv
  <2>6. int_num \in Gates
    BY <2>5, Numbers DEF Frames, BaseFrame, NestedFrame, int_num, Gates
  <2> QED BY <2>3, <2>4, <2>6
<1>3. IInv => ContextsIntact
  BY <1>1, <1>2, Segments DEF ContextsIntact, Interrupted
<1> QED BY <1>3, Invariant, PTL

LEMMA RequestsKept ==
  ASSUME IInv, [Next]_vars, int_flag
  PROVE  \/ Acknowledge
         \/ irr \subseteq irr'
<1>1. stage = 8
  BY Start DEF IInv, Shape, FlagInv
<1>2. CASE Boot
  <2>1. ~PicWrite
    BY <1>1, Named DEF PicWrite, IInv
  <2>2. irr' = irr
    BY <1>2, <2>1 DEF Boot, gdt_init, idt_init, idt_load, timer_init, driver_keyboard_init,
       register_interrupt_handler, enable_hardware_interrupts, pics
  <2> QED BY <2>2
<1>3. CASE Handler
  <2>1. irr' = irr
    BY <1>3 DEF Handler, IsrHandler, Keyboard, CommandYield, Spin, Tick, Return, isr_exit, pics
  <2> QED BY <2>1
<1>4. CASE TaskStep \/ \E l \in Devices : Raise(l)
  BY <1>4 DEF TaskStep, Raise, pics
<1>5. CASE \E c \in 1 .. 2 : Spurious(c)
  BY <1>5 DEF Spurious
<1>6. CASE (\E v \in Exceptions : Exception(v)) \/ (\E t \in Tasks : task_create(t))
  BY <1>6 DEF Exception, task_create, pics
<1>7. CASE \E l \in Locks : Lock(l) \/ Unlock(l)
  BY <1>7 DEF Lock, Unlock, pics
<1>8. CASE UNCHANGED vars
  BY <1>8 DEF vars, pics
<1> QED BY <1>2, <1>3, <1>4, <1>5, <1>6, <1>7, <1>8 DEF Next

\* A line's request comes as that line's vector, and nothing the machine does
\* is without a gate, whatever the firmware left in the 8259s.
THEOREM VectorsNamed == Spec => VectorsRight
<1>1. ASSUME IInv, [Next]_vars
      PROVE  /\ at' # "reset"
             /\ int_flag => \A l \in irr \ irr' : stack'[current_task][9] = 32 + l
  <2>1. at' # "reset"
    BY <1>1, NextStep DEF IInv, Shape, FlagInv
  <2>2. CASE Acknowledge
    <3>1. \A l \in irr \ irr' : int_num' = 32 + l
      BY <1>1, <2>2, AcknowledgeStep
    <3>2. current_task' = current_task
      BY <2>2 DEF Acknowledge, Enter
    <3> QED BY <2>1, <3>1, <3>2 DEF int_num
  <2>3. CASE irr \subseteq irr'
    BY <2>1, <2>3
  <2> QED BY <1>1, <2>1, <2>2, <2>3, RequestsKept
<1> QED BY <1>1, Invariant, PTL DEF Spec, VectorsRight
=============================================================================
