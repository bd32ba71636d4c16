----------------------------- MODULE Interrupts -----------------------------
(***************************************************************************)
(* The way into the kernel and out of it: segments, both 8259s, the        *)
(* interrupt descriptors, the stubs of isr.asm, isr_handler, and           *)
(* task_switch, down to the words on the stacks.                           *)
(*                                                                         *)
(* A stack is a sequence of words, the top first; the frames that C code   *)
(* makes and removes are left out, as are the entries `push esp' makes.    *)
(* A handler runs with interrupts off, so what lies between two of its     *)
(* calls is one action.  Of task code only the spin locks matter: a        *)
(* handler that finds one taken waits in lock() for ever.  Which task the  *)
(* scheduler chooses is left open: see Scheduler, also for the end of      *)
(* tasks.                                                                  *)
(***************************************************************************)
EXTENDS Integers, Sequences, FiniteSets, Descriptors

CONSTANTS
  Idle, Tasks,     \* the task of kernel_main, and those it creates
  Devices,         \* the lines something is connected to
  Exceptions,      \* the exceptions that occur
  TaskState        \* the address of task_state, as bytes

Lines == 0 .. 15
Vectors == 0 .. 255
AllTasks == Tasks \cup {Idle}

\* Where the CPU is, when not in the code of a task.
Places == {"isr_handler", "timer_tick", "driver_keyboard_isr", "handled", "isr_exit",
           "lock", "reset"}

Locks == {"print_lock", "task_lock"}
Nobody == "nobody"

ASSUME InterruptsAssumption ==
  /\ Idle \notin Tasks
  /\ AllTasks \cap (Places \cup {Nobody}) = {}
  /\ Devices \subseteq Lines \ {2}
  /\ Exceptions \subseteq 0 .. 31
  /\ TaskState \in Byte \X Byte \X Byte \X Byte

INT_PIT == 32
INT_KEYBOARD == 33

VARIABLES
  chip,      \* each 8259: the init word it waits for, and what it was told
  imr, irr, in_service,   \* lines masked, requested and in service
  gdt,       \* segment descriptors
  idt,       \* vectors with a gate
  interrupt_handlers,
  holder,    \* the task that holds each lock
  stage, sent,            \* start-up, and the words pic_init has written
  current_task, stack,
  at,        \* where the CPU is: in a task's code, or in the handler
  regs, int_flag,         \* its registers, and the interrupt flag
  cs, ds, tr

pics == <<chip, imr, irr, in_service>>
segments == <<gdt, ds, tr>>
kernel == <<segments, idt, interrupt_handlers, holder, stage, sent>>
cpu == <<current_task, stack, at, regs, int_flag, cs>>
vars == <<pics, kernel, cpu>>

\* In the order popad takes them; popad skips esp.
GP == <<"edi", "esi", "ebp", "esp", "ebx", "edx", "ecx", "eax">>
Registers == {GP[i] : i \in 1 .. 8}
Position(r) == CHOOSE i \in 1 .. 8 : GP[i] = r

\* The contents of a register: what a task computed, what C code keeps in
\* it inside a handler, or the zero of a new stack.
Own(t) == [r \in Registers |-> <<r, t>>]
InHandler(t) == [r \in Registers |-> <<r, t, "C">>]
Contents == {<<r, t>> : r \in Registers, t \in AllTasks}
              \cup {<<r, t, "C">> : r \in Registers, t \in AllTasks} \cup {<<>>}

Stages == <<"gdt_init", "idt_init", "idt_load", "pic_init", "timer_init",
            "driver_keyboard_init", "enable_hardware_interrupts", "running">>

TypeOK ==
  /\ chip \in [1 .. 2 -> [icw : 0 .. 4, offset : Vectors, cascade : Vectors, mode : Vectors]]
  /\ imr \subseteq Lines /\ irr \subseteq Lines /\ in_service \subseteq Lines
  /\ gdt \in {<<>>, gdt_entries(TaskState), Busy(gdt_entries(TaskState))}
  /\ idt \subseteq Vectors
  /\ interrupt_handlers \in [Vectors -> {"none", "timer_tick", "driver_keyboard_isr"}]
  /\ holder \in [Locks -> AllTasks \cup {Nobody}]
  /\ stage \in 1 .. Len(Stages) /\ sent \in 0 .. 10
  /\ current_task \in AllTasks /\ at \in AllTasks \cup Places
  /\ regs \in [Registers -> Contents] /\ int_flag \in BOOLEAN
  /\ cs \in Byte /\ ds \in Byte /\ tr \in Byte

(***************************************************************************)
(* The 8259s (external).  Line 2 of the first is the second's output.      *)
(***************************************************************************)

ChipOf(l) == IF l < 8 THEN 1 ELSE 2
Highest(lines) == CHOOSE l \in lines : \A k \in lines : l <= k

\* The lines a chip asks for: not masked, and before those in service.
Wanting(c, requested) ==
  {l \in requested \ imr : ChipOf(l) = c /\ chip[c].icw = 0
     /\ \A k \in in_service : ChipOf(k) = c => l < k}

Wanted2 == Wanting(2, irr)
Wanted1 == Wanting(1, irr \cup {l \in {2} : Wanted2 # {}})

\* A word written to a chip.
Command == "command"
Data == "data"
ICW1 == 17   \* IO_CMD_PIC_ICW1_INIT | IO_CMD_PIC_ICW1_ICW4
EOI == 32    \* IO_CMD_PIC_EOI

Programmed(c, value) ==
  CASE chip[c].icw = 2 -> [chip[c] EXCEPT !.icw = 3, !.offset = value]
    [] chip[c].icw = 3 -> [chip[c] EXCEPT !.icw = 4, !.cascade = value]
    [] chip[c].icw = 4 -> [chip[c] EXCEPT !.icw = 0, !.mode = value]
    [] OTHER -> chip[c]

\* ICW1 starts over; a data byte outside the sequence is the mask.
io_port_out(c, port, value) ==
  /\ chip' = [chip EXCEPT ![c] = IF port = Command THEN [@ EXCEPT !.icw = 2]
                                                  ELSE Programmed(c, value)]
  /\ LET mine == {l \in Lines : ChipOf(l) = c}
     IN  IF port = Command
         THEN irr' = irr \ mine /\ in_service' = in_service \ mine /\ imr' = imr \ mine
         ELSE /\ imr' = IF chip[c].icw # 0 THEN imr
                        ELSE (imr \ mine) \cup {l \in mine : (value \div 2^(l % 8)) % 2 = 1}
              /\ UNCHANGED <<irr, in_service>>

Ended(c, lines) ==
  LET mine == {l \in lines : ChipOf(l) = c}
  IN  IF mine = {} THEN lines ELSE lines \ {Highest(mine)}

\* Mutant: a line of the second chip is not ended on the first.
pic_send_eoi_one(irq) == in_service' = Ended(IF irq >= 8 THEN 2 ELSE 1, in_service)

\* Callers give the vector, so both chips always get the command.
pic_send_eoi(irq) ==
  in_service' = Ended(1, IF irq >= 8 THEN Ended(2, in_service) ELSE in_service)

\* A device pulls its line.
Raise(l) ==
  /\ irr' = irr \cup {l}
  /\ UNCHANGED <<chip, imr, in_service, kernel, cpu>>

(***************************************************************************)
(* The words of a frame.                                                   *)
(***************************************************************************)

\* The exceptions for which the CPU pushes an error code (external).
HasErrorCode(v) == v \in {8, 10, 11, 12, 13, 14, 17, 21}

\* isr0 .. isr31: the number of the exception, on top of the CPU's error
\* code or a dummy.
ExceptionStub(v) == IF v \in {8, 10, 11, 12, 13, 14, 17, 21} THEN <<v>> ELSE <<v, 0>>

\* isr32 .. isr47: the vector, on top of the number of the line.
LineStub(v) == <<v, v - 32>>

Stub(v) == IF v < 32 THEN ExceptionStub(v) ELSE LineStub(v)

\* isr_registers as the gate, the stub and pushad build it.
Frame(v, eip) ==
  [i \in 1 .. 8 |-> regs[GP[i]]] \o Stub(v)
    \o (IF HasErrorCode(v) THEN <<0>> ELSE <<>>) \o <<eip, cs, int_flag>>

\* The selector in every gate.
GATE_SELECTOR == 8

int_num == stack[current_task][9]

\* The CPU takes vector v; when it comes back it goes on at eip.
Enter(v, eip) ==
  IF v \in idt /\ stage > 3 /\ IsCode(Selected(gdt, GATE_SELECTOR))
  THEN /\ stack' = [stack EXCEPT ![current_task] = Frame(v, eip) \o @]
       /\ at' = "isr_handler" /\ int_flag' = FALSE
       /\ regs' = InHandler(current_task) /\ cs' = GATE_SELECTOR
       /\ UNCHANGED current_task
  ELSE at' = "reset" /\ UNCHANGED <<stack, int_flag, regs, cs, current_task>>

\* popad, add esp, iret: at the end of isr_dispatch, and isr_exit.
LeaveFrame ==
  LET s == stack[current_task]
  IN  /\ regs' = [r \in Registers |-> IF r = "esp" THEN regs[r] ELSE s[Position(r)]]
      /\ at' = s[11] /\ cs' = s[12] /\ int_flag' = s[13]
      /\ stack' = [stack EXCEPT ![current_task] = SubSeq(s, 14, Len(s))]
      /\ UNCHANGED current_task

(***************************************************************************)
(* Start-up, in the order of kernel_main, with interrupts off.             *)
(***************************************************************************)

PIC_MASTER_OFFSET == 32
PIC_SLAVE_OFFSET == 40

\* Mutant: the second chip gets the offset of the first.
pic_init_same ==
  <<<<1, Command, ICW1>>, <<2, Command, ICW1>>,
    <<1, Data, PIC_MASTER_OFFSET>>, <<2, Data, PIC_MASTER_OFFSET>>,
    <<1, Data, 4>>, <<2, Data, 2>>, <<1, Data, 1>>, <<2, Data, 1>>,
    <<1, Data, 0>>, <<2, Data, 0>>>>

\* Chip, port and value of each write of pic_init.
pic_init ==
  <<<<1, Command, ICW1>>, <<2, Command, ICW1>>,
    <<1, Data, PIC_MASTER_OFFSET>>, <<2, Data, PIC_SLAVE_OFFSET>>,
    <<1, Data, 4>>, <<2, Data, 2>>, <<1, Data, 1>>, <<2, Data, 1>>,
    <<1, Data, 0>>, <<2, Data, 0>>>>

\* The firmware left the first chip's lines at the vectors from 8 on.
Init ==
  /\ chip = <<[icw |-> 0, offset |-> 8, cascade |-> 4, mode |-> 1],
              [icw |-> 0, offset |-> 112, cascade |-> 2, mode |-> 1]>>
  /\ imr \in {{}, Lines} /\ irr = {} /\ in_service = {}
  /\ gdt = <<>> /\ cs = 16 /\ ds = 24 /\ tr = 0
  /\ idt = {} /\ interrupt_handlers = [v \in Vectors |-> "none"]
  /\ holder = [l \in Locks |-> Nobody]
  /\ stage = 1 /\ sent = 0
  /\ current_task = Idle /\ stack = [t \in AllTasks |-> <<>>]
  /\ at = Idle /\ regs = Own(Idle) /\ int_flag = FALSE

Reached(name) == Stages[stage] = name

KERNEL_CODE == 8
KERNEL_DATA == 16
TSS_SELECTOR == 40

\* gdt_init with gdt_flush and tss_flush: the table, and the registers that
\* refer to it.  The CPU refuses a selector whose entry is of the wrong kind.
gdt_init ==
  /\ Reached("gdt_init")
  /\ LET table == gdt_entries(TaskState)
     IN  IF /\ IsCode(Selected(table, KERNEL_CODE)) /\ IsData(Selected(table, KERNEL_DATA))
            /\ IsFreeTSS(Selected(table, TSS_SELECTOR))
         THEN gdt' = Busy(table) /\ UNCHANGED at
         ELSE gdt' = table /\ at' = "reset"
  /\ cs' = KERNEL_CODE /\ ds' = KERNEL_DATA /\ tr' = TSS_SELECTOR
  /\ stage' = stage + 1
  /\ UNCHANGED <<pics, idt, interrupt_handlers, holder, sent, current_task, stack, regs, int_flag>>

\* Mutant: one gate too many.
idt_init_past ==
  /\ Reached("idt_init")
  /\ idt' = 0 .. 256 /\ stage' = stage + 1
  /\ UNCHANGED <<pics, segments, interrupt_handlers, holder, sent, cpu>>

idt_init ==
  /\ Reached("idt_init")
  /\ idt' = 0 .. 47 /\ stage' = stage + 1
  /\ UNCHANGED <<pics, segments, interrupt_handlers, holder, sent, cpu>>

idt_load ==
  /\ Reached("idt_load") /\ stage' = stage + 1
  /\ UNCHANGED <<pics, segments, idt, interrupt_handlers, holder, sent, cpu>>

PicWrite ==
  /\ Reached("pic_init") /\ sent < Len(pic_init)
  /\ LET w == pic_init[sent + 1] IN io_port_out(w[1], w[2], w[3])
  /\ sent' = sent + 1
  /\ stage' = IF sent' = Len(pic_init) THEN stage + 1 ELSE stage
  /\ UNCHANGED <<segments, idt, interrupt_handlers, holder, cpu>>

register_interrupt_handler(int, handler) ==
  /\ interrupt_handlers' = [interrupt_handlers EXCEPT ![int] = handler]
  /\ stage' = stage + 1
  /\ UNCHANGED <<pics, segments, idt, holder, sent, cpu>>

timer_init == Reached("timer_init") /\ register_interrupt_handler(INT_PIT, "timer_tick")

driver_keyboard_init ==
  /\ Reached("driver_keyboard_init")
  /\ register_interrupt_handler(INT_KEYBOARD, "driver_keyboard_isr")

enable_hardware_interrupts ==
  /\ Reached("enable_hardware_interrupts")
  /\ int_flag' = TRUE /\ stage' = stage + 1
  /\ UNCHANGED <<pics, segments, idt, interrupt_handlers, holder, sent, current_task, stack, at, regs, cs>>

(***************************************************************************)
(* Interrupts and exceptions.                                              *)
(***************************************************************************)

\* The CPU answers the first chip; the second speaks when its line wins.
Acknowledge ==
  /\ int_flag /\ Wanted1 # {} /\ at # "reset"
  /\ LET l == IF Highest(Wanted1) = 2 THEN Highest(Wanted2) ELSE Highest(Wanted1)
         v == chip[ChipOf(l)].offset + (l % 8)
     IN  /\ irr' = irr \ {l}
         /\ in_service' = in_service \cup {Highest(Wanted1), l}
         /\ Enter(v, at)
  /\ UNCHANGED <<chip, imr, kernel>>

\* A line that falls back too early comes as the last one of its chip, of
\* which that chip keeps no record.
Spurious(c) ==
  /\ int_flag /\ at # "reset" /\ chip[c].icw = 0
  /\ Enter(chip[c].offset + 7, at)
  /\ in_service' = IF c = 2 THEN in_service \cup {2} ELSE in_service
  /\ UNCHANGED <<chip, imr, irr, kernel>>

\* In a task or in a command; the instruction is tried again afterwards.
Exception(v) ==
  /\ Reached("running") /\ at \in AllTasks \cup {"driver_keyboard_isr"}
  /\ Enter(v, at)
  /\ UNCHANGED <<pics, kernel>>

Taken(l) == holder[l] # Nobody

\* Mutant: the timer's line is ended only when the handler returns.
IsrHandlerLate ==
  /\ at = "isr_handler"
  /\ int_num < 32 => ~Taken("print_lock")
  /\ UNCHANGED in_service
  /\ at' = IF interrupt_handlers[int_num] = "none" THEN "handled" ELSE interrupt_handlers[int_num]
  /\ UNCHANGED <<chip, imr, irr, kernel, current_task, stack, regs, int_flag, cs>>

\* isr_handler up to the registered handler; exceptions only print.
IsrHandler ==
  /\ at = "isr_handler"
  /\ int_num < 32 => ~Taken("print_lock")
  /\ IF int_num = INT_PIT THEN pic_send_eoi(int_num) ELSE UNCHANGED in_service
  /\ at' = IF interrupt_handlers[int_num] = "none" THEN "handled" ELSE interrupt_handlers[int_num]
  /\ UNCHANGED <<chip, imr, irr, kernel, current_task, stack, regs, int_flag, cs>>

\* lock() in a handler.  What holds the lock is preempted code, which cannot
\* go on before the handler ends: nothing leads away from here.  Exceptions
\* print, task_schedule prints when it finds a KILLED entry, and commands
\* print or create a task.
Spin ==
  /\ \/ at = "isr_handler" /\ int_num < 32 /\ Taken("print_lock")
     \/ at = "timer_tick" /\ Taken("print_lock")
     \/ at = "driver_keyboard_isr" /\ \E l \in Locks : Taken(l)
  /\ at' = "lock"
  /\ UNCHANGED <<pics, kernel, current_task, stack, regs, int_flag, cs>>

\* driver_keyboard_isr, when no command asks for a switch.
Keyboard ==
  /\ at = "driver_keyboard_isr"
  /\ at' = "handled"
  /\ UNCHANGED <<pics, kernel, current_task, stack, regs, int_flag, cs>>

\* `lol2' raises the timer's vector inside the handler.
CommandYield ==
  /\ at = "driver_keyboard_isr"
  /\ Enter(INT_PIT, "handled")
  /\ UNCHANGED <<pics, kernel>>

\* Mutant: two registers are popped in the order they were pushed.
ContextSwapped(edi, esi, ebx, ebp, eip) == <<esi, edi, ebx, ebp, eip>>

\* What task_switch leaves on a stack, above its return address.
Context(edi, esi, ebx, ebp, eip) == <<edi, esi, ebx, ebp, eip>>

Started(t) == t = current_task \/ stack[t] # <<>>

\* task_schedule and task_switch, when the entry chosen is t.  What C code
\* holds in the other registers is lost.
Tick(t) ==
  /\ at = "timer_tick" /\ Started(t)
  /\ LET saved == [stack EXCEPT ![current_task] =
                     Context(regs["edi"], regs["esi"], regs["ebx"], regs["ebp"], "handled") \o @]
         s == saved[t]
     IN  /\ regs' = [regs EXCEPT !["edi"] = s[1], !["esi"] = s[2], !["ebx"] = s[3], !["ebp"] = s[4]]
         /\ at' = s[5]
         /\ stack' = [saved EXCEPT ![t] = SubSeq(s, 6, Len(s))]
  /\ current_task' = t
  /\ UNCHANGED <<pics, kernel, int_flag, cs>>

\* The end of isr_handler and of isr_dispatch.
Return ==
  /\ at = "handled"
  /\ pic_send_eoi(int_num)
  /\ LeaveFrame
  /\ UNCHANGED <<chip, imr, irr, kernel>>

isr_exit ==
  /\ at = "isr_exit"
  /\ LeaveFrame
  /\ UNCHANGED <<pics, kernel>>

(***************************************************************************)
(* Tasks.                                                                  *)
(***************************************************************************)

\* A task takes print_lock in _printk, inside which it takes no other lock,
\* and kernel_main task_lock in task_create.
Lock(l) ==
  /\ Reached("running") /\ at = current_task /\ ~Taken(l)
  /\ l = "task_lock" => current_task = Idle /\ holder["print_lock"] # Idle
  /\ holder' = [holder EXCEPT ![l] = current_task]
  /\ UNCHANGED <<pics, segments, idt, interrupt_handlers, stage, sent, cpu>>

Unlock(l) ==
  /\ at = current_task /\ holder[l] = current_task
  /\ l = "task_lock" => holder["print_lock"] # Idle
  /\ holder' = [holder EXCEPT ![l] = Nobody]
  /\ UNCHANGED <<pics, segments, idt, interrupt_handlers, stage, sent, cpu>>

\* The stack task_create builds: a context that returns to isr_exit, and a
\* frame for isr_exit to leave.  A command takes and gives back both locks.
task_create(t) ==
  /\ \/ at = current_task /\ holder["task_lock"] = current_task
     \/ at = "driver_keyboard_isr" /\ \A l \in Locks : ~Taken(l)
  /\ ~Started(t)
  /\ stack' = [stack EXCEPT ![t] = Context(<<>>, <<>>, <<>>, <<>>, "isr_exit")
                                     \o [i \in 1 .. 8 |-> <<>>] \o <<0, 0>> \o <<t, KERNEL_CODE, TRUE>>]
  /\ UNCHANGED <<pics, kernel, current_task, at, regs, int_flag, cs>>

\* A task fills its registers.
TaskStep ==
  /\ at = current_task /\ regs' = Own(current_task)
  /\ UNCHANGED <<pics, kernel, current_task, stack, at, int_flag, cs>>

Boot ==
  \/ gdt_init \/ idt_init \/ idt_load \/ PicWrite \/ timer_init \/ driver_keyboard_init
  \/ enable_hardware_interrupts

Handler ==
  \/ IsrHandler \/ Keyboard \/ CommandYield \/ Spin \/ Return \/ isr_exit
  \/ \E t \in AllTasks : Tick(t)

Next ==
  \/ Boot \/ Handler \/ Acknowledge \/ TaskStep
  \/ \E l \in Devices : Raise(l)
  \/ \E c \in 1 .. 2 : Spurious(c)
  \/ \E v \in Exceptions : Exception(v)
  \/ \E l \in Locks : Lock(l) \/ Unlock(l)
  \/ \E t \in Tasks : task_create(t)

\* The CPU goes on, and takes interrupts when it can.  A handler runs to its
\* end or into lock(); a task need not go on, not even with a lock.
Fairness == WF_vars(Boot) /\ WF_vars(Handler) /\ SF_vars(Acknowledge)

Spec == Init /\ [][Next]_vars /\ Fairness

(***************************************************************************)
(* Properties.                                                             *)
(***************************************************************************)

\* Whatever the firmware left, the request of a line comes as the vector of
\* that line, never as an exception, and finds a gate (kernel_main's order,
\* pic_init, idt_init, the stubs).
VectorsRight ==
  [][/\ at' # "reset"
     /\ int_flag => \A l \in irr \ irr' : stack'[current_task][9] = 32 + l]_vars

\* Interrupts are never on while a line is in service: not in a task that
\* starts through isr_exit, which ends none, nor in one that comes back from
\* another's interrupt.  Otherwise the line would be lost (isr_handler).
NothingInService == int_flag => in_service = {}

\* From gdt_init on code and data are all of memory, and the task register
\* names a descriptor of the whole of task_state.
SegmentsFlat ==
  Stages[stage] # "gdt_init" =>
    /\ cs = KERNEL_CODE /\ ds = KERNEL_DATA
    /\ Flat(Selected(gdt, cs)) /\ Flat(Selected(gdt, ds))
    /\ Base(Selected(gdt, tr)) = TaskState
    /\ Limit(Selected(gdt, tr))[1] >= TSS_SIZE - 1

\* A task finds its registers and its stack as it left them, whatever
\* interrupted it and however it comes back: gate, stub, isr_dispatch,
\* task_switch, task_create's frame and isr_exit agree on every word, and
\* every segment is what the code behind it takes it for.
ContextsIntact ==
  /\ SegmentsFlat
  /\ at \in AllTasks =>
       /\ at = current_task /\ stack[at] = <<>>
       /\ \A r \in Registers \ {"esp"} : regs[r] \in {Own(at)[r], <<>>}
       /\ stage = Len(Stages) => int_flag
  /\ at \in {"isr_handler", "timer_tick", "driver_keyboard_isr", "handled"} =>
       /\ \A r \in {"edi", "esi", "ebx", "ebp"} : regs[r] = InHandler(current_task)[r]
       /\ int_num \in idt

\* A command faulted; its instruction is retried for ever.
CommandFaulted == at = "isr_handler" /\ int_num < 32 /\ stack[current_task][11] = "driver_keyboard_isr"

\* The timer is served whenever it ticks, unless a command faults or a handler
\* waits for a lock: no line that another interrupt, an exception in a task, a
\* switch, lol2 or a task's first run leaves in service shuts it out.
TimerServed ==
  (stage = Len(Stages) /\ 0 \in irr) ~> (0 \notin irr \/ CommandFaulted \/ at = "lock")
=============================================================================
