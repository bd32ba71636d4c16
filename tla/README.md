# A TLA+ model of the Rotary kernel

Rotary is a small single-CPU x86 kernel: it boots from GRUB, sets up physical
memory, one page directory and a heap, starts a round robin scheduler on the
timer interrupt, and runs a shell whose commands execute inside the keyboard
interrupt. The modules in this directory model the parts of it that keep state
which has to stay consistent, check them with TLC on small instances, and prove
the central properties with TLAPS for every size of the tables, the memory, the
buffers and the screen (those of the heap under what the kernel asks of it).

## The system

| Component | State | Operations | Hard behaviour | What makes it correct |
|---|---|---|---|---|
| Task scheduler, `kernel/task.c`, `task-switch.asm` | `tasks[]`, `current_task`, `last_task_id`, `scheduler_ready` | `task_init`, `task_create`, `task_kill`, `task_purge`, `task_schedule` | preemption between any two steps of task code; kill, purge and switch spread over ticks | one RUNNING entry; every dispatched entry has a context; stacks have one owner; no starvation |
| Spin locks, `kernel/sync.c` | `task_lock`, `print_lock` | `lock`, `unlock` | the same lock in tasks and in handlers, one CPU | a held lock has a holder that can release it |
| Logging, `kernel/logging.c` | none but the lock | `_printk` | called from everywhere, also from handlers, before and after the ports are ready | lines arrive whole, every call returns |
| Serial port, `kernel/serial.c` | divisor latch, line format, loopback bit, transmitter | `serial_init_port`, `serial_write_line` | a loopback test that does not wait; a transmitter that is slower than its writer | no character lost |
| Strings, `kernel/string.c` | none | `sprintf`, `int_to_str`, `int_to_hex_str`, `fill_buffer` | widths, digits at the edges, a text that is formatted twice | the text is the message's |
| Interrupt path, `isr.asm`, `interrupts.c`, `pic8259.c`, `timer.c`, `task-switch.asm` | gates, handlers, both 8259s, saved contexts | `idt_init`, `pic_init`, `isr_dispatch`, `isr_handler`, `pic_send_eoi`, `task_switch`, `isr_exit` | the handler that is left is not the one that is entered; EOI before or after; three routines that must agree on every word of a frame | no line stays in service; contexts survive; vectors name their lines |
| GDT and TSS, `gdt.c`, `tss.c`, `reload-segments.asm` | descriptors, segment registers | `gdt_encode_entry`, `gdt_init` | fields split over several bytes | flat segments, a TSS that is task_state |
| Boot code, `boot.asm` | boot directory and table | `_start` | paging is switched on under running code | code, stack and loader data stay mapped |
| Physical memory, `kernel/pmm.c` | bitmap, range, counter | `pmm_set_memory_range`, `pmm_alloc_frame`, `pmm_dealloc_frame` | exhaustion, incomplete bitmap words, unsigned wrap-around | no frame granted twice; the counter counts |
| Virtual memory, `kernel/vmm.c`, `paging.c` | page directories, heap bounds | `vmm_init`, `vmm_map_kernel`, `paging_init_directory`, `vmm_alloc_pages`, `paging_map` | the heap's frames are granted but never looked at; memory used as a directory is not cleared; no page is invalidated | the heap lies on its own frames; all directories translate alike |
| Memory map, `kernel/multiboot.c` | none | `multiboot_parse` | any number and order of regions | a range that starts behind the kernel |
| Kernel heap, `kernel/kheap.c` | headers and trailers in memory, free list | `kmalloc`, `kfree` | splitting, coalescing, two structures in the same words | blocks tile, the list is complete, client data is left alone |
| Shell and console, `kernel/shell.c`, `keyboard.c`, `vga.c` | `input_buffer`, handlers, cursor | commands; line editing | runs inside the keyboard interrupt; shares the cursor with `_printk` | commands: as the scheduler; editing: screen and buffer agree |
| CPU identification, port I/O, APIC, ATA, panic | none | | | |

The parts meet in five places. The timer interrupt calls `task_schedule`, which
leaves the interrupt on the stack of another task, and with another page directory. The keyboard interrupt calls
the shell, which calls `task_create`, `task_kill` or raises the timer's vector
itself. `task_create` takes a stack from the heap and, for user tasks, a frame
from the physical memory manager; `task_purge` frees the stack. `vmm_init` takes
frames for the heap. Everything logs, and logging takes a lock; the keyboard
interrupt echoes to the same cursor without it.

## Modules

| Module | Models | Extends or uses |
|---|---|---|
| `Scheduler` | task table, locks, interrupt path, start-up and commands | instantiates `Lifecycle` |
| `Lifecycle` | the abstract life of a task: admitted, ready, running, dying, gone | |
| `PhysicalMemory` | `pmm.c` | instantiates `FramePool` |
| `FramePool` | the abstract pool: a free frame to whoever asks, refused when none is left | |
| `VirtualMemory` | memory map, `vmm_init`, page directories of tasks, composed with `PhysicalMemory` | instantiates `PhysicalMemory` |
| `KHeap` | `kheap.c`, word by word | instantiates `Allocator` |
| `Allocator` | the abstract allocator: disjoint, no leak, refuses only without room | |
| `Console` | the shell's input line, the cursor and the bottom row, against messages of tasks | instantiates `LineEditor` |
| `LineEditor` | the abstract input line: type, erase, submit | |
| `Paging` | directories, tables and `cr3`, from `_start` to task switches | |
| `Interrupts` | segments, 8259s, gates, stubs, `isr_handler`, `task_switch`, word by word | extends `Descriptors` |
| `Descriptors` | `gdt.c`: descriptors as packed by the kernel and unpacked by the CPU | |
| `Logging` | `_printk` of several tasks, the screen and both serial ports | extends `Serial` and `Strings` |
| `Serial` | `serial.c` and the UART it drives | |
| `Strings` | `sprintf` and the number formatting, as functions | |
| `MC...` | constants for TLC | the module they are named after |
| `...Proofs` | theorems and proofs | the module they are named after, TLAPS |

### Scheduler

`state`, `stack_frame` and `kernel_esp` are columns of `tasks[]`; `kernel_esp`
keeps only what the saved pointer resumes (nothing, the frame `task_create`
built, a timer interrupt, a nested `int $32`). `pc[t]` says where the code of
task t stands; `in_service` is the 8259's in-service register; `heap_free` the
stacks the heap still has. `cpu` is `"running"` or names how the machine stopped.

Task code runs with interrupts on, so each step of it that matters to somebody
else is an action: `task_init` in two, `task_create` in six, `_printk` in two. A
handler runs with interrupts off, so `TimerTick`, `CommandCreate`, `CommandKill`
and `CommandYield` are each the whole handler, including the purges of
`task_schedule`, the switch, and the EOIs sent on the way out of the resumed
task's own interrupts. The search for the next task is written as "the runnable
entry at the least distance"; entry `TASK_MAX`, which the code probes although it
lies behind the table, takes part with any of the states `TailStates`. What happens
after a fault is not modelled: `cpu` records it and nothing runs any more.

Calls of `_printk` in `kernel_main` before the shell exists are not separate
critical sections: nobody can contend for the lock then. The command `die`, which
makes the kernel fault on purpose, is left out.

### PhysicalMemory and VirtualMemory

Addresses are frame numbers. The bitmap is the set of marked frames, scanned in
whole words as the code does, so that an incomplete last word is never found.
Exhaustion is faithful: `PMM_NO_FRAMES_AVAIL` is out of bounds for the marking
and wraps to the frame in front of the range as an address. `VirtualMemory`
starts from any memory map `mmap`, through which `entry` runs as in `multiboot_parse`;
its heap is placed by the arithmetic on
`KERNEL_VIRT_END` and never assigned the frames it was granted, because the code
ignores them; that both are the same frames is the property `HeapIsReserved`.
When a page directory is put on the last page of the kernel, `stage` becomes
`"overwritten"` and the model stops.
`PurgeTask` joins `task_kill` and the `task_purge` that follows it, since of
both only `cr3` matters here.

### KHeap

The heap is a function from word addresses to words. `kmalloc` and `kfree` read
everything they know from it, as the code does, including tags that are stale;
addresses and sizes wrap around. Calls are atomic: `task_create` calls `kmalloc`
before there is a second task or in a handler, and `kfree` is only called in
`task_schedule`. Clients fill what they hold with a value, so that a write into
it shows. The words between the end of the heap and the end of its last page are
taken to be 0. `kmalloc(0)` and `kfree` of an address outside the heap return
early and change nothing.

### Console

`input_buffer` is a function from byte indices, and reaches as far behind the
array's 256 bytes as `strlen` reads and `strcat` writes (there lies
`command_handlers`, which nothing uses). `row` is the bottom row of the screen;
`Cell` is `vga_set_character`'s index, so that a column beyond the edge of the row
above lands in this one, as in video memory. A key press is one action with the
whole handler: the buffer, the cursor and the row. What a command prints on the row
is overwritten by the prompt, so `Enter` keeps only that, and whether the command
created a task that will print. A command that needs `print_lock` while a task
holds it never returns; that spin is `Scheduler`'s. `lol2` leaves the handler
between the command and the clearing of the line: `EnterYield` and `YieldReturns`.

`shell_init` and `_printk` run in tasks, compiled with -O0: each character is a
test of the edge, a fetch of the cell, a write, a load and a store of `cursor_x`,
and a scroll clears cell by cell. In these steps `print` says where the holder of
`print_lock` stands. A scan code is reduced to what the handler tells apart: Enter,
Backspace, 0 (releases and unknown keys), and everything else, which goes onto the
line, modifier and function keys included.

### Paging

A page, and a frame, is a pair of indices, so that the arithmetic of `PHY_TO_VIR`
and `VIR_TO_PHY` (with its wrap-around) and the two levels of translation are
explicit. `mem` gives every frame its contents as a table; what memory held before
(`Leftovers`) is kept, because `paging_init_directory` clears only the present bit.
Every access the kernel makes through a pointer goes through the directory that is
loaded; when it does not arrive where it was meant to, `astray` names the function
and the model stops. The actions follow the order of the code: `_start` fills the
tables, turns paging on and jumps; `multiboot_parse` leaves the free frames;
`vmm_init` writes the first directory under the boot mapping, loads it, and clears
the heap; `task_create`, `task_switch` and `task_kill` follow in any order.
`vmm_alloc_pages` is called by nobody, but the kernel exports it, so it may
be called at any time once the kernel runs. Which frames are free is `PhysicalMemory`'s
matter; here allocation is first fit and nothing is freed. The table overrun and the
shortage of stacks are `Scheduler`'s.

### Interrupts and Descriptors

A stack is a sequence of words, the top first. `Frame` is what the gate, the stub
of `isr.asm` and `pushad` push; `LeaveFrame` what `popad`, `add esp` and `iret`
take; `Tick` what `task_switch` pushes and pops; `task_create` the words of a new
stack. They are written from four different pieces of code, and `ContextsIntact`
says that they agree. The frames of C functions are left out: they are balanced.
C code overwrites all registers but keeps what the calling convention says, so
inside a handler the registers are `InHandler`. The words `at` takes from a stack
are where the CPU goes on: a task, the end of a handler, or `isr_exit`.

The 8259s are modelled with their initialisation sequence, mask, priorities and
cascade, from whatever the firmware left (`Init`). A device may pull its line at
any time, also before `pic_init`; a spurious interrupt may come instead. An
exception may strike in a task or in a command; its instruction is tried again,
because `isr_handler` only prints. `Enter` resets the machine when there is no gate or the
code segment is unusable. `gdt_init` packs six descriptors and loads them; the CPU
reads them back from the packed bytes. That the six variables lie in memory in the order
of their declaration, which the code relies on, is assumed of the linker.
Which task is chosen, and the end of tasks, are left to `Scheduler`.
Of what tasks do, only the locks matter: `holder` says which task has `print_lock` and
`task_lock` (`Lock`, `Unlock`), and a handler that needs one that is taken goes to
`"lock"` for ever (`Spin`): an exception, which prints; a tick, which may find a task to
purge and print; a command, which prints or creates a task.

### Logging, Serial and Strings

`printk` formats, takes the lock, writes to the screen, waits for the transmitter
before every character, and gives the lock back: a step each. `serial_init` runs
between the first and the second line `kernel_main` logs, write by write, against a
UART whose transmitter may or may not be done when the loopback test reads. `due`
is a history variable: what each terminal has yet to see. The text of a message is
part of the constant `Messages`, written by hand: it is the reference `sprintf`
is compared with (`FormatsStand`). `MCLogging` also compares `udivmod64` with division.
`LoggingAssumption` excludes messages that contain a `%` of their own; see below.
`sprintf` is a recursive function over the places of a format, so that proofs can use
its defining equation.

## What the runs check

Passing runs:

- `sched_safety` (8168 states up to symmetry of the stacks): the invariants of the
  scheduler, over all interleavings of start-up, tasks, ticks and commands.
- `sched_live` (9822): no starvation, purge of killed tasks, completion of start-up
  code, `KilledStaysDead` and `LifecycleRefined`. There is one stack too few, so
  that exhaustion happens, and `KERNEL_MEMZERO_ON_FREE` is off, so that a task
  killed while it runs survives its own purge long enough for the switch.
- `pmm` (1800): exactness of bitmap and counter, refinement of `FramePool`.
- `vmm` (1039): 73 memory maps, then creation and purge of tasks: the heap's frames,
  the directories, and `GrantsAreMemory`, that whatever the order of the regions the
  manager hands out nothing but available memory behind the kernel and refuses only when
  the last region that fits is used up (but for an incomplete word of the bitmap).
- `heap` (479): tiling, free list, client data, refinement of `Allocator`.
- `console` (351760, up to symmetry of the keys): refinement of `LineEditor`; the
  echo keeps showing the line.
- `paging` (2428): the next instruction and the stack stay mapped from `_start` on;
  all directories translate alike whatever memory held; no page changes its meaning
  without a load of `cr3`; an access goes astray only for lack of memory, or in
  `paging_map`.
- `interrupts` (206544): no line in service with interrupts on; registers, stacks and
  segments survive; every request arrives as its vector; the timer is always
  served again, unless a command faults or a handler waits for a lock.
- `logging` (226109): every line arrives whole and once, on the terminal and on the
  screen; every call returns, also on a port that failed its test.

Runs that find what the code does and a comment, test or check of it says it does
not (each is a finding in `PROJECT.json`):

- `lock_in_interrupt`: a handler waits for a lock that preempted code holds. In the
  trace `kernel_main` is preempted inside `task_create` with `task_lock`; the shell gets
  the CPU, and the command `apple` spins on `task_lock` in the keyboard interrupt. The
  same happens with `print_lock`, which every command and `task_purge` take to log.
- `kill_running_task`: the stack of the running handler is freed and zeroed.
- `console_message`: a key breaks the message of a task that holds `print_lock`.

More defects show in the models without a run of their own:

- `task_create` runs off `tasks[]` when more tasks are created than it has entries
  (`task.c:50`): `TableNeverOverrun` in `Scheduler` fails.
- `task_purge` says it clears a task's resources but forgets its page directory
  (`task.c:195`): `PurgeFreesMemory` in `VirtualMemory` fails.
- Merging writes a trailer through a pointer computed before the block is known to
  be free (`kheap.c:118`): `LiveDataIntact` fails with `MaxFrees = 2`.
- An exception is printed and its instruction tried again (`interrupts.c:143`). In a
  command, which runs inside the keyboard interrupt, this never ends and the timer
  is never served: `TimerServed` excepts it as `CommandFaulted`. It excepts a handler
  that waits in `lock()` as well, which is what `lock_in_interrupt` shows.
- A region of the memory map that ends exactly where the kernel ends, listed after the
  one that begins there, wins (`multiboot.c:132`) and leaves a range of no frames, which
  nothing checks: `GrantsAreMemory` then holds because nothing was to be granted.
- The frame number of an exhausted memory becomes an address like any other
  (`pmm.c:83`), the last page of the kernel: `PoolImplemented` takes it for a refusal,
  and `VirtualMemory` shows where it is used.
- `vga_printf` takes the finished message for a format (`logging.c`), so a `%` in it
  would be converted with no argument.
- The loopback test reads before the UART can have returned the byte, and
  `serial_init` ignores its answer: the port then stays in loopback mode, and logs
  for it go nowhere. `LinesArriveWhole` speaks of the ports that passed.
- `paging_map` uses the physical address of a table as a pointer (`paging.c:76`),
  which no directory maps: `StraysExplained` says that it never gets anywhere.
- The word behind `tasks[]` is dispatched when it looks runnable, because the search
  wraps at 9 (`task.c:246`): `cpu` then becomes `"tail_dispatched"`.
- `kfree` leaves a stale back pointer in the free list (`kheap.c:242`):
  `FreeListComplete` fails with `MaxFrees = 2` and a heap of 90 words.
- A split whose remainder is at most 24 bytes ruins the rest (`kheap.c:186`):
  `BlocksTile` fails with sizes 2, 5 and 8, a heap of 30 words and no `kfree`.
- `vmm_init` cannot see that memory is exhausted (`vmm.c:44` tests for 0, which
  `pmm_alloc_frame` never returns): in `vmm`, small maps reach `stage = "running"`
  having taken the exhausted answer for a frame.
- A line of 512 keys vanishes (`shell.c:65`): `strlen` answers -1 and `strcat` writes
  its terminator to the front. `LineEditorImplemented` fails with
  `MaxLine = MAX_STRING_LEN`, without the assumption that excludes it.
- Keys typed while `lol2` is away are dropped when it returns; `LineEditor` says so
  (`Depart`, `Return`).

### Bounds

- Scheduler: `TASK_MAX = 4` is idle, shell and two tasks: the fewest for which a
  task waits behind another, one is killed while the other runs, and the table
  overruns. `testkill` always names task 2, as in the code. Two or three stacks;
  the word behind the table may look runnable or not.
  No counter is bounded artificially: ids end at the table.
- PhysicalMemory: 16 frames, words of 3 bits; ranges shorter than a word, of two
  whole words, and of two words and a frame up to the end of the address space.
- VirtualMemory: 24 frames, a heap of 2 pages instead of 257, every map of up to
  two of eight regions (before, around, at the edge of and behind the kernel's
  end, and reserved); three user tasks.
- KHeap: requests of 8 words and of 22 (two stacks and what lies between them),
  heaps of 30 to 90 words. In the kernel all requests are one stack of 8192
  bytes in 1 MB; as there, no split leaves less than a header and a trailer and the
  first block is never granted. `heap` follows one `kfree` per behaviour: ids are
  not reused and `testkill` names one task, so the kernel makes one.
- Console: a row of 3 columns, a prompt of 1, an array of 2 bytes, lines of up to 3
  keys (`MaxLine`), messages of 2 characters, one task at a time waiting to print
  (`MaxPending`) and one command away (`MaxAway`). A line overruns the array and
  the row, Backspace reaches the prompt and column 0, and every order of the
  printing steps and the keys occurs. `MaxLine` below `MAX_STRING_LEN` is the one
  bound that hides something: see the vanishing line above.
- Paging: directories of 4 entries, of which the upper two are the window above
  `KERNEL_BASE`; 16 frames, so that memory ends inside the boot table, inside the
  window, behind it, or starts outside; a heap of 2 frames; leftover memory
  that is zero or looks like a big page. Two tasks whose names are used again, so
  that any number of them may come and go.
- Interrupts: the idle task and one more; the timer, the keyboard and two lines of
  the second chip, so that both chips and the cascade compete; one exception with
  and one without an error code. Stacks nest as deep as the code allows: an interrupt,
  and an exception or `lol2` in a command.
- Logging: two tasks, three calls (`MaxCalls`), a transmitter of 2 characters
  (`FifoSize`, 16 in the chip; the driver never uses more than one), eight messages
  that cover every conversion, with and without a width. `udivmod64` keeps 30 of
  its 64 bits (`Bits`), which TLC's integers hold.

### Deadlock and fairness

Deadlock is checked where the system goes on for ever (`pmm`, `heap`, `console`,
`interrupts`). The scheduler's runs switch it off because the machine may stop
(`cpu`), and `vmm` because creation ends with the ids, `paging` because an access
that goes astray stops the model, `logging` because its calls are bounded.

`Fairness` is weak for the timer interrupt, which the PIT raises periodically, and
strong for each task's code, which runs whenever the task has the CPU again and
again: a preempted step continues where it was. The tick comes about 88 times a
second, because the divisor for 1 Hz does not fit into the 16 bits the PIT is
given (`timer.c:9-14`); no property depends on the rate. Nothing is assumed of
the keyboard. In `Interrupts` start-up and handlers go on (weak), since
nothing else runs while they do: a handler runs to its end or into `lock()`, where it
stays. Nothing is assumed of tasks, which may keep a lock for ever. The CPU takes an
interrupt that is requested again and again while its flag is on (strong: the flag goes
off in every handler). In `Logging` the UART keeps sending and a task inside `_printk` keeps running
(weak; that the scheduler gives it the CPU is `WaitingTasksRun`). A task that
spins on the lock finds it free because calls are bounded: the lock itself is not fair.

## What is proved

All theorems hold for every value of the constants that satisfies the module's
assumption (`SchedulerAssumption`, `MemoryAssumption`, `VirtualMemoryAssumption`,
`ConsoleAssumption`, `PagingAssumption`, `InterruptsAssumption`, `KHeapAssumption`,
`SerialAssumption`, `LoggingAssumption`). Two sets of theorems have a hypothesis of
their own, which TLC evaluates with `MCKHeap` and `MCLogging`:

- `KernelRequests`, for `KHeap`, is what the callers do. Every request is the one of
  `task_create`, a stack of 8192 bytes, which with its header and trailer takes 2054
  words; 1 MB leaves a remainder of 1286, which is a block and not a stack, so the
  first block of the heap is never granted. `testkill` names one task and ids are not
  reused, so there is one `kfree`. Without it the invariants are false, as TLC shows:
  the defects of `kheap.c` listed above need two frees or other sizes.
- `FormatsStand`, for `Logging`: each message's hand-written text is what `sprintf`
  makes of its format and arguments. It keeps the conversions of data, which is what
  the run compares, apart from the delivery of lines, which is what is proved.

`SchedulerProofs`: an inductive invariant `IInv` that adds to the checked
properties what they silently need: which `pc` goes with which table state while
`kernel_main` is inside `task_create`; that `task_lock` is held exactly in the
critical section; that entries from `last_task_id` on are untouched; that a stack
is in the heap or in one entry; what a preempted task holds. From it follow
`TypeCorrect`, `OneRunningTask`, `StacksOwned`, `DispatchSafe`, `LocksOwned`,
`IdsUnique`, `TimerNeverMasked`, `DeadStayDead`, `SearchTerminates` and the refinement
`ImplementsLifecycle`. The step lemmas go action by action; the switch is treated
once, for ticks and for `lol2`.

`PhysicalMemoryProofs`: the invariant relates bitmap, counter and held addresses
by the bijection between frame numbers and addresses inside the range (no wrap
there), and shows that the exhausted answer is outside it: `TypeCorrect`,
`FramesExclusive`, `CounterExact`, `ImplementsPool`. First-fit is used only as
"some free frame".

`VirtualMemoryProofs`: during boot first-fit does matter. The invariant says that
after k grants the bitmap is exactly the first k frames, or memory ran out;
hence page directory and heap pages are consecutive and the heap's arithmetic is
right: `TypeCorrect`, `HeapHasItsMemory`, `DirectoriesOwned`. For `GrantsWithinMemory` it
also relates the manager's range to the entries parsed so far (`RangeInv`): it is that
of the last of them that fits, and empty before there is one.

`ConsoleProofs`: the invariant says that the bytes hold a string terminated within
`MaxLine`, whatever lies behind the terminator, and that a task inside `_printk`
is at a character of its message. `strcat` and the erasure are shown to keep it,
which gives `TypeCorrect` and `ImplementsLineEditor`. For `EchoFollowsLine`, `Shows`
takes the row, cursor, line and visible part of the prompt as parameters, and a
lemma each treats the next column, the wrap, the erasure and the prompt.

`PagingProofs`: the invariant gives, for every stage of start-up, what the loaded
directory maps (the boot table at 0 and at `KERNEL_ENTRY`, then the window), and says
that a frame in use as a directory is not free; so no later write changes what it
translates. The arithmetic of the window is settled once (`Addresses`). `TypeCorrect`,
`KernelMapped`, `DirectoriesAgree`, `TranslationsFresh` follow. For
`StraysAccountedFor` the frames the heap takes are counted: the lowest free ones are
as many as it has pages (`LowestCount`) unless fewer are free, so a store of
`heap_init` that does not arrive has one of the two reasons the property names.

`InterruptsProofs`: the invariant describes every stack. A task runs on an empty
one; below a handler lies one frame of the task, or two when a command faulted or
yielded (`Frames`); a suspended task has the four words of `task_switch` and its way
back on top (`Suspended`), a new one what `task_create` wrote (`New`). With it go the
steps of the 8259s' initialisation (`ChipsInv`), the tables by stage, and which
lines may be in service where (`ServiceInv`): at most one line and the cascade,
and none where the flag may come back on. Entering, leaving, switching and creating
are each treated once as facts about words (`Entering`, `Leaving`, `Switching`,
`Creating`), then each action cites them. The descriptors are unpacked once
(`Entries`, `Encoded`). `TypeCorrect`, `ServiceClear`, `ContextsKept` and
`VectorsNamed` hold for any number of tasks and any set of devices and exceptions.

`KHeapProofs`: the invariant (`HeapInv` in `IInv`) says that the memory is tiled by
the first block, which is free, a client's block for every grant, and at most one
block that was given back, which stands second in the list and not next to the first
block. It says what their headers hold and that every block but the first takes a
multiple of the grain (`Whole`, `Rest`), so that a size tells which it is. Trailers
agree with headers until the one `kfree`: the code itself leaves stale ones after it.
The walks from header to header and along the list are recursive functions; what they
return is shown by a least counterexample over addresses, not by induction on data. A
`kmalloc` splits a free block, takes the one given back whole, or refuses; the `kfree`
links its block in and merges it when the first block ends where it begins. A lemma
each says which words such a step writes and which it leaves (`SplitWords`,
`ClearedWords`, `InsertWords`, `MergedWords`). From it: `BlocksAlwaysTile`,
`FreeListAlwaysComplete`, `LiveDataAlwaysIntact` and the refinement
`HeapImplementsAllocator`.

`LoggingProofs`: first `sprintf` itself. Its equation holds at every place of a format
(`SprintfEquation`, again by least counterexample), so a text without `%` comes out as
it went in (`PlainText`: the second pass in `vga_printf`), and `_printk`'s own format
yields stamp, tag, and message (`LineText`). Then the ports: where each is after every
write of `serial_init_port`, and that a port that left loopback mode with its format
set transmits what it is given (`PortSteps`, `PortTransmits`). The invariant joins
these with exclusion (only `print_lock`'s holder is inside), and with what each task's
`line` is at each `pc`. `LoggingTypes` contains that a transmitter never holds more
than one character; `LinesAlwaysArriveWhole` is for any number of tasks, calls,
messages and any FIFO.

Only model-checked: the liveness properties `WaitingTasksRun`, `KilledTasksArePurged`,
`TasksReachTheirLoop`, `TimerServed` and `PrintkReturns` (fairness and ENABLED are
beyond the prover); and what the conversions of `sprintf` and `udivmod64` yield, which
would be an induction over data.

## What is not modelled, and why

`task_exit_current`, `vmm_map`, `heap_insert_free_block`, `itoa`, `atoi` and
`reverse` have no callers; `strcmp` only compares. `tss_set_esp0` and `tss_set_ss0`
write fields the CPU reads only when it leaves ring 3, and every task runs in ring 0.
The rate of the PIT, the VGA registers, the text exceptions print and the printing
commands change no state that matters here. CPU identification, port I/O and the
banner are single instructions and text; `apic.c`, `ata.c` and `panic.c` are stubs.
A CPU without 4 MB pages stops in `boot.asm`, so the other case of `vmm_map_kernel`
is left out. The heap test makes two calls that return early.

## Plan

1. Done: `Scheduler`, `PhysicalMemory`, `VirtualMemory`, `KHeap` and `Console` with
   their abstract specifications; theorems on all of them.
2. Done: `Paging`, `Interrupts` with `Descriptors`, and `Logging` with `Serial` and
   `Strings`, and their theorems.
3. A bound on the bitmap of `PhysicalMemory` (4096 words), and the regions of a memory
   map that end above 4 GB or inside a page.
4. A composition of `Scheduler` with `KHeap` in place of its set of stacks; `StackOwnership`
   and `HeapImplementsAllocator` are its two halves.
5. Proofs: `FormatsStand` for messages of one conversion, from the digits of
   `int_to_str`; `KHeap` for requests of several sizes as long as nothing is given back.
