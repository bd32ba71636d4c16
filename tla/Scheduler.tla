------------------------------ MODULE Scheduler ------------------------------
(***************************************************************************)
(* The multitasking core of Rotary: the task table of kernel/task.c, the   *)
(* two spin locks of kernel/sync.c, the interrupt path (isr.asm,           *)
(* isr_handler, the 8259 end-of-interrupt protocol, timer_tick) and the    *)
(* callers that drive them: kernel_main, shell_init, the apple/banana      *)
(* tasks and the shell commands run from the keyboard interrupt.           *)
(*                                                                         *)
(* There is one CPU.  Code of a task runs with interrupts enabled and can  *)
(* be preempted between any two of its steps; an interrupt handler runs    *)
(* with interrupts disabled, so it is one action, which may end by         *)
(* resuming a different task.  A handler that waits for a spin lock can    *)
(* never be rescheduled: `cpu' then records that the machine spins.        *)
(***************************************************************************)
EXTENDS Integers, FiniteSets

CONSTANTS
  TASK_MAX,       \* entries of the table tasks[]
  TailStates,     \* what the word behind the table, tasks[TASK_MAX].state, may hold
  StackCells,     \* stacks of TASK_STACK_SIZE bytes the kernel heap can hold
  NoStack,        \* stack_frame = NULL
  NoTask,         \* current_task = NULL, before task_init
  KillIds,        \* task ids the shell's "testkill" command passes to task_kill
  MemZeroOnFree   \* KERNEL_MEMZERO_ON_FREE: kfree zeroes what it frees

Slots == 0 .. TASK_MAX - 1

States == {"EMPTY", "RUNNING", "WAITING", "PAUSED", "KILLED"}

ASSUME SchedulerAssumption ==
  /\ TASK_MAX \in Nat /\ TASK_MAX >= 2
  /\ TailStates \subseteq States /\ TailStates # {}
  /\ NoStack \notin StackCells
  /\ NoTask \notin Slots
  /\ StackCells # {}
  /\ KillIds \subseteq Slots
  /\ MemZeroOnFree \in BOOLEAN

VARIABLES
  state,            \* tasks[t].state
  stack_frame,      \* tasks[t].stack_frame
  kernel_esp,       \* what the saved stack pointer of t resumes, see Contexts
  current_task,
  last_task_id,     \* id the next task_create will use
  scheduler_ready,
  task_lock,
  print_lock,
  pc,               \* where the code of task t stands, outside interrupts
  heap_free,        \* stacks kmalloc can still hand out
  shell_registered, \* keyboard_event_handlers holds shell_keyboard_handler
  in_service,       \* IRQ lines the 8259 has delivered and not seen EOI for
  cpu               \* "running", or why the machine makes no progress any more

vars == <<state, stack_frame, kernel_esp, current_task, last_task_id,
          scheduler_ready, task_lock, print_lock, pc, heap_free,
          shell_registered, in_service, cpu>>

table == <<state, stack_frame, kernel_esp, current_task, last_task_id, heap_free>>
locks == <<task_lock, print_lock>>

(***************************************************************************)
(* What task_switch finds when it loads a task's kernel_esp: nothing, the  *)
(* frame task_create built (it "returns" into isr_exit and from there to   *)
(* the start address), the inside of the timer interrupt that preempted    *)
(* the task, or the inside of an `int $32' raised by the shell's "lol2"    *)
(* command in the keyboard interrupt.                                      *)
(***************************************************************************)
Contexts == {"none", "fresh", "timer", "yield"}

PCs == {"task_init", "scheduler_on", "create_lock", "create_alloc",
        "create_context", "create_state", "create_count", "create_unlock",
        "log", "logging", "shell_init", "loop", "unborn"}

CreateSection == {"create_alloc", "create_context", "create_state",
                  "create_count", "create_unlock"}

Faults == {"spin_print", "spin_task", "stack_freed", "table_overrun",
           "null_stack", "tail_dispatched"}

PIT      == 0   \* IRQ line of the timer
KEYBOARD == 1   \* IRQ line of the PS/2 keyboard

Running == cpu = "running"

TypeOK ==
  /\ state \in [Slots -> States]
  /\ stack_frame \in [Slots -> StackCells \cup {NoStack}]
  /\ kernel_esp \in [Slots -> Contexts]
  /\ current_task \in Slots \cup {NoTask}
  /\ last_task_id \in 1 .. TASK_MAX
  /\ scheduler_ready \in BOOLEAN
  /\ task_lock \in BOOLEAN
  /\ print_lock \in BOOLEAN
  /\ pc \in [Slots -> PCs]
  /\ heap_free \in SUBSET StackCells
  /\ shell_registered \in BOOLEAN
  /\ in_service \in SUBSET {PIT, KEYBOARD}
  /\ cpu \in {"running"} \cup Faults

Init ==
  /\ state = [t \in Slots |-> "EMPTY"]
  /\ stack_frame = [t \in Slots |-> NoStack]
  /\ kernel_esp = [t \in Slots |-> "none"]
  /\ current_task = NoTask
  /\ last_task_id = 1
  /\ scheduler_ready = FALSE
  /\ task_lock = FALSE
  /\ print_lock = FALSE
  /\ pc = [t \in Slots |-> IF t = 0 THEN "task_init" ELSE "unborn"]
  /\ heap_free = StackCells
  /\ shell_registered = FALSE
  /\ in_service = {}
  /\ cpu = "running"

(***************************************************************************)
(* Code of the tasks.  kernel_main runs before task_init gives it a table  *)
(* entry, so the code on the CPU is that of slot 0 while current_task is   *)
(* still NULL.                                                             *)
(***************************************************************************)
OnCpu == IF current_task = NoTask THEN 0 ELSE current_task

Step(t, from, to) ==
  /\ Running
  /\ OnCpu = t
  /\ pc[t] = from
  /\ pc' = [pc EXCEPT ![t] = to]
  /\ UNCHANGED <<in_service, cpu>>

\* Mutant: the entry of the idle task is left EMPTY.
TaskInitNoState ==
  /\ Step(0, "task_init", "scheduler_on")
  /\ current_task' = 0
  /\ UNCHANGED <<state, stack_frame, kernel_esp, last_task_id, scheduler_ready,
                 locks, heap_free, shell_registered>>

\* task_init: entry 0 describes the thread of kernel_main.
TaskInit ==
  /\ Step(0, "task_init", "scheduler_on")
  /\ state' = [state EXCEPT ![0] = "RUNNING"]
  /\ current_task' = 0
  /\ UNCHANGED <<stack_frame, kernel_esp, last_task_id, scheduler_ready,
                 locks, heap_free, shell_registered>>

\* task_init: only now may the timer interrupt schedule.
SchedulerOn ==
  /\ Step(0, "scheduler_on", "create_lock")
  /\ scheduler_ready' = TRUE
  /\ UNCHANGED <<table, locks, shell_registered>>

(***************************************************************************)
(* task_create("shell", ...), called by kernel_main with interrupts on.    *)
(***************************************************************************)
CreateLock ==
  /\ Step(0, "create_lock", "create_alloc")
  /\ ~task_lock
  /\ task_lock' = TRUE
  /\ UNCHANGED <<table, scheduler_ready, print_lock, shell_registered>>

\* Mutant: the heap hands the same stack out again.
TakeStackTwice ==
  /\ \E s \in heap_free :
       stack_frame' = [stack_frame EXCEPT ![last_task_id] = s]
  /\ UNCHANGED heap_free

\* kmalloc(TASK_STACK_SIZE) for the entry being created.
TakeStack ==
  \E s \in heap_free :
    /\ stack_frame' = [stack_frame EXCEPT ![last_task_id] = s]
    /\ heap_free' = heap_free \ {s}

\* Mutant: the entry is published before its context is built.
CreateAllocPublished ==
  /\ Step(0, "create_alloc", "create_context")
  /\ TakeStack
  /\ state' = [state EXCEPT ![last_task_id] = "WAITING"]
  /\ UNCHANGED <<kernel_esp, current_task, last_task_id,
                 scheduler_ready, locks, shell_registered>>

CreateAlloc ==
  /\ Step(0, "create_alloc", "create_context")
  /\ TakeStack
  /\ UNCHANGED <<state, kernel_esp, current_task, last_task_id,
                 scheduler_ready, locks, shell_registered>>

CreateContext ==
  /\ Step(0, "create_context", "create_state")
  /\ kernel_esp' = [kernel_esp EXCEPT ![last_task_id] = "fresh"]
  /\ UNCHANGED <<state, stack_frame, current_task, last_task_id,
                 scheduler_ready, locks, heap_free, shell_registered>>

\* From here on the timer interrupt may dispatch the new task.
CreateState ==
  /\ Running /\ OnCpu = 0 /\ pc[0] = "create_state"
  /\ pc' = [pc EXCEPT ![0] = "create_count", ![last_task_id] = "shell_init"]
  /\ state' = [state EXCEPT ![last_task_id] = "WAITING"]
  /\ UNCHANGED <<stack_frame, kernel_esp, current_task, last_task_id, heap_free,
                 scheduler_ready, locks, shell_registered, in_service, cpu>>

CreateCount ==
  /\ Step(0, "create_count", "create_unlock")
  /\ last_task_id' = last_task_id + 1
  /\ UNCHANGED <<state, stack_frame, kernel_esp, current_task, heap_free,
                 scheduler_ready, locks, shell_registered>>

CreateUnlock ==
  /\ Step(0, "create_unlock", "log")
  /\ task_lock' = FALSE
  /\ UNCHANGED <<table, scheduler_ready, print_lock, shell_registered>>

(***************************************************************************)
(* _printk in a task: the end of task_create in kernel_main, and the       *)
(* greeting of apple and banana.  The lock is held while the bytes go out  *)
(* to the screen and the serial line; then the task loops forever.         *)
(***************************************************************************)
LogLock(t) ==
  /\ Step(t, "log", "logging")
  /\ ~print_lock
  /\ print_lock' = TRUE
  /\ UNCHANGED <<table, scheduler_ready, task_lock, shell_registered>>

\* Mutant: _printk returns without unlocking.
LogUnlockForgotten(t) ==
  /\ Step(t, "logging", "loop")
  /\ UNCHANGED <<table, scheduler_ready, locks, shell_registered>>

LogUnlock(t) ==
  /\ Step(t, "logging", "loop")
  /\ print_lock' = FALSE
  /\ UNCHANGED <<table, scheduler_ready, task_lock, shell_registered>>

\* shell_init registers the keyboard handler and loops; it draws on the
\* screen without taking print_lock.
ShellInit(t) ==
  /\ Step(t, "shell_init", "loop")
  /\ shell_registered' = TRUE
  /\ UNCHANGED <<table, scheduler_ready, locks>>

TaskStep(t) ==
  \/ /\ t = 0
     /\ \/ TaskInit \/ SchedulerOn
        \/ CreateLock \/ CreateAlloc \/ CreateContext
        \/ CreateState \/ CreateCount \/ CreateUnlock
  \/ LogLock(t)
  \/ LogUnlock(t)
  \/ ShellInit(t)

(***************************************************************************)
(* Interrupts.  isr_handler acknowledges the timer before the handler runs *)
(* and every interrupt after it; an EOI is non-specific: it retires the    *)
(* IRQ line of highest priority, the lowest number, that is in service.    *)
(***************************************************************************)
EOI(s) == {i \in s : \E j \in s : j < i}

Raised(irq) == /\ Running
               /\ \A i \in in_service : irq < i

\* Mutant: the timer is acknowledged only when its handler returns.
TimerEntryNoEOI(s) == s \cup {PIT}

\* The IRQ lines in service when the timer's handler is entered.
TimerEntry(s) == EOI(s \cup {PIT})

\* task_switch leaves the handler at once for a task that never ran;
\* a preempted task first returns through its own isr_handler calls.
Resumed(context, s) == CASE context = "yield" -> EOI(EOI(s))
                         [] context = "timer" -> EOI(s)
                         [] OTHER -> s

Halt(fault) ==
  /\ cpu' = fault
  /\ UNCHANGED <<table, scheduler_ready, locks, pc, shell_registered, in_service>>

(***************************************************************************)
(* task_schedule.                                                          *)
(***************************************************************************)
\* Mutant: only the running task is considered.
PurgeableCurrent == {t \in Slots \ {0} : state[t] = "KILLED" /\ t = current_task}

Purgeable == {t \in Slots \ {0} : state[t] = "KILLED"}

\* The first KILLED entry is reported with printk, whatever its id.
PurgeSpins == print_lock /\ \E t \in Slots : state[t] = "KILLED"

\* task_purge frees the stack this very handler runs on, and kfree zeroes it.
PurgeOwnStack == MemZeroOnFree /\ current_task \in Purgeable

PurgedState == [t \in Slots |-> IF t \in Purgeable THEN "EMPTY" ELSE state[t]]

Runnable(i, tail) ==
  LET s == IF i = TASK_MAX THEN tail ELSE PurgedState[i]
  IN  s \notin {"EMPTY", "PAUSED", "KILLED"}

\* Mutant: the search always starts at entry 0.
DistanceFromZero(i) == i

\* The order in which entries are probed: current + 1, ..., TASK_MAX, 0, ...
Distance(i) == (i - current_task - 1) % (TASK_MAX + 1)

IsNext(i, tail) ==
  /\ Runnable(i, tail)
  /\ \A j \in 0 .. TASK_MAX : Runnable(j, tail) => Distance(i) <= Distance(j)

\* Mutant: prev->state is left RUNNING.
SwitchedStateNoDemotion(next) ==
  [PurgedState EXCEPT ![next] = "RUNNING"]

\* Mutant: prev->state becomes WAITING whatever it was.
SwitchedStateRevived(next) ==
  [PurgedState EXCEPT ![current_task] = "WAITING", ![next] = "RUNNING"]

SwitchedState(next) ==
  [t \in Slots |->
     IF t = next THEN "RUNNING"
     ELSE IF t = current_task /\ PurgedState[t] = "RUNNING" THEN "WAITING"
     ELSE PurgedState[t]]

\* Purge, hand the CPU over and leave the interrupt in the next task.
SwitchTo(next, kind, s) ==
  LET saved == [t \in Slots |-> IF t = current_task THEN kind
                                ELSE IF t \in Purgeable THEN "none"
                                ELSE kernel_esp[t]]
  IN  /\ state' = SwitchedState(next)
      /\ stack_frame' = [t \in Slots |-> IF t \in Purgeable THEN NoStack
                                         ELSE stack_frame[t]]
      /\ heap_free' = heap_free \cup {stack_frame[t] : t \in Purgeable}
      /\ kernel_esp' = saved
      /\ current_task' = next
      /\ in_service' = Resumed(saved[next], s)
      /\ UNCHANGED <<last_task_id, scheduler_ready, locks, pc, shell_registered, cpu>>

Schedule(kind, s) ==
  \/ PurgeSpins /\ Halt("spin_print")
  \/ ~PurgeSpins /\ PurgeOwnStack /\ Halt("stack_freed")
  \/ /\ ~PurgeSpins /\ ~PurgeOwnStack
     /\ \E tail \in TailStates :
          \/ IsNext(TASK_MAX, tail) /\ Halt("tail_dispatched")
          \/ \E next \in Slots : IsNext(next, tail) /\ SwitchTo(next, kind, s)

\* timer_tick before task_init has enabled the scheduler.
TimerTooEarly ==
  /\ Raised(PIT)
  /\ ~scheduler_ready
  /\ in_service' = EOI(TimerEntry(in_service))
  /\ UNCHANGED <<table, scheduler_ready, locks, pc, shell_registered, cpu>>

TimerTick ==
  /\ Raised(PIT)
  /\ scheduler_ready
  /\ Schedule("timer", TimerEntry(in_service))

TimerInterrupt == TimerTooEarly \/ TimerTick

(***************************************************************************)
(* The keyboard interrupt, when the key is the Enter that submits a        *)
(* command.  Keys that only edit the line touch none of this state.        *)
(***************************************************************************)
Command == Raised(KEYBOARD) /\ shell_registered

\* Every command modelled here, and tasks, pmm and heap, logs first; only
\* lol2 does not.
CommandSpins == Command /\ print_lock /\ Halt("spin_print")

Logged == Command /\ ~print_lock

\* Mutant: the command does not wait for task_lock.
LockTakenIgnored == FALSE

LockTaken == task_lock

\* Mutant: the bound task_kill has.
TableFullTooLate == last_task_id > TASK_MAX

\* Nothing stops task_create here: the next entry lies behind the table.
TableFull == last_task_id = TASK_MAX

\* apple and banana: task_create, from lock() to unlock() in one interrupt.
CommandCreate ==
  /\ Logged
  /\ \/ LockTaken /\ Halt("spin_task")
     \/ ~LockTaken /\ TableFull /\ Halt("table_overrun")
     \/ ~LockTaken /\ ~TableFull /\ heap_free = {} /\ Halt("null_stack")
     \/ /\ ~LockTaken /\ ~TableFull
        /\ TakeStack
        /\ kernel_esp' = [kernel_esp EXCEPT ![last_task_id] = "fresh"]
        /\ state' = [state EXCEPT ![last_task_id] = "WAITING"]
        /\ pc' = [pc EXCEPT ![last_task_id] = "log"]
        /\ last_task_id' = last_task_id + 1
        /\ in_service' = EOI(in_service \cup {KEYBOARD})
        /\ UNCHANGED <<current_task, scheduler_ready, locks, shell_registered, cpu>>

Mark(id) ==
  /\ state[id] \in {"RUNNING", "WAITING", "PAUSED"}
  /\ state' = [state EXCEPT ![id] = "KILLED"]
  /\ in_service' = EOI(in_service \cup {KEYBOARD})
  /\ UNCHANGED <<stack_frame, kernel_esp, current_task, last_task_id, heap_free,
                 scheduler_ready, locks, pc, shell_registered, cpu>>

\* Mutant: task_kill does not log, and so does not wait for print_lock.
CommandKillSilent == Command /\ \E id \in KillIds \ {0} : Mark(id)

\* testkill: task_kill marks the task; its resources go at the next tick.
CommandKill == Logged /\ \E id \in KillIds \ {0} : Mark(id)

\* lol2: `int $32' inside the keyboard interrupt.  isr_handler believes the
\* timer fired and its EOI retires the keyboard's line.
CommandYield ==
  /\ Command
  /\ Schedule("yield", EOI(in_service \cup {KEYBOARD}))

KeyboardInterrupt == CommandSpins \/ CommandCreate \/ CommandKill \/ CommandYield

Next ==
  \/ \E t \in Slots : TaskStep(t)
  \/ TimerInterrupt
  \/ KeyboardInterrupt

(***************************************************************************)
(* The PIT fires forever, in mode 3, about 88 times a second.  A task that *)
(* is given the CPU again and again makes progress: a preempted step goes  *)
(* on where it was.  Nobody has to type.                                   *)
(***************************************************************************)
Fairness ==
  /\ WF_vars(TimerInterrupt)
  /\ \A t \in Slots : SF_vars(TaskStep(t))

Spec == Init /\ [][Next]_vars /\ Fairness

(***************************************************************************)
(* Safety.                                                                 *)
(***************************************************************************)

\* At most one entry is RUNNING, and it is the one current_task points to:
\* task_schedule moves both, over purges, kills and nested yields.
RunningIsCurrent ==
  /\ \A t \in Slots : state[t] = "RUNNING" => t = current_task
  /\ current_task # NoTask => state[current_task] \in {"RUNNING", "KILLED"}

\* A stack belongs to one task or to the heap, never to both, and none is
\* lost: task_create, task_kill and task_purge agree on who owns it.
StackOwnership ==
  /\ \A t, u \in Slots :
       stack_frame[t] = stack_frame[u] => t = u \/ stack_frame[t] = NoStack
  /\ \A t \in Slots : stack_frame[t] \notin heap_free
  /\ \A s \in StackCells : s \in heap_free \/ \E t \in Slots : stack_frame[t] = s

\* Whatever task_schedule may pick next has a stack pointer to load: the
\* entry becomes visible to the timer only once its context is built.
DispatchReady ==
  \A t \in Slots : state[t] = "WAITING" => kernel_esp[t] # "none"

\* The search loop of task_schedule has no exit but a runnable entry.
SearchEnds ==
  scheduler_ready => state[0] \in {"RUNNING", "WAITING"}

\* A held lock has one holder, and that task can come back to release it:
\* no switch and no purge orphans task_lock or print_lock.  A task killed
\* while on the CPU may still take print_lock before the next tick.
LocksHaveOwners ==
  /\ task_lock => pc[0] \in CreateSection /\ state[0] \in {"RUNNING", "WAITING"}
  /\ print_lock => \E t \in Slots :
       /\ pc[t] = "logging"
       /\ state[t] \in {"RUNNING", "WAITING"} \/ t = current_task
       /\ \A u \in Slots : pc[u] = "logging" => u = t

\* Task ids are handed out once, so the id testkill names keeps its
\* meaning: no entry from last_task_id on is in use, except for the one
\* task_create has published and not yet counted.
IdsNeverReused ==
  \A t \in Slots : t >= last_task_id =>
    \/ state[t] = "EMPTY" /\ pc[t] = "unborn"
    \/ t = last_task_id /\ task_lock /\ pc[0] = "create_count"

\* No interrupt line stays in service once a task runs: a line that did
\* would shut out the timer for good.
InterruptsAcknowledged == in_service = {}

(***************************************************************************)
(* Action properties.                                                      *)
(***************************************************************************)

\* A killed task gets no further step of its own code once the timer has
\* ticked, and never becomes runnable again.
KilledStaysDead ==
  [][\A t \in Slots :
       /\ state[t] = "KILLED" => state'[t] \in {"KILLED", "EMPTY"}
       /\ state[t] = "EMPTY" /\ pc[t] # "unborn" /\ t # 0 => state'[t] = "EMPTY"
       /\ pc[t] # pc'[t] /\ pc[t] # "unborn" => state[t] # "EMPTY" \/ t = 0]_vars

(***************************************************************************)
(* Liveness.                                                               *)
(***************************************************************************)

\* Round robin starves nobody: a WAITING task is dispatched, unless it is
\* killed first or the machine stops.
WaitingTasksRun ==
  \A t \in Slots : state[t] = "WAITING" ~> state[t] # "WAITING" \/ ~Running

\* The next ticks give a killed task's stack back to the heap.
KilledTasksArePurged ==
  \A t \in Slots : state[t] = "KILLED" ~> stack_frame[t] = NoStack \/ ~Running

\* Every task gets through its start-up code: task_init and task_create for
\* kernel_main, the registration of the handler for the shell, one log line
\* for apple and banana.
TasksReachTheirLoop ==
  \A t \in Slots :
    pc[t] # "unborn" ~> pc[t] = "loop" \/ state[t] \in {"KILLED", "EMPTY"} \/ ~Running

(***************************************************************************)
(* The scheduler implements the life cycle of Lifecycle.  A task is there  *)
(* from the moment its entry is no longer EMPTY, and its stack counts as   *)
(* its own from then on: one that task_create has allocated and not yet    *)
(* published is invisible.                                                 *)
(***************************************************************************)
Phase(t) ==
  CASE state[t] = "RUNNING" -> "running"
    [] state[t] \in {"WAITING", "PAUSED"} -> "ready"
    [] state[t] = "KILLED" -> "dying"
    [] OTHER -> IF t = 0 \/ pc[t] = "unborn" THEN "absent" ELSE "gone"

Owned(t) == IF state[t] = "EMPTY" THEN NoStack ELSE stack_frame[t]

Life == INSTANCE Lifecycle WITH
          Tasks <- Slots, Idle <- 0, Stacks <- StackCells, Nothing <- NoStack,
          phase <- [t \in Slots |-> Phase(t)],
          owns <- [t \in Slots |-> Owned(t)],
          stopped <- cpu # "running"

\* Every step of the kernel is a step of the life cycle or invisible in it.
LifecycleRefined == Life!Spec

(***************************************************************************)
(* What comments of the code say and the code does not do.                 *)
(***************************************************************************)

\* task_create comes to "Relinquish control of the task structure" (and
\* _printk to release print_lock "so others can print"); a handler that
\* needs the lock while any preempted task holds it, be it the interrupted
\* one or kernel_main inside task_create, waits with interrupts off, and
\* the holder never gets there.
InterruptsFindLocksFree == cpu \notin {"spin_print", "spin_task"}

\* task_kill leaves it to the OS to "decide when to clear its resources":
\* it must not decide so on the stack it is running on.
OwnStackNeverFreed == cpu # "stack_freed"

\* tasks[] has TASK_MAX entries and task_kill checks its bound.
TableNeverOverrun == cpu # "table_overrun"
=============================================================================
