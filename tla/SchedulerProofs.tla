--------------------------- MODULE SchedulerProofs ---------------------------
(***************************************************************************)
(* The safety invariants of Scheduler hold for every size of the table,    *)
(* every number of stacks, every set of task ids that testkill may name,   *)
(* every word behind the table and either choice of KERNEL_MEMZERO_ON_FREE.*)
(***************************************************************************)
EXTENDS Scheduler, TLAPS

Booting == {"task_init", "scheduler_on", "create_lock", "create_alloc",
            "create_context", "create_state"}

\* What kernel_main has done so far fixes what the rest of the state can be:
\* until it publishes the shell there is no other task and no keyboard.
BootOrder ==
  /\ pc[0] \notin {"unborn", "shell_init"}
  /\ current_task = NoTask <=> pc[0] = "task_init"
  /\ scheduler_ready <=> pc[0] \notin {"task_init", "scheduler_on"}
  /\ pc[0] \in CreateSection => task_lock
  /\ pc[0] \in Booting \cup {"create_count"} => last_task_id = 1
  /\ pc[0] \in Booting => /\ ~shell_registered
                          /\ \A t \in Slots \ {0} : pc[t] = "unborn"
  /\ pc[0] = "create_state" => kernel_esp[1] = "fresh"
  /\ pc[0] \in {"create_context", "create_state"} => stack_frame[1] # NoStack

\* The idle task is never killed.
IdleLives ==
  state[0] \in (IF current_task = NoTask THEN {"EMPTY"} ELSE {"RUNNING", "WAITING"})

\* Only kernel_main runs task_init and task_create outside interrupts, and
\* an entry in use has code to run.
TaskPCs ==
  \A t \in Slots \ {0} :
    /\ pc[t] \in {"unborn", "shell_init", "log", "logging", "loop"}
    /\ state[t] # "EMPTY" => pc[t] # "unborn"

\* An entry in use has a stack; one that is still to be handed out has none,
\* except for the one task_create is filling in.
StackIffUsed ==
  \A t \in Slots \ {0} :
    /\ state[t] # "EMPTY" => stack_frame[t] # NoStack
    /\ t >= last_task_id /\ stack_frame[t] # NoStack =>
         t = last_task_id /\ pc[0] \in {"create_context", "create_state", "create_count"}

BootStack == stack_frame[0] = NoStack

LoggingLocks == \A t \in Slots : pc[t] = "logging" => print_lock

IInv ==
  /\ TypeOK
  /\ RunningIsCurrent
  /\ StackOwnership
  /\ DispatchReady
  /\ LocksHaveOwners
  /\ IdsNeverReused
  /\ InterruptsAcknowledged
  /\ BootOrder
  /\ IdleLives
  /\ TaskPCs
  /\ StackIffUsed
  /\ BootStack
  /\ LoggingLocks

LEMMA ConstantFacts ==
  /\ 0 \in Slots /\ 1 \in Slots /\ NoTask \notin Slots /\ NoStack \notin StackCells
  /\ Slots \subseteq Nat /\ TASK_MAX \in Nat /\ TASK_MAX >= 2
  BY SchedulerAssumption DEF Slots

\* Either line is the only one in service, so one EOI retires it.
LEMMA EOIFacts ==
  /\ EOI({}) = {} /\ EOI({PIT}) = {} /\ EOI({KEYBOARD}) = {}
  /\ \A c : Resumed(c, {}) = {}
<1>1. EOI({}) = {} /\ EOI({PIT}) = {} /\ EOI({KEYBOARD}) = {}
  BY DEF EOI, PIT, KEYBOARD
<1> QED BY <1>1 DEF Resumed

LEMMA InitIInv == Init => IInv
<1> SUFFICES ASSUME Init PROVE IInv
  OBVIOUS
<1> USE ConstantFacts, SchedulerAssumption DEF Init
<1>1. TypeOK
  <2>1. state \in [Slots -> States] /\ kernel_esp \in [Slots -> Contexts] /\ pc \in [Slots -> PCs]
    BY DEF States, Contexts, PCs
  <2>2. stack_frame \in [Slots -> StackCells \cup {NoStack}] /\ heap_free \in SUBSET StackCells
    OBVIOUS
  <2>3. current_task \in Slots \cup {NoTask} /\ last_task_id \in 1 .. TASK_MAX
    OBVIOUS
  <2> QED BY <2>1, <2>2, <2>3 DEF TypeOK
<1>2. RunningIsCurrent /\ StackOwnership /\ DispatchReady /\ LocksHaveOwners
  BY DEF RunningIsCurrent, StackOwnership, DispatchReady, LocksHaveOwners
<1>3. IdsNeverReused /\ InterruptsAcknowledged
  BY DEF IdsNeverReused, InterruptsAcknowledged, Slots
<1>4. BootOrder /\ IdleLives /\ TaskPCs /\ StackIffUsed /\ BootStack /\ LoggingLocks
  BY DEF BootOrder, IdleLives, TaskPCs, StackIffUsed, BootStack, LoggingLocks,
         Booting, CreateSection
<1> QED BY <1>1, <1>2, <1>3, <1>4 DEF IInv

LEMMA TaskInitStep == ASSUME IInv, TaskInit PROVE IInv'
<1> USE ConstantFacts DEF IInv, TaskInit, Step, OnCpu, table, locks
<1>1. TypeOK'
  BY DEF TypeOK, States, Contexts, PCs
<1>2. RunningIsCurrent' /\ DispatchReady' /\ IdleLives'
  BY DEF TypeOK, RunningIsCurrent, DispatchReady, IdleLives, BootOrder
<1>3. StackOwnership' /\ StackIffUsed' /\ BootStack'
  BY DEF TypeOK, StackOwnership, StackIffUsed, BootStack, BootOrder
<1>4. LocksHaveOwners' /\ LoggingLocks'
  BY DEF TypeOK, LocksHaveOwners, LoggingLocks, BootOrder, Booting, CreateSection
<1>5. BootOrder' /\ TaskPCs' /\ IdsNeverReused'
  BY DEF TypeOK, BootOrder, TaskPCs, IdsNeverReused, Booting, CreateSection
<1> QED BY <1>1, <1>2, <1>3, <1>4, <1>5 DEF InterruptsAcknowledged

LEMMA SchedulerOnStep == ASSUME IInv, SchedulerOn PROVE IInv'
<1> USE ConstantFacts DEF IInv, SchedulerOn, Step, OnCpu, table, locks
<1>1. TypeOK'
  BY DEF TypeOK, States, Contexts, PCs
<1>2. RunningIsCurrent' /\ DispatchReady' /\ IdleLives'
  BY DEF TypeOK, RunningIsCurrent, DispatchReady, IdleLives, BootOrder
<1>3. StackOwnership' /\ StackIffUsed' /\ BootStack'
  BY DEF TypeOK, StackOwnership, StackIffUsed, BootStack, BootOrder
<1>4. LocksHaveOwners' /\ LoggingLocks'
  BY DEF TypeOK, LocksHaveOwners, LoggingLocks, BootOrder, Booting, CreateSection
<1>5. BootOrder' /\ TaskPCs' /\ IdsNeverReused'
  BY DEF TypeOK, BootOrder, TaskPCs, IdsNeverReused, Booting, CreateSection
<1> QED BY <1>1, <1>2, <1>3, <1>4, <1>5 DEF InterruptsAcknowledged

LEMMA CreateLockStep == ASSUME IInv, CreateLock PROVE IInv'
<1> USE ConstantFacts DEF IInv, CreateLock, Step, OnCpu, table, locks
<1>1. TypeOK'
  BY DEF TypeOK, States, Contexts, PCs
<1>2. RunningIsCurrent' /\ DispatchReady' /\ IdleLives'
  BY DEF TypeOK, RunningIsCurrent, DispatchReady, IdleLives, BootOrder
<1>3. StackOwnership' /\ StackIffUsed' /\ BootStack'
  BY DEF TypeOK, StackOwnership, StackIffUsed, BootStack, BootOrder
<1>4. LocksHaveOwners' /\ LoggingLocks'
  BY DEF TypeOK, LocksHaveOwners, LoggingLocks, BootOrder, RunningIsCurrent, IdleLives,
       Booting, CreateSection
<1>5. BootOrder' /\ TaskPCs' /\ IdsNeverReused'
  BY DEF TypeOK, BootOrder, TaskPCs, IdsNeverReused, Booting, CreateSection
<1> QED BY <1>1, <1>2, <1>3, <1>4, <1>5 DEF InterruptsAcknowledged

LEMMA CreateAllocStep == ASSUME IInv, CreateAlloc PROVE IInv'
<1> USE ConstantFacts DEF IInv, CreateAlloc, Step, OnCpu, table, locks
<1>1. TypeOK'
  BY DEF TypeOK, States, Contexts, PCs, BootOrder, TakeStack, Booting, CreateSection
<1>2. RunningIsCurrent' /\ DispatchReady' /\ IdleLives'
  BY DEF TypeOK, RunningIsCurrent, DispatchReady, IdleLives, BootOrder, TakeStack, Booting,
       CreateSection
<1>3. StackOwnership' /\ StackIffUsed' /\ BootStack'
  BY DEF TypeOK, StackOwnership, StackIffUsed, BootStack, BootOrder, TakeStack, Booting,
       CreateSection
<1>4. LocksHaveOwners' /\ LoggingLocks'
  BY DEF TypeOK, LocksHaveOwners, LoggingLocks, BootOrder, TakeStack, Booting, CreateSection
<1>5. BootOrder' /\ TaskPCs' /\ IdsNeverReused'
  BY DEF TypeOK, BootOrder, TaskPCs, IdsNeverReused, TakeStack, Booting, CreateSection
<1> QED BY <1>1, <1>2, <1>3, <1>4, <1>5 DEF InterruptsAcknowledged

LEMMA CreateContextStep == ASSUME IInv, CreateContext PROVE IInv'
<1> USE ConstantFacts DEF IInv, CreateContext, Step, OnCpu, table, locks
<1>1. TypeOK'
  BY DEF TypeOK, States, Contexts, PCs
<1>2. RunningIsCurrent' /\ DispatchReady' /\ IdleLives'
  BY DEF TypeOK, RunningIsCurrent, DispatchReady, IdleLives, BootOrder, Booting, CreateSection
<1>3. StackOwnership' /\ StackIffUsed' /\ BootStack'
  BY DEF TypeOK, StackOwnership, StackIffUsed, BootStack, BootOrder, Booting, CreateSection
<1>4. LocksHaveOwners' /\ LoggingLocks'
  BY DEF TypeOK, LocksHaveOwners, LoggingLocks, BootOrder, Booting, CreateSection
<1>5. BootOrder' /\ TaskPCs' /\ IdsNeverReused'
  BY DEF TypeOK, BootOrder, TaskPCs, IdsNeverReused, Booting, CreateSection
<1> QED BY <1>1, <1>2, <1>3, <1>4, <1>5 DEF InterruptsAcknowledged

LEMMA CreateStateStep == ASSUME IInv, CreateState PROVE IInv'
<1> USE ConstantFacts DEF IInv, CreateState, OnCpu, table, locks
<1>1. TypeOK'
  BY DEF TypeOK, States, Contexts, PCs, BootOrder, Booting, CreateSection
<1>2. RunningIsCurrent' /\ DispatchReady' /\ IdleLives'
  BY DEF TypeOK, RunningIsCurrent, DispatchReady, IdleLives, BootOrder, Booting, CreateSection
<1>3. StackOwnership' /\ StackIffUsed' /\ BootStack'
  BY DEF TypeOK, StackOwnership, StackIffUsed, BootStack, BootOrder, Booting, CreateSection
<1>4. LocksHaveOwners' /\ LoggingLocks'
  BY DEF TypeOK, LocksHaveOwners, LoggingLocks, BootOrder, Booting, CreateSection
<1>5. BootOrder' /\ TaskPCs' /\ IdsNeverReused'
  BY DEF TypeOK, BootOrder, TaskPCs, IdsNeverReused, Booting, CreateSection
<1> QED BY <1>1, <1>2, <1>3, <1>4, <1>5 DEF InterruptsAcknowledged

LEMMA CreateCountStep == ASSUME IInv, CreateCount PROVE IInv'
<1> USE ConstantFacts DEF IInv, CreateCount, Step, OnCpu, table, locks
<1>1. TypeOK'
  BY DEF TypeOK, States, Contexts, PCs, BootOrder, Booting, CreateSection
<1>2. RunningIsCurrent' /\ DispatchReady' /\ IdleLives'
  BY DEF TypeOK, RunningIsCurrent, DispatchReady, IdleLives, BootOrder, Booting, CreateSection
<1>3. StackOwnership' /\ StackIffUsed' /\ BootStack'
  BY DEF TypeOK, StackOwnership, StackIffUsed, BootStack, BootOrder, Booting, CreateSection
<1>4. LocksHaveOwners' /\ LoggingLocks'
  BY DEF TypeOK, LocksHaveOwners, LoggingLocks, BootOrder, Booting, CreateSection
<1>5. BootOrder' /\ TaskPCs' /\ IdsNeverReused'
  BY DEF TypeOK, BootOrder, TaskPCs, IdsNeverReused, Booting, CreateSection
<1> QED BY <1>1, <1>2, <1>3, <1>4, <1>5 DEF InterruptsAcknowledged

LEMMA CreateUnlockStep == ASSUME IInv, CreateUnlock PROVE IInv'
<1> USE ConstantFacts DEF IInv, CreateUnlock, Step, OnCpu, table, locks
<1>1. TypeOK'
  BY DEF TypeOK, States, Contexts, PCs
<1>2. RunningIsCurrent' /\ DispatchReady' /\ IdleLives'
  BY DEF TypeOK, RunningIsCurrent, DispatchReady, IdleLives, BootOrder
<1>3. StackOwnership' /\ StackIffUsed' /\ BootStack'
  BY DEF TypeOK, StackOwnership, StackIffUsed, BootStack, BootOrder
<1>4. LocksHaveOwners' /\ LoggingLocks'
  BY DEF TypeOK, LocksHaveOwners, LoggingLocks, BootOrder, Booting, CreateSection
<1>5. BootOrder' /\ TaskPCs' /\ IdsNeverReused'
  BY DEF TypeOK, BootOrder, TaskPCs, IdsNeverReused, Booting, CreateSection
<1> QED BY <1>1, <1>2, <1>3, <1>4, <1>5 DEF InterruptsAcknowledged

LEMMA LogLockStep == ASSUME IInv, NEW t \in Slots, LogLock(t) PROVE IInv'
<1> USE ConstantFacts DEF IInv, LogLock, Step, OnCpu, table, locks
<1>1. TypeOK'
  BY DEF TypeOK, States, Contexts, PCs, BootOrder, Booting, CreateSection
<1>2. RunningIsCurrent' /\ DispatchReady' /\ IdleLives'
  BY DEF TypeOK, RunningIsCurrent, DispatchReady, IdleLives, BootOrder, Booting, CreateSection
<1>3. StackOwnership' /\ StackIffUsed' /\ BootStack'
  BY DEF TypeOK, StackOwnership, StackIffUsed, BootStack, BootOrder, Booting, CreateSection
<1>4. LocksHaveOwners' /\ LoggingLocks'
  BY DEF TypeOK, LocksHaveOwners, LoggingLocks, BootOrder, Booting, CreateSection
<1>5. BootOrder' /\ TaskPCs' /\ IdsNeverReused'
  BY DEF TypeOK, BootOrder, TaskPCs, IdsNeverReused, Booting, CreateSection
<1> QED BY <1>1, <1>2, <1>3, <1>4, <1>5 DEF InterruptsAcknowledged

LEMMA LogUnlockStep == ASSUME IInv, NEW t \in Slots, LogUnlock(t) PROVE IInv'
<1> USE ConstantFacts DEF IInv, LogUnlock, Step, OnCpu, table, locks
<1>1. TypeOK'
  BY DEF TypeOK, States, Contexts, PCs, BootOrder, Booting, CreateSection
<1>2. RunningIsCurrent' /\ DispatchReady' /\ IdleLives'
  BY DEF TypeOK, RunningIsCurrent, DispatchReady, IdleLives, BootOrder, Booting, CreateSection
<1>3. StackOwnership' /\ StackIffUsed' /\ BootStack'
  BY DEF TypeOK, StackOwnership, StackIffUsed, BootStack, BootOrder, Booting, CreateSection
<1>4. LocksHaveOwners' /\ LoggingLocks'
  BY DEF TypeOK, LocksHaveOwners, LoggingLocks, BootOrder, Booting, CreateSection
<1>5. BootOrder' /\ TaskPCs' /\ IdsNeverReused'
  BY DEF TypeOK, BootOrder, TaskPCs, IdsNeverReused, Booting, CreateSection
<1> QED BY <1>1, <1>2, <1>3, <1>4, <1>5 DEF InterruptsAcknowledged

LEMMA ShellInitStep == ASSUME IInv, NEW t \in Slots, ShellInit(t) PROVE IInv'
<1> USE ConstantFacts DEF IInv, ShellInit, Step, OnCpu, table, locks
<1>1. TypeOK'
  BY DEF TypeOK, States, Contexts, PCs, BootOrder, Booting, CreateSection
<1>2. RunningIsCurrent' /\ DispatchReady' /\ IdleLives'
  BY DEF TypeOK, RunningIsCurrent, DispatchReady, IdleLives, BootOrder, Booting, CreateSection
<1>3. StackOwnership' /\ StackIffUsed' /\ BootStack'
  BY DEF TypeOK, StackOwnership, StackIffUsed, BootStack, BootOrder, Booting, CreateSection
<1>4. LocksHaveOwners' /\ LoggingLocks'
  BY DEF TypeOK, LocksHaveOwners, LoggingLocks, BootOrder, Booting, CreateSection
<1>5. BootOrder' /\ TaskPCs' /\ IdsNeverReused'
  BY DEF TypeOK, BootOrder, TaskPCs, IdsNeverReused, Booting, CreateSection
<1> QED BY <1>1, <1>2, <1>3, <1>4, <1>5 DEF InterruptsAcknowledged

LEMMA HaltStep == ASSUME IInv, NEW f \in Faults, Halt(f) PROVE IInv'
<1> USE ConstantFacts DEF IInv, Halt, table, locks
<1>1. TypeOK'
  BY DEF TypeOK
<1>2. RunningIsCurrent' /\ DispatchReady' /\ IdleLives'
  BY DEF RunningIsCurrent, DispatchReady, IdleLives
<1>3. StackOwnership' /\ StackIffUsed' /\ BootStack'
  BY DEF StackOwnership, StackIffUsed, BootStack
<1>4. LocksHaveOwners' /\ LoggingLocks'
  BY DEF LocksHaveOwners, LoggingLocks
<1>5. BootOrder' /\ TaskPCs' /\ IdsNeverReused'
  BY DEF BootOrder, TaskPCs, IdsNeverReused
<1> QED BY <1>1, <1>2, <1>3, <1>4, <1>5 DEF InterruptsAcknowledged

\* The purge takes exactly the KILLED entries: the idle task is not one.
LEMMA Purged ==
  ASSUME IInv
  PROVE  /\ Purgeable = {t \in Slots : state[t] = "KILLED"}
         /\ \A t \in Purgeable : stack_frame[t] \in StackCells
         /\ \A t \in Slots : PurgedState[t] = IF state[t] = "KILLED" THEN "EMPTY" ELSE state[t]
         /\ \A t \in Slots : \A tail \in TailStates : Runnable(t, tail) => state[t] \in {"RUNNING", "WAITING"}
<1> USE ConstantFacts DEF IInv
<1>1. state[0] # "KILLED"
  BY DEF IdleLives
<1>2. Purgeable = {t \in Slots : state[t] = "KILLED"}
  BY <1>1 DEF Purgeable
<1>3. \A t \in Purgeable : stack_frame[t] \in StackCells
  BY DEF Purgeable, StackIffUsed, TypeOK
<1>4. \A t \in Slots : PurgedState[t] = IF state[t] = "KILLED" THEN "EMPTY" ELSE state[t]
  BY <1>2 DEF PurgedState
<1>5. \A t \in Slots : \A tail \in TailStates : Runnable(t, tail) => PurgedState[t] \notin {"EMPTY", "PAUSED", "KILLED"}
  BY DEF Runnable, Slots
<1>6. \A t \in Slots : \A tail \in TailStates : Runnable(t, tail) => state[t] \in {"RUNNING", "WAITING"}
  BY <1>4, <1>5 DEF TypeOK, States
<1> QED BY <1>2, <1>3, <1>4, <1>6

LEMMA SwitchToStep ==
  ASSUME IInv, NEW next \in Slots, NEW tail \in TailStates, Runnable(next, tail), NEW kind \in {"timer", "yield"},
         scheduler_ready, ~PurgeSpins, SwitchTo(next, kind, {})
  PROVE  IInv'
<1> USE ConstantFacts DEF IInv
<1>1. current_task \in Slots
  BY DEF BootOrder, TypeOK
<1>2. /\ UNCHANGED <<last_task_id, scheduler_ready, task_lock, print_lock,
                     pc, shell_registered, cpu>>
      /\ current_task' = next
  BY DEF SwitchTo, locks
<1>3. state' = [t \in Slots |->
                  IF t = next THEN "RUNNING"
                  ELSE IF state[t] = "KILLED" THEN "EMPTY"
                  ELSE IF t = current_task /\ state[t] = "RUNNING" THEN "WAITING"
                  ELSE state[t]]
  BY Purged DEF SwitchTo, SwitchedState
<1>4. kernel_esp' = [t \in Slots |-> IF t = current_task THEN kind
                                     ELSE IF state[t] = "KILLED" THEN "none"
                                     ELSE kernel_esp[t]]
  BY Purged DEF SwitchTo
<1>5. stack_frame' = [t \in Slots |-> IF state[t] = "KILLED" THEN NoStack ELSE stack_frame[t]]
  BY Purged DEF SwitchTo
<1>6. heap_free' = heap_free \cup {stack_frame[t] : t \in {u \in Slots : state[u] = "KILLED"}}
  BY Purged DEF SwitchTo
<1>7. in_service' = {}
  BY EOIFacts DEF SwitchTo
<1>8. state[next] \in {"RUNNING", "WAITING"}
  BY Purged
<1>9. TypeOK'
  <2>1. state' \in [Slots -> States]
    BY <1>3 DEF TypeOK, States
  <2>2. kernel_esp' \in [Slots -> Contexts]
    BY <1>4 DEF TypeOK, Contexts
  <2>3. stack_frame' \in [Slots -> StackCells \cup {NoStack}]
    BY <1>5 DEF TypeOK
  <2>4. heap_free' \subseteq StackCells
    BY <1>6, Purged DEF TypeOK
  <2> QED BY <1>2, <1>7, <2>1, <2>2, <2>3, <2>4 DEF TypeOK
<1>10. RunningIsCurrent' /\ DispatchReady' /\ IdleLives'
  <2>1. RunningIsCurrent'
    BY <1>1, <1>2, <1>3 DEF RunningIsCurrent
  <2>2. DispatchReady'
    BY <1>1, <1>2, <1>3, <1>4, <1>8 DEF DispatchReady, RunningIsCurrent
  <2>3. IdleLives'
    BY <1>1, <1>2, <1>3 DEF IdleLives
  <2> QED BY <2>1, <2>2, <2>3
<1>11. StackOwnership' /\ StackIffUsed' /\ BootStack'
  <2>1. StackOwnership'
    BY <1>5, <1>6 DEF StackOwnership, TypeOK, StackIffUsed, IdleLives
  <2>2. StackIffUsed' /\ BootStack'
    BY <1>2, <1>3, <1>5, <1>8 DEF StackIffUsed, BootStack, TypeOK
  <2> QED BY <2>1, <2>2
<1>12. LocksHaveOwners' /\ LoggingLocks'
  BY <1>1, <1>2, <1>3, <1>8 DEF LocksHaveOwners, LoggingLocks, RunningIsCurrent, PurgeSpins
<1>13. BootOrder' /\ TaskPCs' /\ IdsNeverReused'
  <2>1. TaskPCs'
    BY <1>2, <1>3, <1>8 DEF TaskPCs
  <2>2. IdsNeverReused'
    BY <1>1, <1>2, <1>3, <1>8 DEF IdsNeverReused, RunningIsCurrent
  <2>3. pc[0] = "create_state" => kernel_esp'[1] = "fresh"
    BY <1>1, <1>2, <1>4, <1>8 DEF BootOrder, RunningIsCurrent, Booting, IdsNeverReused
  <2>4. pc[0] \in {"create_context", "create_state"} => stack_frame'[1] # NoStack
    BY <1>5 DEF BootOrder, IdsNeverReused, Booting
  <2> QED BY <1>1, <1>2, <2>1, <2>2, <2>3, <2>4 DEF BootOrder, Booting
<1> QED BY <1>7, <1>9, <1>10, <1>11, <1>12, <1>13 DEF InterruptsAcknowledged

LEMMA ScheduleStep ==
  ASSUME IInv, scheduler_ready, NEW kind \in {"timer", "yield"}, Schedule(kind, {})
  PROVE  IInv'
<1>1. CASE PurgeSpins /\ Halt("spin_print")
  BY <1>1, HaltStep DEF Faults
<1>2. CASE Halt("stack_freed")
  BY <1>2, HaltStep DEF Faults
<1>3. CASE Halt("tail_dispatched")
  BY <1>3, HaltStep DEF Faults
<1>4. ASSUME ~PurgeSpins, NEW tail \in TailStates, NEW next \in Slots, IsNext(next, tail), SwitchTo(next, kind, {})
      PROVE  IInv'
  BY <1>4, SwitchToStep DEF IsNext
<1> QED BY <1>1, <1>2, <1>3, <1>4 DEF Schedule

LEMMA TimerInterruptStep == ASSUME IInv, TimerInterrupt PROVE IInv'
<1> USE ConstantFacts, EOIFacts DEF IInv
<1>1. TimerEntry(in_service) = {}
  BY DEF TimerEntry, InterruptsAcknowledged
<1>2. CASE TimerTooEarly
  <2>1. UNCHANGED vars
    BY <1>1, <1>2 DEF TimerTooEarly, vars, table, locks, InterruptsAcknowledged
  <2> QED BY <2>1 DEF vars, TypeOK, RunningIsCurrent, StackOwnership, DispatchReady,
                LocksHaveOwners, IdsNeverReused, InterruptsAcknowledged, BootOrder,
                IdleLives, TaskPCs, StackIffUsed, BootStack, LoggingLocks
<1>3. CASE TimerTick
  <2>1. Schedule("timer", {}) /\ scheduler_ready
    BY <1>1, <1>3 DEF TimerTick
  <2> HIDE DEF IInv
  <2> QED BY <2>1, ScheduleStep
<1> QED BY <1>2, <1>3 DEF TimerInterrupt

LEMMA CommandCreateStep == ASSUME IInv, CommandCreate PROVE IInv'
<1>1. CASE Halt("spin_task") \/ Halt("table_overrun") \/ Halt("null_stack")
  BY <1>1, HaltStep DEF Faults
<1>2. ASSUME Logged, ~LockTaken, ~TableFull, TakeStack,
             kernel_esp' = [kernel_esp EXCEPT ![last_task_id] = "fresh"],
             state' = [state EXCEPT ![last_task_id] = "WAITING"],
             pc' = [pc EXCEPT ![last_task_id] = "log"],
             last_task_id' = last_task_id + 1,
             in_service' = EOI(in_service \cup {KEYBOARD}),
             UNCHANGED <<current_task, scheduler_ready, locks, shell_registered, cpu>>
      PROVE  IInv'
  <2> USE ConstantFacts DEF IInv, locks
  <2>1. last_task_id \in Slots \ {0} /\ ~task_lock /\ ~print_lock /\ shell_registered
    BY <1>2 DEF LockTaken, TableFull, TypeOK, Slots, Logged, Command
  <2>2. in_service' = {}
    BY <1>2, EOIFacts DEF InterruptsAcknowledged
  <2>3. PICK s \in heap_free : /\ stack_frame' = [stack_frame EXCEPT ![last_task_id] = s]
                               /\ heap_free' = heap_free \ {s}
    BY <1>2 DEF TakeStack
  <2>4. /\ state[last_task_id] = "EMPTY" /\ pc[last_task_id] = "unborn"
        /\ stack_frame[last_task_id] = NoStack
        /\ current_task # last_task_id
    BY <2>1 DEF IdsNeverReused, StackIffUsed, BootOrder, CreateSection, RunningIsCurrent, TypeOK
  <2>5. pc[0] \notin Booting \cup CreateSection
    BY <2>1 DEF BootOrder
  <2>6. TypeOK'
    <3>1. /\ state' \in [Slots -> States] /\ pc' \in [Slots -> PCs]
          /\ kernel_esp' \in [Slots -> Contexts]
      BY <1>2 DEF TypeOK, States, PCs, Contexts
    <3>2. stack_frame' \in [Slots -> StackCells \cup {NoStack}] /\ heap_free' \subseteq StackCells
      BY <2>3 DEF TypeOK
    <3>3. last_task_id' \in 1 .. TASK_MAX
      BY <1>2, <2>1 DEF TypeOK, Slots
    <3> QED BY <1>2, <2>2, <3>1, <3>2, <3>3 DEF TypeOK
  <2>7. RunningIsCurrent' /\ DispatchReady' /\ IdleLives'
    BY <1>2, <2>1, <2>4 DEF RunningIsCurrent, DispatchReady, IdleLives, TypeOK
  <2>8. StackOwnership' /\ BootStack'
    BY <2>1, <2>3, <2>4 DEF StackOwnership, BootStack, TypeOK
  <2>9. StackIffUsed'
    BY <1>2, <2>1, <2>3, <2>5 DEF StackIffUsed, TypeOK, CreateSection
  <2>10. LocksHaveOwners' /\ LoggingLocks'
    BY <1>2, <2>1, <2>4 DEF LocksHaveOwners, LoggingLocks, TypeOK
  <2>11. BootOrder' /\ IdsNeverReused'
    BY <1>2, <2>1, <2>5 DEF BootOrder, IdsNeverReused, TypeOK, Booting, CreateSection
  <2>12. TaskPCs'
    BY <1>2, <2>1 DEF TaskPCs, TypeOK
  <2> QED BY <2>2, <2>6, <2>7, <2>8, <2>9, <2>10, <2>11, <2>12 DEF InterruptsAcknowledged
<1> QED BY <1>1, <1>2 DEF CommandCreate

LEMMA CommandKillStep == ASSUME IInv, CommandKill PROVE IInv'
<1> USE ConstantFacts DEF IInv
<1>1. PICK id \in KillIds \ {0} : Mark(id)
  BY DEF CommandKill
<1>2. /\ id \in Slots \ {0} /\ state[id] \in {"RUNNING", "WAITING", "PAUSED"}
      /\ state' = [state EXCEPT ![id] = "KILLED"]
      /\ ~print_lock
      /\ UNCHANGED <<stack_frame, kernel_esp, current_task, last_task_id, heap_free,
                     scheduler_ready, task_lock, print_lock, pc, shell_registered, cpu>>
  BY <1>1, SchedulerAssumption DEF Mark, CommandKill, Logged, locks
<1>3. in_service' = {}
  BY <1>1, EOIFacts DEF Mark, InterruptsAcknowledged
<1>4. TypeOK'
  <2>1. state' \in [Slots -> States]
    BY <1>2 DEF TypeOK, States
  <2> QED BY <1>2, <1>3, <2>1 DEF TypeOK
<1>5. RunningIsCurrent' /\ DispatchReady' /\ IdleLives'
  BY <1>2 DEF RunningIsCurrent, DispatchReady, IdleLives, TypeOK
<1>6. StackOwnership' /\ StackIffUsed' /\ BootStack'
  BY <1>2 DEF StackOwnership, StackIffUsed, BootStack, TypeOK
<1>7. LocksHaveOwners' /\ LoggingLocks'
  BY <1>2 DEF LocksHaveOwners, LoggingLocks, TypeOK
<1>8. BootOrder' /\ TaskPCs' /\ IdsNeverReused'
  BY <1>2 DEF BootOrder, TaskPCs, IdsNeverReused, TypeOK
<1> QED BY <1>3, <1>4, <1>5, <1>6, <1>7, <1>8 DEF InterruptsAcknowledged

LEMMA KeyboardInterruptStep == ASSUME IInv, KeyboardInterrupt PROVE IInv'
<1>1. CASE CommandSpins
  BY <1>1, HaltStep DEF CommandSpins, Faults
<1>2. CASE CommandYield
  <2>1. Schedule("yield", {})
    BY <1>2, EOIFacts DEF CommandYield, IInv, InterruptsAcknowledged
  <2>2. scheduler_ready
    BY <1>2 DEF CommandYield, Command, IInv, BootOrder, Booting
  <2> QED BY <2>1, <2>2, ScheduleStep
<1> QED BY <1>1, <1>2, CommandCreateStep, CommandKillStep DEF KeyboardInterrupt

\* IInv is inductive.
LEMMA IInvStep == IInv /\ [Next]_vars => IInv'
<1> SUFFICES ASSUME IInv, [Next]_vars PROVE IInv'
  OBVIOUS
<1>1. ASSUME NEW t \in Slots, TaskStep(t) PROVE IInv'
  BY <1>1, TaskInitStep, SchedulerOnStep, CreateLockStep, CreateAllocStep, CreateContextStep,
     CreateStateStep, CreateCountStep, CreateUnlockStep, LogLockStep, LogUnlockStep,
     ShellInitStep DEF TaskStep
<1>2. CASE UNCHANGED vars
  BY <1>2 DEF vars, IInv, TypeOK, RunningIsCurrent, StackOwnership, DispatchReady,
              LocksHaveOwners, IdsNeverReused, InterruptsAcknowledged, BootOrder,
              IdleLives, TaskPCs, StackIffUsed, BootStack, LoggingLocks
<1> QED BY <1>1, <1>2, TimerInterruptStep, KeyboardInterruptStep DEF Next

LEMMA IInvInvariant == Spec => []IInv
BY InitIInv, IInvStep, PTL DEF Spec

(***************************************************************************)
(* The theorems.                                                           *)
(***************************************************************************)

\* Every variable keeps its type: in particular last_task_id never passes
\* TASK_MAX without the machine having stopped.
THEOREM TypeCorrect == Spec => []TypeOK
BY IInvInvariant, PTL DEF IInv

\* The only RUNNING entry is the one current_task points to.
THEOREM OneRunningTask == Spec => []RunningIsCurrent
BY IInvInvariant, PTL DEF IInv

\* Stacks are never shared, never both free and in use, and never leaked.
THEOREM StacksOwned == Spec => []StackOwnership
BY IInvInvariant, PTL DEF IInv

\* Every entry the scheduler may pick has a context to resume.
THEOREM DispatchSafe == Spec => []DispatchReady
BY IInvInvariant, PTL DEF IInv

\* The search loop of task_schedule always has an entry to end at: the idle
\* task, which nothing kills.
THEOREM SearchTerminates == Spec => []SearchEnds
<1>1. IInv => SearchEnds
  BY DEF IInv, SearchEnds, BootOrder, IdleLives
<1> QED BY <1>1, IInvInvariant, PTL

\* A held lock always has exactly one holder that is still there to unlock.
THEOREM LocksOwned == Spec => []LocksHaveOwners
BY IInvInvariant, PTL DEF IInv

\* A task id names one task for ever.
THEOREM IdsUnique == Spec => []IdsNeverReused
BY IInvInvariant, PTL DEF IInv

\* No interrupt line stays in service while a task runs.
THEOREM TimerNeverMasked == Spec => []InterruptsAcknowledged
BY IInvInvariant, PTL DEF IInv

\* What one step may do to the life of task t.
LifeStep(t) ==
  /\ state[t] = "KILLED" => state'[t] \in {"KILLED", "EMPTY"}
  /\ state[t] = "EMPTY" /\ pc[t] # "unborn" /\ t # 0 => state'[t] = "EMPTY"
  /\ pc[t] # pc'[t] /\ pc[t] # "unborn" => state[t] # "EMPTY" \/ t = 0

LEMMA LifeStepOfTask ==
  ASSUME IInv, NEW u \in Slots, TaskStep(u), NEW t \in Slots PROVE LifeStep(t)
<1> USE ConstantFacts DEF IInv, LifeStep
<1>1. current_task # NoTask => current_task \in Slots /\ state[current_task] # "EMPTY"
  BY DEF RunningIsCurrent, TypeOK
<1>2. ASSUME NEW v \in Slots, NEW from, NEW to, Step(v, from, to), UNCHANGED state
      PROVE  LifeStep(t)
  BY <1>1, <1>2 DEF Step, OnCpu, TypeOK
<1>3. CASE TaskInit
  BY <1>3 DEF TaskInit, Step, OnCpu, BootOrder, IdleLives, TypeOK
<1>4. CASE CreateState
  BY <1>1, <1>4 DEF CreateState, OnCpu, BootOrder, Booting, TypeOK, IdsNeverReused
<1>5. CASE ~TaskInit /\ ~CreateState
  BY <1>2, <1>5 DEF TaskStep, SchedulerOn, CreateLock, CreateAlloc, CreateContext, CreateCount,
        CreateUnlock, LogLock, LogUnlock, ShellInit, table
<1> QED BY <1>3, <1>4, <1>5

LEMMA LifeStepOfInterrupt ==
  ASSUME IInv, TimerInterrupt \/ KeyboardInterrupt, NEW t \in Slots PROVE LifeStep(t)
<1> USE ConstantFacts DEF LifeStep
<1>1. ASSUME UNCHANGED <<state, pc>> PROVE LifeStep(t)
  BY <1>1
<1>2. ASSUME NEW kind, NEW s, Schedule(kind, s) PROVE LifeStep(t)
  <2>1. ASSUME NEW tail \in TailStates, NEW next \in Slots, IsNext(next, tail), SwitchTo(next, kind, s) PROVE LifeStep(t)
    <3>1. state[next] \in {"RUNNING", "WAITING"}
      BY <2>1, Purged DEF IsNext
    <3>2. pc' = pc /\ state'[t] = IF t = next THEN "RUNNING"
                                  ELSE IF t = current_task /\ PurgedState[t] = "RUNNING" THEN "WAITING"
                                  ELSE PurgedState[t]
      BY <2>1 DEF SwitchTo, SwitchedState
    <3>3. PurgedState[t] = IF state[t] = "KILLED" THEN "EMPTY" ELSE state[t]
      BY Purged
    <3> QED BY <3>1, <3>2, <3>3
  <2> QED BY <1>1, <1>2, <2>1 DEF Schedule, Halt, table
<1>3. CASE CommandCreate
  <2>1. CASE Halt("spin_task") \/ Halt("table_overrun") \/ Halt("null_stack")
    BY <1>1, <2>1 DEF Halt, table
  <2>2. CASE /\ Logged /\ ~LockTaken /\ ~TableFull
             /\ state' = [state EXCEPT ![last_task_id] = "WAITING"]
             /\ pc' = [pc EXCEPT ![last_task_id] = "log"]
    <3>1. last_task_id \in Slots /\ state[last_task_id] = "EMPTY" /\ pc[last_task_id] = "unborn"
      BY <2>2 DEF IInv, LockTaken, TableFull, IdsNeverReused, TypeOK, Slots
    <3> QED BY <2>2, <3>1 DEF IInv, TypeOK
  <2> QED BY <1>3, <2>1, <2>2 DEF CommandCreate
<1>4. CASE CommandKill
  BY <1>4 DEF CommandKill, Mark, IInv, TypeOK
<1> QED BY <1>1, <1>2, <1>3, <1>4 DEF TimerInterrupt, TimerTooEarly, TimerTick, table,
        KeyboardInterrupt, CommandSpins, CommandYield, Halt

\* A killed task never runs again and its entry never comes back to life.
THEOREM DeadStayDead == Spec => KilledStaysDead
<1>1. IInv /\ [Next]_vars => [\A t \in Slots : LifeStep(t)]_vars
  BY LifeStepOfTask, LifeStepOfInterrupt DEF Next
<1> QED BY <1>1, IInvInvariant, PTL DEF Spec, KilledStaysDead, LifeStep

(***************************************************************************)
(* Refinement.  Under the mapping of Scheduler a step of the kernel either *)
(* leaves the life cycle alone or is one of its actions.                   *)
(***************************************************************************)
LEMMA LifeInit == Init => Life!Init
<1> SUFFICES ASSUME Init PROVE Life!Init
  OBVIOUS
<1>1. \A t \in Slots : Phase(t) = "absent" /\ Owned(t) = NoStack
  BY DEF Init, Phase, Owned
<1>2. ~(cpu # "running")
  BY DEF Init
<1> QED BY <1>1, <1>2 DEF Life!Init

LEMMA LifeStutter ==
  ASSUME UNCHANGED <<state, cpu>>,
         \A t \in Slots : state[t] # "EMPTY" => stack_frame'[t] = stack_frame[t],
         \A t \in Slots \ {0} : pc[t] = "unborn" <=> pc'[t] = "unborn"
  PROVE  UNCHANGED Life!vars
<1>1. \A t \in Slots : Phase(t)' = Phase(t)
  BY DEF Phase
<1>2. \A t \in Slots : Owned(t)' = Owned(t)
  BY DEF Owned
<1> QED BY <1>1, <1>2 DEF Life!vars

LEMMA LifeCrash == ASSUME NEW f \in Faults, Running, Halt(f) PROVE Life!Next
<1>1. \A t \in Slots : Phase(t)' = Phase(t) /\ Owned(t)' = Owned(t)
  BY DEF Halt, Phase, Owned, table
<1>2. cpu = "running" /\ cpu' # "running"
  BY DEF Halt, Faults, Running
<1> QED BY <1>1, <1>2 DEF Life!Next, Life!Crash

LEMMA LifeTask ==
  ASSUME IInv, NEW u \in Slots, TaskStep(u)
  PROVE  Life!Next \/ UNCHANGED Life!vars
<1> USE ConstantFacts
<1>1. Running
  BY DEF TaskStep, TaskInit, SchedulerOn, CreateLock, CreateAlloc, CreateContext, CreateState,
         CreateCount, CreateUnlock, LogLock, LogUnlock, ShellInit, Step
<1>2. CASE TaskInit
  <2>1. state[0] = "EMPTY" /\ state' = [state EXCEPT ![0] = "RUNNING"]
    BY <1>2 DEF TaskInit, Step, IInv, BootOrder, IdleLives
  <2>2. UNCHANGED <<stack_frame, cpu>> /\ \A t \in Slots \ {0} : pc'[t] = pc[t]
    BY <1>2 DEF TaskInit, Step, IInv, TypeOK
  <2>3. \A t \in Slots : Phase(t)' = IF t = 0 THEN "running" ELSE Phase(t)
    BY <2>1, <2>2 DEF Phase, IInv, TypeOK
  <2>4. \A t \in Slots : Owned(t)' = Owned(t)
    BY <2>1, <2>2 DEF Owned, IInv, TypeOK, BootStack
  <2>5. Phase(0) = "absent"
    BY <2>1 DEF Phase
  <2>6. Life!Boot
    BY <2>2, <2>3, <2>4, <2>5 DEF Life!Boot
  <2> QED BY <1>1, <2>6 DEF Life!Next, Running
<1>3. CASE CreateState
  <2> DEFINE n == last_task_id
             s == stack_frame[n]
  <2>1. n = 1 /\ pc[0] = "create_state" /\ pc[n] = "unborn" /\ state[n] = "EMPTY" /\ s \in StackCells
    BY <1>3 DEF CreateState, IInv, BootOrder, Booting, IdsNeverReused, TypeOK
  <2>2. /\ state' = [state EXCEPT ![n] = "WAITING"] /\ UNCHANGED <<stack_frame, cpu>>
        /\ \A t \in Slots \ {0, n} : pc'[t] = pc[t]
    BY <1>3 DEF CreateState, IInv, TypeOK
  <2>3. \A t \in Slots : Phase(t)' = IF t = n THEN "ready" ELSE Phase(t)
    BY <2>1, <2>2 DEF Phase, IInv, TypeOK
  <2>4. \A t \in Slots : Owned(t)' = IF t = n THEN s ELSE Owned(t)
    BY <2>1, <2>2 DEF Owned, IInv, TypeOK
  <2>5. \A t \in Slots : Owned(t) # s
    BY <2>1 DEF Owned, IInv, StackOwnership, TypeOK
  <2>6. Phase(n) = "absent"
    BY <2>1 DEF Phase
  <2> HIDE DEF n, s
  <2>7. Life!Admit(n, s)
    BY <2>1, <2>2, <2>3, <2>4, <2>5, <2>6 DEF Life!Admit
  <2> QED BY <1>1, <2>1, <2>7 DEF Life!Next, Running
<1>4. CASE ~TaskInit /\ ~CreateState
  <2>1. ASSUME NEW v \in Slots, NEW from \in PCs \ {"unborn"}, NEW to \in PCs \ {"unborn"},
               Step(v, from, to)
        PROVE  cpu' = cpu /\ \A t \in Slots \ {0} : pc[t] = "unborn" <=> pc'[t] = "unborn"
    BY <2>1 DEF Step, IInv, TypeOK
  <2>2. cpu' = cpu /\ \A t \in Slots \ {0} : pc[t] = "unborn" <=> pc'[t] = "unborn"
    BY <1>4, <2>1 DEF TaskStep, SchedulerOn, CreateLock, CreateAlloc, CreateContext, CreateCount,
          CreateUnlock, LogLock, LogUnlock, ShellInit, PCs
  <2>3. state' = state /\ \A t \in Slots : state[t] # "EMPTY" => stack_frame'[t] = stack_frame[t]
    <3>1. CASE CreateAlloc
      BY <3>1 DEF CreateAlloc, TakeStack, Step, IInv, IdsNeverReused, BootOrder, Booting, TypeOK
    <3>2. CASE ~CreateAlloc
      BY <1>4, <3>2 DEF TaskStep, SchedulerOn, CreateLock, CreateContext, CreateCount,
            CreateUnlock, LogLock, LogUnlock, ShellInit, table
    <3> QED BY <3>1, <3>2
  <2> QED BY <2>2, <2>3, LifeStutter
<1> QED BY <1>2, <1>3, <1>4

LEMMA LifeSwitch ==
  ASSUME IInv, Running, NEW next \in Slots, NEW tail \in TailStates, Runnable(next, tail), NEW kind, NEW s,
         scheduler_ready, SwitchTo(next, kind, s)
  PROVE  Life!Next
<1> USE ConstantFacts
<1>1. /\ state[next] \in {"RUNNING", "WAITING"}
      /\ current_task \in Slots
      /\ \A t \in Slots : state[t] = "RUNNING" => t = current_task
      /\ \A t \in Slots \ {0} : state[t] # "EMPTY" => pc[t] # "unborn"
      /\ state[0] # "KILLED"
  BY Purged DEF IInv, RunningIsCurrent, BootOrder, TypeOK, IdleLives, TaskPCs
<1>2. UNCHANGED <<pc, cpu>>
  BY DEF SwitchTo
<1>3. \A t \in Slots : state'[t] = IF t = next THEN "RUNNING"
                                   ELSE IF state[t] = "KILLED" THEN "EMPTY"
                                   ELSE IF t = current_task /\ state[t] = "RUNNING" THEN "WAITING"
                                   ELSE state[t]
  BY Purged DEF SwitchTo, SwitchedState
<1>4. \A t \in Slots : stack_frame'[t] = IF state[t] = "KILLED" THEN NoStack ELSE stack_frame[t]
  BY Purged DEF SwitchTo
<1>5. \A t \in Slots : Phase(t)' = CASE t = next -> "running"
                                     [] t # next /\ Phase(t) = "running" -> "ready"
                                     [] Phase(t) = "dying" -> "gone"
                                     [] OTHER -> Phase(t)
  BY <1>1, <1>2, <1>3 DEF Phase, IInv, TypeOK, States
<1>6. \A t \in Slots : Owned(t)' = IF Phase(t) = "dying" THEN NoStack ELSE Owned(t)
  BY <1>1, <1>3, <1>4 DEF Owned, Phase, IInv, TypeOK, States
<1>7. Phase(next) \in {"ready", "running"}
  BY <1>1 DEF Phase
<1>8. Life!Switch(next)
  BY <1>2, <1>5, <1>6, <1>7 DEF Life!Switch
<1> QED BY <1>8 DEF Life!Next, Running

LEMMA LifeSchedule ==
  ASSUME IInv, Running, scheduler_ready, NEW kind, NEW s, Schedule(kind, s)
  PROVE  Life!Next
BY LifeCrash, LifeSwitch DEF Schedule, Faults, IsNext

LEMMA LifeCreate == ASSUME IInv, CommandCreate PROVE Life!Next
<1> USE ConstantFacts
<1>0. Running
  BY DEF CommandCreate, Logged, Command, Raised
<1>1. CASE Halt("spin_task") \/ Halt("table_overrun") \/ Halt("null_stack")
  BY <1>0, <1>1, LifeCrash DEF Faults
<1>2. ASSUME ~LockTaken, ~TableFull, TakeStack,
             state' = [state EXCEPT ![last_task_id] = "WAITING"],
             pc' = [pc EXCEPT ![last_task_id] = "log"], cpu' = cpu
      PROVE  Life!Next
  <2> DEFINE n == last_task_id
  <2>1. n \in Slots \ {0} /\ state[n] = "EMPTY" /\ pc[n] = "unborn"
    BY <1>2 DEF LockTaken, TableFull, IInv, TypeOK, Slots, IdsNeverReused
  <2>2. PICK s \in heap_free : stack_frame' = [stack_frame EXCEPT ![n] = s]
    BY <1>2 DEF TakeStack
  <2>3. \A t \in Slots : Phase(t)' = IF t = n THEN "ready" ELSE Phase(t)
    BY <1>2, <2>1 DEF Phase, IInv, TypeOK
  <2>4. \A t \in Slots : Owned(t)' = IF t = n THEN s ELSE Owned(t)
    BY <1>2, <2>1, <2>2 DEF Owned, IInv, TypeOK
  <2>5. s \in StackCells /\ \A t \in Slots : Owned(t) # s
    BY <2>2 DEF Owned, IInv, StackOwnership, TypeOK
  <2>6. Phase(n) = "absent"
    BY <2>1 DEF Phase
  <2> HIDE DEF n
  <2>7. Life!Admit(n, s)
    BY <1>2, <2>1, <2>3, <2>4, <2>5, <2>6 DEF Life!Admit
  <2> QED BY <1>0, <2>1, <2>5, <2>7 DEF Life!Next, Running
<1> QED BY <1>1, <1>2 DEF CommandCreate

LEMMA LifeKill == ASSUME IInv, CommandKill PROVE Life!Next
<1> USE ConstantFacts
<1>1. PICK id \in KillIds \ {0} : Mark(id)
  BY DEF CommandKill
<1>2. /\ id \in Slots \ {0} /\ state[id] \in {"RUNNING", "WAITING", "PAUSED"}
      /\ state' = [state EXCEPT ![id] = "KILLED"]
      /\ UNCHANGED <<stack_frame, pc, cpu>>
  BY <1>1, SchedulerAssumption DEF Mark
<1>3. \A t \in Slots : Phase(t)' = IF t = id THEN "dying" ELSE Phase(t)
  BY <1>2 DEF Phase, IInv, TypeOK
<1>4. \A t \in Slots : Owned(t)' = Owned(t)
  BY <1>2 DEF Owned, IInv, TypeOK
<1>5. Phase(id) \in {"ready", "running"}
  BY <1>2 DEF Phase
<1>6. Life!Kill(id)
  BY <1>2, <1>3, <1>4, <1>5 DEF Life!Kill
<1> QED BY <1>2, <1>6 DEF Life!Next, CommandKill, Logged, Command, Raised, Running

LEMMA LifeNext == IInv /\ [Next]_vars => [Life!Next]_(Life!vars)
<1> SUFFICES ASSUME IInv, [Next]_vars PROVE Life!Next \/ UNCHANGED Life!vars
  OBVIOUS
<1>1. CASE TimerInterrupt
  <2>1. CASE TimerTooEarly
    BY <2>1, LifeStutter DEF TimerTooEarly, table
  <2>2. CASE TimerTick
    BY <2>2, LifeSchedule DEF TimerTick, Raised
  <2> QED BY <1>1, <2>1, <2>2 DEF TimerInterrupt
<1>2. CASE KeyboardInterrupt
  <2>1. CASE CommandSpins
    BY <2>1, LifeCrash DEF CommandSpins, Command, Raised, Faults
  <2>2. CASE CommandYield
    <3>1. Running /\ scheduler_ready
      BY <2>2 DEF CommandYield, Command, Raised, IInv, BootOrder, Booting
    <3> QED BY <2>2, <3>1, LifeSchedule DEF CommandYield
  <2> QED BY <1>2, <2>1, <2>2, LifeCreate, LifeKill DEF KeyboardInterrupt
<1>3. CASE UNCHANGED vars
  BY <1>3, LifeStutter DEF vars
<1> QED BY <1>1, <1>2, <1>3, LifeTask DEF Next

\* The kernel implements the life cycle of Lifecycle.
THEOREM ImplementsLifecycle == Spec => LifecycleRefined
BY LifeInit, LifeNext, IInvInvariant, PTL DEF Spec, LifecycleRefined, Life!Spec

=============================================================================
