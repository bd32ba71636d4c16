------------------------------ MODULE Lifecycle ------------------------------
(***************************************************************************)
(* What multitasking promises a user of task_create and task_kill, without *)
(* tables, locks or interrupts.  A task is admitted once, with a stack of  *)
(* its own; admitted tasks share one CPU; a task that was told to die is   *)
(* gone for good by the next switch, and its stack can then serve another. *)
(***************************************************************************)
CONSTANTS
  Tasks,     \* everything that may ever become a task
  Idle,      \* the task that runs from the start, on the boot stack
  Stacks,
  Nothing    \* no stack

VARIABLES
  phase,     \* phase[t]: how far t is through its life
  owns,      \* owns[t]: the stack t runs on
  stopped    \* the machine has crashed

vars == <<phase, owns, stopped>>

Phases == {"absent", "ready", "running", "dying", "gone"}

Init ==
  /\ phase = [t \in Tasks |-> "absent"]
  /\ owns = [t \in Tasks |-> Nothing]
  /\ stopped = FALSE

Boot ==
  /\ phase[Idle] = "absent"
  /\ phase' = [phase EXCEPT ![Idle] = "running"]
  /\ UNCHANGED <<owns, stopped>>

Admit(t, s) ==
  /\ phase[t] = "absent" /\ t # Idle
  /\ \A u \in Tasks : owns[u] # s
  /\ phase' = [phase EXCEPT ![t] = "ready"]
  /\ owns' = [owns EXCEPT ![t] = s]
  /\ UNCHANGED stopped

Kill(t) ==
  /\ phase[t] \in {"ready", "running"} /\ t # Idle
  /\ phase' = [phase EXCEPT ![t] = "dying"]
  /\ UNCHANGED <<owns, stopped>>

\* The CPU goes to t; whoever had it is ready again, the dying are gone.
Switch(t) ==
  /\ phase[t] \in {"ready", "running"}
  /\ phase' = [u \in Tasks |-> CASE u = t -> "running"
                                 [] u # t /\ phase[u] = "running" -> "ready"
                                 [] phase[u] = "dying" -> "gone"
                                 [] OTHER -> phase[u]]
  /\ owns' = [u \in Tasks |-> IF phase[u] = "dying" THEN Nothing ELSE owns[u]]
  /\ UNCHANGED stopped

Crash ==
  /\ stopped' = TRUE
  /\ UNCHANGED <<phase, owns>>

Next ==
  /\ ~stopped
  /\ \/ Boot
     \/ \E t \in Tasks, s \in Stacks : Admit(t, s)
     \/ \E t \in Tasks : Kill(t) \/ Switch(t)
     \/ Crash

Spec == Init /\ [][Next]_vars

=============================================================================
