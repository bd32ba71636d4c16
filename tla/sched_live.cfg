CONSTANTS
  TASK_MAX = 4
  TailStates <- AnyTail
  s1 = s1  s2 = s2  s3 = s3
  StackCells <- OneStackTooFew
  NoStack = NoStack
  NoTask <- NullTask
  KillIds <- TestKill
  MemZeroOnFree = FALSE
SPECIFICATION Spec
CHECK_DEADLOCK FALSE
PROPERTIES WaitingTasksRun KilledTasksArePurged TasksReachTheirLoop KilledStaysDead LifecycleRefined
