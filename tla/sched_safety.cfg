CONSTANTS
  TASK_MAX = 4
  TailStates <- AnyTail
  s1 = s1  s2 = s2  s3 = s3
  StackCells <- OneStackPerTask
  NoStack = NoStack
  NoTask <- NullTask
  KillIds <- TestKill
  MemZeroOnFree = TRUE
SPECIFICATION Spec
CHECK_DEADLOCK FALSE
SYMMETRY StackSymmetry
INVARIANTS TypeOK RunningIsCurrent StackOwnership DispatchReady SearchEnds LocksHaveOwners InterruptsAcknowledged
