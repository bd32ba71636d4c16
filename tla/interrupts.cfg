SPECIFICATION Spec
CONSTANTS
  Idle = idle
  Tasks = {t1}
  Devices <- DevicesSmall
  Exceptions <- ExceptionsSmall
  TaskState <- TaskStateSmall
INVARIANTS
  TypeOK
  NothingInService
  ContextsIntact
PROPERTIES
  VectorsRight
  TimerServed
