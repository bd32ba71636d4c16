SPECIFICATION Spec
CONSTANTS
  FifoSize = 2
  NoTask = NoTask
  Tasks = {t1, t2}
  Main = t1
  Tag <- OneTag
  Messages <- Logged
  MaxCalls = 3
INVARIANTS
  TypeOK
  LinesArriveWhole
PROPERTIES
  PrintkReturns
CHECK_DEADLOCK FALSE
