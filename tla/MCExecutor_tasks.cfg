SPECIFICATION FairSpec
CONSTANTS
  Callers = {c1, c2}
  Sources = {s1}
  MaxTasks = 3
  MaxQueue = 2
  Trivial = {1}
  Finite = {2}
INVARIANTS TaskAvailable UniqueIds NoLostWakeup
PROPERTIES AddedTaskIsPolled EventIsSeen
CHECK_DEADLOCK FALSE
