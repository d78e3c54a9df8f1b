SPECIFICATION FairSpec
CONSTANTS
  TaskBound = 4
  SUPERVISOR_QUANTUM = 2
  USER_QUANTUM = 1
  UINT_MAX = 7
  N_CONSOLES = 2
INVARIANTS
  TypeOK
  RunningHasProcessor
  RoundRobinEnds
  QuantumOfCurrentIsFresh
PROPERTIES
  KilledStaysKilled
  ReadyTaskRuns
CHECK_DEADLOCK FALSE
