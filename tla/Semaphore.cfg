SPECIFICATION SemFairSpec
CONSTANTS
  TaskBound = 5
  SUPERVISOR_QUANTUM = 1
  USER_QUANTUM = 1
  UINT_MAX = 7
  N_CONSOLES = 1
  Units = 1
  SameWord <- Distinct
  Shells = {4}
  Victims = {3}
INVARIANTS
  MutualExclusion
  UnitsAccounted
PROPERTIES
  WakesInOrder
  ImplementsPromise
  UpReturns
