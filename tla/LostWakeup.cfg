SPECIFICATION SemSpec
CONSTANTS
  TaskBound = 4
  SUPERVISOR_QUANTUM = 1
  USER_QUANTUM = 1
  UINT_MAX = 7
  N_CONSOLES = 1
  Units = 1
  SameWord <- Distinct
  Shells = {3}
  Victims = {}
INVARIANT
  NoSleepBesideFreeUnit
