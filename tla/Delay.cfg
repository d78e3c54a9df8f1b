SPECIFICATION DelayFairSpec
CONSTANTS
  TaskBound = 4
  SUPERVISOR_QUANTUM = 1
  USER_QUANTUM = 1
  UINT_MAX = 7
  N_CONSOLES = 1
  Shells = {3}
  Victims = {2}
  ULONG_MAX = 3
  MS_PIT = 10
  Ms = {10, 20}
  TimerBound = 2
INVARIANTS
  NeverEarly
PROPERTY
  SleepEndsUnlessLost
