SPECIFICATION SwitchSpec
CONSTANTS
  TaskBound = 4
  Reader <- MCShell
  N_CONSOLES = 3
  BUF_SIZE = 1
  Scancodes = {30, 56, 2, 3, 11}
  Undefined = {0}
  NpadBound = 0
INVARIANTS
  OneShellAwake
  SpinsOnlyAfterEarlySwitch
  DeafOnlyBehindAnother
PROPERTIES
  RevivedOnlyBySwitch
CHECK_DEADLOCK FALSE
