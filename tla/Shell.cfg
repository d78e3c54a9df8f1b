SPECIFICATION ShellSpec
CONSTANTS
  SCR_C = 3
  SCR_R = 5
  HEADER = 2
  CLOCK = 1
  DIM_TAB = 2
  WORD = 64
  Letter = {"a"}
  PROMPT <- MCPrompt
  HISTORY = 2
  Welcome <- MCWelcome
  Message <- MCMessage
  MaxLen = 2
  LineBound = 3
  BootBound = 2
CHECK_DEADLOCK FALSE
INVARIANTS
  
  BlockAfterPrompt

  
