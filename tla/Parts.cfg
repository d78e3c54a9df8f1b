SPECIFICATION PartsSpec
CONSTANTS
  SIZE = 5
  Letters = {65, 97, 225}
  Years = {100, 101, 103}
  Clock = {0, 45296, 86200}
  LastDay = 12450
  Instant <- MCInstant
  Numbers <- MCNumbers
  DrawBound = 1
  Tm <- MCTm
  Lengths = {1, 12, 20, 26}
  Strays = {0, 16}
  DirectiveBound = 3
  X_BUFF = 3
  Y_BUFF = 4
  WordChars = {"a", "b"}
  LineBound = 6
  N_CONSOLES = 3
  TEMP_SIZE = 5
  PutsLen = {0, 1, 2, 7}
  OutBound = 12
  Task = {t1, t2}
  NUMSECT = 1
  Blocks = {0, 1}
  Data = {1, 2}
INVARIANTS
  StringsAgree
  DateKept
  TextEnds
  RightUnlessDisturbed
  BufferKept
  ArgumentsAsTyped
  FlushFaithful
  AloneUnlessRaced
CHECK_DEADLOCK FALSE
