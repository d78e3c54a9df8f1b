SPECIFICATION TimerSpec
CONSTANTS
  ULONG_MAX = 5
  MS_PIT = 10
  Ms = {9, 10, 30}
  TimerBound = 3
INVARIANTS
  ListSound
  DelayIsTimeLeft
PROPERTIES
  FiresWhenDue
  LostOnlyToLater
