SPECIFICATION KbdFairSpec
CONSTANTS
  Reader = {r1}
  N_CONSOLES = 2
  BUF_SIZE = 2
  Scancodes <- MCScancodes
  Undefined = {0}
  NpadBound = 10
INVARIANTS
  ReadsTypedKey
PROPERTIES
  KeyEndsGetche
