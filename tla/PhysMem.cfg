SPECIFICATION MemSpec
CONSTANTS
  t1 = t1
  t2 = t2
  Task = {t1, t2}
  Preemptible = {t1, t2}
  Reserved = 1
  KernelPages = 3
  MaxPages = 6
  Records = 3
  Nums = {1, 2}
SYMMETRY Tasks
INVARIANTS
  BlocksDisjoint
  RecordsAreBlocks
  AreasApart
CHECK_DEADLOCK FALSE
