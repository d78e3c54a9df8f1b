SPECIFICATION MemSpec
CONSTANTS
  t1 = t1
  t2 = t2
  Task = {t1, t2}
  Preemptible = {}
  Reserved = 1
  KernelPages = 4
  MaxPages = 6
  Records = 4
  Nums = {1, 2}
PROPERTY
  PagesBecomeFree
