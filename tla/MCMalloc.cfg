SPECIFICATION Spec
CONSTANTS
  Thread = {t1, t2}
  PageCnt = 2
  PGSIZE = 20
  ArenaSize = 9
  MinBlock = 3
  SizeMax = 255
  Sizes <- MCSizes
  Products <- MCProducts
  NULL = NULL
INVARIANTS
  BlocksDisjoint
  MemoryAccounted
