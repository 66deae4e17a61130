SPECIFICATION Spec
CONSTANTS
  a = a
  b = b
  c = c
  Thread <- MCThread
  PageCnt = 4
  MaxCnt = 2
  NULL = NULL
INVARIANTS
  NoPageTwice
  FailsOnlyWhenFull
