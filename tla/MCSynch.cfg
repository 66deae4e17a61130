SPECIFICATION Spec
CONSTANTS
  a = a
  b = b
  c = c
  l = l
  tl = tl
  v = v
  NULL = NULL
  Thread <- MCThread
  Sema <- MCSema
  InitialValue = {0}
  Lock = {l, tl}
  Cond = {v}
  LockOf <- MCLockOf
  TidLock = tl
  MaxTid = 2
CHECK_DEADLOCK FALSE
INVARIANTS
  MutualExclusion
  NoLostSignal
PROPERTIES
  LockProgress
