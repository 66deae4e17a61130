SPECIFICATION Spec
CONSTANTS
  main = main
  idle = idle
  a = a
  b = b
  boot = boot
  s1 = s1
  NULL = NULL
  Thread <- MCThread
  Main = main
  Idle = idle
  Sema = {boot, s1}
  IdleStarted = boot
  TIME_SLICE = 4
  SleepTicks = {0, 2}
  MaxTicks = 3
  MaxValue = 2
SYMMETRY Symmetry
INVARIANTS
  TypeOK
  QueuesMatchStatus
  NoDanglingThread
  NoLostWakeup
PROPERTY
  WakeOnTime
  ImplementsSemaphores
