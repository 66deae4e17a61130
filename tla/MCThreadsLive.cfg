SPECIFICATION Spec
CONSTANTS
  main = main
  idle = idle
  a = a
  b = b
  boot = boot
  s1 = s1
  NULL = NULL
  Thread <- MCThreadSmall
  Main = main
  Idle = idle
  Sema = {boot, s1}
  IdleStarted = boot
  TIME_SLICE = 3
  SleepTicks = {0, 2}
  MaxTicks = 2
  MaxValue = 2
PROPERTIES
  ReadyRuns
  SleeperReturns
