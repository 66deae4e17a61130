SPECIFICATION Spec
CONSTANTS
  Main = Main
  Idle = Idle
  KernelPages = {1, 2, 3, 4, 5, 6}
  UserPages = {0, 1, 2, 4}
  Executable <- MCExecutable
  PdNo <- MCPdNo
  StackPage = 3
  MaxTasks = 2
CHECK_DEADLOCK FALSE
INVARIANTS
  ActiveSpaceValid
  PagesAccounted
  PanicsOnlyUnused

  
