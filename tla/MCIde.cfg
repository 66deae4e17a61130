SPECIFICATION IdeSpec
CONSTANTS
  Caller = {main, a}
  Main = main
  Disk = {0, 1}
  Sector = {s1}
  Data = {x, y}
  None = None
  Faults <- SomeFaults
CHECK_DEADLOCK FALSE

  
PROPERTIES
  
  RequestFinishes
