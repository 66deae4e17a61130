SPECIFICATION Spec
CONSTANTS
  SectorCount = 9
  SectorSize = 2
  BitsPerCell = 4
  EntryCount = 2
  ValidName = {a, b}
  BadName = {long}
  Length = {0, 3}
  Data <- MCData
  Handle = {h1, h2}
  Position = {1}
  Failing = {"dir_read"}
  MaxFail = 4
  MaxBoots = 1
  MaxCalls = 3
CHECK_DEADLOCK FALSE
PROPERTY
  AddTakesFreeSlot
