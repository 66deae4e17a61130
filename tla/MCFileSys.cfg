SPECIFICATION Spec
CONSTANTS
  SectorCount = 9
  SectorSize = 2
  BitsPerCell = 4
  EntryCount = 2
  ValidName = {a, b}
  BadName = {long}
  Length = {0, 3}
  Data <- MCData
  Handle = {h1, h2}
  Position = {1}
  Failing = {"disk_inode", "inode", "dir", "file", "map", "data", "dir_write"}
  MaxFail = 7
  MaxBoots = 2
  MaxCalls = 5
SYMMETRY Symmetry
CHECK_DEADLOCK FALSE
INVARIANTS
  DiskConsistent
  OpenFilesKept
  
PROPERTIES
  ImplementsFileStore
  LeaksOnlyFromFailedCreate
