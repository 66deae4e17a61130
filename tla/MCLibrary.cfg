SPECIFICATION Spec
CONSTANTS
  Elem <- ThreeElems
  List <- TwoLists
  KeyMaps <- Keys
  HashKey = {1, 2, 3, 4, 5}
  Copy = {1, 2}
  HashOf <- Hashes
  MinBuckets = 2
  BestPerBucket = 1
  Printer = {p1, p2}
  NoPrinter = NoPrinter
  MaxNest = 2
  MaxPrinted = 2
  MaxCallsEach = 3
  BufferSize = 1
CHECK_DEADLOCK FALSE
INVARIANTS
  ListsAreSequences
  HashIsMap
  NoMixedOutput
  
  
  DiskFormatsRead
PROPERTIES
  PrintsFinish
  
