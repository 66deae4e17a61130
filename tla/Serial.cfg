SPECIFICATION SerialSpec
CONSTANTS
  NoChar = NoChar
  Char = {x, y}
  Capacity = 2
  MaxWritten = 5
  MaxReceived = 3
CHECK_DEADLOCK FALSE
INVARIANTS
  OutputInOrder
PROPERTIES
  OutputDrains
  InputRead
