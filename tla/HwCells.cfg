CONSTANTS
  Depth = 3
  Item = {a, b}
  Addr = {2, 3}
  WriteData = {0, 1}
  ReadData = {0, 1}
  Junk = {0, 1}
SPECIFICATION CellsSpec
INVARIANT OneForOne
PROPERTIES ImplementsQueue WriteAnswered
CHECK_DEADLOCK FALSE
