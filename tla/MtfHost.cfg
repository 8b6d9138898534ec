SPECIFICATION HostSpec
CONSTANTS
  Addr <- MCAddr
  WriteData <- MCWriteData
  ReadData <- MCReadData
  Junk <- MCZero
  Requests <- MCNone
  Reads <- MCNone
  Faults <- MCFaults
  Live <- MCZero
  ConfigOrder <- MCOrder
  Wanted <- MCWanted
  MaxPolls = 2
  AbortsOnTimeout = TRUE
INVARIANTS ReturnsOwnResult
PROPERTY CallEnds
CHECK_DEADLOCK FALSE
