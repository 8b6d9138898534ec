SPECIFICATION ControlSpec
CONSTANTS
  Addr <- MCBodyAddrs
  WriteData <- MCWrites
  ReadData <- MCReadData
  Junk <- MCZero
  Requests <- MCRequests
  Reads <- MCReads
  Faults <- MCNone
  Live <- MCZero
INVARIANT EndIsVisible
CHECK_DEADLOCK FALSE
