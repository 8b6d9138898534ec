SPECIFICATION ControlSpec
CONSTANTS
  Addr <- MCBodyAddrs
  WriteData <- MCWrites
  ReadData <- MCReadData
  Junk <- MCZero
  Requests <- MCRequests
  Reads <- MCReads
  Faults <- MCNone
  Live <- MCZero
INVARIANTS StatusShowsBlock RunsOnChecked AbortHitsOwn
PROPERTIES FlagsKept
CHECK_DEADLOCK FALSE
