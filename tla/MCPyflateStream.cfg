SPECIFICATION StreamSpec
CONSTANTS
  MaxBytes = 12
  Fields = {1, 5, 16, 24, 32, 48}
  Codes = {1, 7, 12, 20}
  GroupCounts = {1, 2, 3}
  SelectorCounts = {0, 3}
  UsedCounts = {0, 1}
  StartLengths = {0, 20}
  MaxDeltas = 1
  MaxVaried = 1
  MaxBlocks = 2
  Bytes2 = {0, 1}
  LengthSymbols = {257, 266, 286}
  DistanceSymbols = {0, 4}
  Extras = {0, 1}
  Headers <- MCHeaders
  MaxGzipBlocks = 2
  MaxGzipSymbols = 3
INVARIANTS
  SameBits
  SelectorsByRecency
  NativeAcceptsLess
  ReplayIsOutput
CHECK_DEADLOCK FALSE
