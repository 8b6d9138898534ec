CONSTANTS
  NList = 3
  W = 2
  Depth = 3
  RunMax = 3
  Beats <- MCBeats
  SymbolLimits = {5}
  BytesLimits = {5}
SPECIFICATION HSpec
INVARIANTS TypeOK BytesBudget LastBeatIsLast DeliveredIsPrefix ScoreboardPasses
PROPERTIES StallsEnd ImplementsBlock
CHECK_DEADLOCK FALSE
