SPECIFICATION PredictorSpec
CONSTANTS
  MaxCodeLen = 3
  PrimaryWidth = 2
  Values = {0, 1, 2}
  GroupSize = 2
  FirstLengths <- MCFirst
  SecondLengths <- MCSecond
  SelectorLists <- MCSelectors
  MaxSymbols = 3
  Sources <- MCSources
  Blocks <- MCBlocks
  Streams <- MCStreams
  Starts = {0, 3}
  Limits = {1, 3, 9}
  Runs <- MCRuns
INVARIANTS
  BackendsAgree
  TailInverts
  PredictorAgrees
  RefillIsHidden
CHECK_DEADLOCK FALSE
