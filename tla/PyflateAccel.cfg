SPECIFICATION AccelSpec
CONSTANTS
  MaxCodeLen = 3
  PrimaryWidth = 2
  GroupSize = 2
  Word = 4
  Jobs <- MCJobs
  NList = 2
  W = 2
  Depth = 2
  RunMax = 3
  Tasks <- MCTasks
INVARIANTS EngineAgrees AbortIsPrompt SkidHolds ChainDelivers
PROPERTY BlocksEnd
CHECK_DEADLOCK FALSE
