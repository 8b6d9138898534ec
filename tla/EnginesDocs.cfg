CONSTANTS
  CallJobs <- MCCallJobs
  CallerRecovers = FALSE
SPECIFICATION EnginesSpec
PROPERTY StartIsFresh
