CONSTANTS
  CallJobs <- MCCallJobs
  CallerRecovers = TRUE
SPECIFICATION EnginesSpec
INVARIANTS
  ScoreboardSilent
  MirrorsInStep
  ReturnsOwnRun
