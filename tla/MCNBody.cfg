SPECIFICATION TargetsSpec
CONSTANTS
    DefaultBodies = 2
    UnrollLimits = {0, 3}
    BodyCounts = {1, 2, 3, 4}
    Seeds = {0, 9}
    Iterations = {1, 2}
    MaxCalls = 3
    Bodies = 5
    Horizon = 130
    Lat <- MCLat
    Jobs <- MCJobs
INVARIANTS SameTrajectory AdvanceIsComplete TiersKeepContract CommittedIsExact
PROPERTY InvocationEnds
CHECK_DEADLOCK FALSE
