SPECIFICATION ToolsSpec
CONSTANTS
  Folded <- MCFolded
  Options <- MCOptions
  StartupFrames = {"import"}
  Users = {u1, u2}
  Stages <- MCStages
  MaxCommands = 2
  MaxSyncs = 3
  MaxFaults = 1
  Runs = {"first", "second"}
  Benches <- MCBenches
  MaxFailures = 1
SYMMETRY MCSymmetry
INVARIANTS
  WidthsKept
  MirrorsSettle
  CompleteIsChecked
CHECK_DEADLOCK FALSE
