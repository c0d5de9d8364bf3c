SPECIFICATION Spec
CONSTANTS
  Locs = {"a", "b"}
  Fpds <- TwoSubtypes
  Scenarios <- Transfers
  BootStates = {"current", "need", "rload"}
  Flaky = FALSE
  Quiet = FALSE
  Settled = FALSE
  MaxRuns = 3
  MaxTurns = 5
INVARIANT UpgradeFinished
