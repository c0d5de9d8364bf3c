SPECIFICATION Spec
CONSTANTS
  Locs = {"a", "b"}
  Fpds <- TwoSubtypes
  Scenarios <- AllScenarios
  BootStates = {"current", "need"}
  Flaky = TRUE
  Quiet = FALSE
  Settled = TRUE
  MaxRuns = 4
  MaxTurns = 5
INVARIANT MInv
INVARIANT Provisioned
INVARIANT FpdsUpgraded
INVARIANT ReloadsPrepared
INVARIANT UpgradeFinished
INVARIANT LeavesAtExec
PROPERTY RunsEnd
