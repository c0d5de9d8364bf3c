SPECIFICATION Spec
CONSTANTS
  Pkgs = {"p0", "p1", "p2"}
  Old = "p0"
  Boxes <- AllBoxes
  Persistent = FALSE
  Flaky = TRUE
  Garbled = TRUE
  EmptyShow = FALSE
  RollsBack = TRUE
  MaxRuns = 5
  MaxPolls = 2
INVARIANT ReloadsIntoPackage
INVARIANT ActivatedForGood
INVARIANT RunningFilesKept
PROPERTY BootLostOnlyByExpand
PROPERTY JobsEnd
