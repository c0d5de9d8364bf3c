SPECIFICATION Spec
CONSTANTS
  Jobs <- AllJobs
  Faults = {"conn", "timeout"}
  Ends = {"success", "failure", "failed", "incr"}
  Foreign = TRUE
  FailedShowsMethod = FALSE
  LateMessages = TRUE
  PromptReload = TRUE
  MaxOps = 3
  MaxPolls = 3
  MaxWaits = 2
INVARIANT XInv
INVARIANT WatchEndsAfterOp
INVARIANT VerdictOnOwnOp
INVARIANT PassedMeansInstalled
INVARIANT RepeatedAfterFailure
INVARIANT ReturnsAfterBoot
PROPERTY Terminates
