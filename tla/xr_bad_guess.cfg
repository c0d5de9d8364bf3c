SPECIFICATION Spec
CONSTANTS
  Jobs <- RemoveAllJobs
  Faults = {}
  Ends = {"success", "failure", "failed", "incr"}
  Foreign = TRUE
  FailedShowsMethod = FALSE
  LateMessages = FALSE
  PromptReload = TRUE
  MaxOps = 3
  MaxPolls = 3
  MaxWaits = 2
INVARIANT RemovedAll
