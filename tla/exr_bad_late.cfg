SPECIFICATION Spec
CONSTANTS
  Jobs <- WatchJobs
  Replies = {"background"}
  Faults = {}
  Foreign = TRUE
  LateMessages = TRUE
  AdminNests = FALSE
  PromptReload = TRUE
  MaxOps = 2
  MaxPolls = 3
INVARIANT WatchEndsAfterOp
