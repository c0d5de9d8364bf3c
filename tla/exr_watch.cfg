SPECIFICATION Spec
CONSTANTS
  Jobs <- WatchJobs
  Replies = {"background", "reboot", "aborted", "su", "notstart", "adminfailed"}
  Faults = {"conn"}
  Foreign = TRUE
  LateMessages = FALSE
  AdminNests = FALSE
  PromptReload = TRUE
  MaxOps = 3
  MaxPolls = 3
INVARIANT WatchEndsAfterOp
INVARIANT ReturnsAfterBoot
