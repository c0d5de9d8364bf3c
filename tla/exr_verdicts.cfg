SPECIFICATION Spec
CONSTANTS
  Jobs <- AllJobs
  Replies = {"background", "reboot", "aborted", "noimpact", "prompt", "su", "notstart", "issu", "adminreload", "adminfailed"}
  Faults = {"conn", "timeout"}
  Foreign = TRUE
  LateMessages = TRUE
  AdminNests = FALSE
  PromptReload = TRUE
  MaxOps = 2
  MaxPolls = 3
INVARIANT PassedStaysTrue
INVARIANT ReturnReports
INVARIANT SavedWasPassed
INVARIANT OwnWhileRunning
INVARIANT IInv
PROPERTY LeavesAtExec
