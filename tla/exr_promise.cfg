SPECIFICATION Spec
CONSTANTS
  Jobs <- WatchJobs
  Replies = {"background", "reboot", "aborted", "noimpact", "prompt", "su", "notstart", "adminfailed"}
  Faults = {"conn", "timeout"}
  Foreign = TRUE
  LateMessages = TRUE
  AdminNests = FALSE
  PromptReload = FALSE
  MaxOps = 2
  MaxPolls = 3
PROPERTY ImplementsTestCase
PROPERTY Terminates
