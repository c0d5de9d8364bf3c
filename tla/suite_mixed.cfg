SPECIFICATION Spec
CONSTANTS
  id1 = id1
  id2 = id2
  None = None
  Placeholders <- Placeholders2
  Plan <- MixedPlan
  MaxReports = 2
  LogMissing = TRUE
INVARIANT ResolvedBeforeUse
INVARIANT NothingAfterRaise
INVARIANT VerdictsReachXml
PROPERTY Completes
