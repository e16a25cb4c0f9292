SPECIFICATION Spec
CONSTANTS
  MaxVersion = 2
  Times = {1}
  Steps = {1}
  MaxJobs = 1
  Targets = {"IN_PRODUCTION", "REVIEW", "APPROVED", "READY"}
  Ticks = {w1}
  Live = FALSE
  MaxFaults = 0
INVARIANT PublishedBodyApproved
CHECK_DEADLOCK FALSE
