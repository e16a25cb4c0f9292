SPECIFICATION Spec
CONSTANTS
  MaxVersion = 2
  Times = {1}
  Steps = {1}
  MaxJobs = 2
  Targets = {"IN_PRODUCTION", "REVIEW", "APPROVED", "READY", "SCHEDULED"}
  Ticks = {w1, w2}
  Live = TRUE
  MaxFaults = 1
INVARIANTS TypeOK DeliveredVerified
PROPERTIES LedgerKept
CHECK_DEADLOCK FALSE
SYMMETRY Interchangeable
